--------------------------- MODULE ReflectionProofs ---------------------------
(***************************************************************************)
(* However many asks of one Session interleave, whatever they and a        *)
(* deletion overtake: the Session's tree stays one walk_to_root can walk,  *)
(* no ask runs the loop more than twice, and a Conversation is made of     *)
(* whole Turns, each with one Answer, read back as it was told and under   *)
(* the model that answered it, or stood in for by the latest summary.      *)
(*                                                                         *)
(* The order: what the tree's paths are (PathTo is a recursive function),  *)
(* the reads of a path as facts about sequences, the tree's invariant, what*)
(* each write does to what the asks know, the steps, and the theorems.     *)
(* Operators named ..In or ..Of are those of Sessions, Reflection and      *)
(* Conversations with the asks or the entries as parameters, so that facts *)
(* about them hold of a state and of its successor alike.                  *)
(***************************************************************************)
EXTENDS Conversations, TLAPS, FiniteSetTheorems, FunctionTheorems, NaturalsInduction,
        WellFoundedInduction

-----------------------------------------------------------------------------
(* The paths of a tree                                                     *)

\* A set of naturals has a least element.
LEMMA Smallest ==
  ASSUME NEW S \in SUBSET Nat, S # {}
  PROVE  \E x \in S : \A y \in S : x <= y
<1>1. IsWellFoundedOn(OpToRel(<, Nat), Nat)
  BY NatLessThanWellFounded
<1>2. PICK x \in S : \A y \in S : ~ (<<y, x>> \in OpToRel(<, Nat))
  BY <1>1, WFMin
<1>3. \A y \in S : y < x => <<y, x>> \in OpToRel(<, Nat)
  BY DEF OpToRel
<1>4. \A y \in S : ~(y < x)
  BY <1>2, <1>3, Zenon
<1> QED BY <1>4

\* A set that holds 0 and each successor holds every natural.
LEMMA Induction ==
  ASSUME NEW S, 0 \in S, \A n \in Nat : n \in S => n + 1 \in S
  PROVE  Nat \subseteq S
<1> SUFFICES ASSUME Nat \ S # {} PROVE FALSE
  OBVIOUS
<1>1. PICK x \in Nat \ S : \A y \in Nat \ S : x <= y
  BY Smallest
<1>2. x # 0 /\ x - 1 \in Nat
  BY <1>1
<1>3. x - 1 \in S
  BY <1>1, <1>2
<1> QED BY <1>1, <1>2, <1>3

\* Every parent was there before its child.
Tree(es) ==
  /\ DOMAIN es \subseteq Nat \ {0}
  /\ \A id \in DOMAIN es : es[id].parent \in {0} \cup DOMAIN es /\ es[id].parent < id

\* What PathTo says of one entry, given the paths of the entries before it.
PathStep(es, path, i) == IF i = 0 THEN <<>> ELSE Append(path[es[i].parent], es[i].payload)

PathOf(es, id) ==
  LET path == CHOOSE path : path = [i \in {0} \cup DOMAIN es |-> PathStep(es, path, i)]
  IN  path[id]

\* The function PathTo is defined by exists: walk_to_root always arrives.
LEMMA PathsExist ==
  ASSUME NEW es, Tree(es)
  PROVE  \E path : path = [i \in {0} \cup DOMAIN es |-> PathStep(es, path, i)]
<1> DEFINE D == {0} \cup DOMAIN es
           Upto(n) == {i \in D : i <= n}
           Partial(path, n) == path = [i \in Upto(n) |-> PathStep(es, path, i)]
<1>1. D \subseteq Nat /\ \A i \in D : i # 0 => es[i].parent \in D /\ es[i].parent < i
  BY DEF Tree
<1>2. \A n \in Nat : \E path : Partial(path, n)
  <2> DEFINE S == {n \in Nat : \E path : Partial(path, n)}
  <2>1. 0 \in S
    <3> DEFINE f == [i \in Upto(0) |-> <<>>]
    <3>1. \A i \in Upto(0) : i = 0
      BY <1>1
    <3>2. Partial(f, 0)
      BY <3>1 DEF PathStep
    <3> QED BY <3>2
  <2>2. ASSUME NEW n \in Nat, n \in S PROVE n + 1 \in S
    <3>1. PICK f : Partial(f, n)
      BY <2>2
    <3> DEFINE g == [i \in Upto(n + 1) |-> PathStep(es, f, i)]
    <3>2. \A i \in Upto(n) : g[i] = f[i]
      <4>1. \A i \in Upto(n) : i \in Upto(n + 1)
        BY <1>1
      <4> QED BY <3>1, <4>1
    <3>3. ASSUME NEW i \in Upto(n + 1) PROVE g[i] = PathStep(es, g, i)
      <4>1. CASE i = 0
        BY <4>1 DEF PathStep
      <4>2. CASE i # 0
        <5>1. es[i].parent \in Upto(n)
          BY <1>1, <4>2
        <5>2. g[es[i].parent] = f[es[i].parent]
          BY <3>2, <5>1
        <5>3. g[i] = PathStep(es, f, i)
          OBVIOUS
        <5> HIDE DEF g
        <5> QED BY <5>2, <5>3 DEF PathStep
      <4> QED BY <4>1, <4>2
    <3>4. Partial(g, n + 1)
      <4>1. g = [i \in Upto(n + 1) |-> g[i]]
        OBVIOUS
      <4> HIDE DEF g, Upto
      <4> QED BY <3>3, <4>1
    <3> HIDE DEF Partial, g
    <3> QED BY <3>4
  <2> HIDE DEF S
  <2>3. Nat \subseteq S
    BY <2>1, <2>2, Induction
  <2> QED BY <2>3 DEF S
<1>3. ASSUME NEW n \in Nat, NEW m \in Nat, NEW f, NEW g, Partial(f, n), Partial(g, m),
             NEW i \in D, i <= n, i <= m
      PROVE  f[i] = g[i]
  <2> DEFINE S == {j \in D : j <= n /\ j <= m /\ f[j] # g[j]}
  <2>1. SUFFICES ASSUME S # {} PROVE FALSE
    BY <1>3
  <2>2. S \in SUBSET Nat
    BY <1>1
  <2>3. PICK j \in S : \A k \in S : j <= k
    <3> HIDE DEF S
    <3> QED BY <2>1, <2>2, Smallest
  <2>4. f[j] = PathStep(es, f, j) /\ g[j] = PathStep(es, g, j)
    <3>1. j \in Upto(n) /\ j \in Upto(m)
      BY <2>3
    <3> QED BY <1>3, <3>1
  <2>5. j # 0
    BY <2>3, <2>4 DEF PathStep
  <2>6. es[j].parent \in D /\ es[j].parent < j /\ j \in Nat /\ es[j].parent \in Nat
    BY <1>1, <2>3, <2>5
  <2>7. es[j].parent \notin S
    BY <2>3, <2>6
  <2>8. es[j].parent <= n /\ es[j].parent <= m
    BY <2>3, <2>6
  <2>9. f[es[j].parent] = g[es[j].parent]
    BY <2>6, <2>7, <2>8
  <2> QED BY <2>3, <2>4, <2>9 DEF PathStep
<1> DEFINE H(n) == CHOOSE f : Partial(f, n)
           path == [i \in D |-> H(i)[i]]
<1>4. \A n \in Nat : Partial(H(n), n)
  <2> HIDE DEF Partial
  <2> QED BY <1>2
<1>5. ASSUME NEW i \in D PROVE path[i] = PathStep(es, path, i)
  <2>1. i \in Nat /\ i \in Upto(i)
    BY <1>1
  <2>2. path[i] = PathStep(es, H(i), i)
    <3>1. Partial(H(i), i)
      BY <1>4, <2>1
    <3>2. H(i)[i] = PathStep(es, H(i), i)
      <4> HIDE DEF H
      <4> QED BY <2>1, <3>1
    <3> QED BY <3>2
  <2>3. CASE i = 0
    BY <2>2, <2>3 DEF PathStep
  <2>4. CASE i # 0
    <3> DEFINE p == es[i].parent
    <3>1. p \in D /\ p < i /\ p \in Nat
      BY <1>1, <2>4
    <3>2. H(i)[p] = H(p)[p]
      <4> HIDE DEF H, Partial, D, p
      <4> QED BY <1>3, <1>4, <2>1, <3>1
    <3>3. path[p] = H(p)[p]
      BY <3>1
    <3> HIDE DEF H, path
    <3> QED BY <2>2, <2>4, <3>2, <3>3 DEF PathStep
  <2> QED BY <2>3, <2>4
<1>6. path = [i \in D |-> PathStep(es, path, i)]
  <2>1. path = [i \in D |-> path[i]]
    OBVIOUS
  <2> HIDE DEF path, D
  <2> QED BY <1>5, <2>1
<1> HIDE DEF path
<1> QED BY <1>6

\* A path is its parent's and one entry more.
LEMMA PathEquations ==
  ASSUME NEW es, Tree(es)
  PROVE  /\ PathOf(es, 0) = <<>>
         /\ \A id \in DOMAIN es :
              PathOf(es, id) = Append(PathOf(es, es[id].parent), es[id].payload)
<1> DEFINE path == CHOOSE path : path = [i \in {0} \cup DOMAIN es |-> PathStep(es, path, i)]
<1>1. path = [i \in {0} \cup DOMAIN es |-> PathStep(es, path, i)]
  BY PathsExist
<1>2. \A id : PathOf(es, id) = path[id]
  BY DEF PathOf
<1> HIDE DEF path
<1>3. path[0] = <<>>
  BY <1>1 DEF PathStep
<1>4. ASSUME NEW id \in DOMAIN es PROVE path[id] = Append(path[es[id].parent], es[id].payload)
  <2>1. id # 0
    BY DEF Tree
  <2>2. path[id] = PathStep(es, path, id)
    BY <1>1
  <2> QED BY <2>1, <2>2 DEF PathStep
<1> QED BY <1>2, <1>3, <1>4

Written(es) == {es[id].payload : id \in DOMAIN es}

LEMMA PathIsSeq ==
  ASSUME NEW es, Tree(es), NEW id \in {0} \cup DOMAIN es
  PROVE  PathOf(es, id) \in Seq(Written(es))
<1> DEFINE S == {i \in {0} \cup DOMAIN es : PathOf(es, i) \notin Seq(Written(es))}
<1> SUFFICES ASSUME S # {} PROVE FALSE
  OBVIOUS
<1>1. S \in SUBSET Nat
  BY DEF Tree
<1>2. PICK i \in S : \A j \in S : i <= j
  <2> HIDE DEF S
  <2> QED BY <1>1, Smallest
<1>3. PathOf(es, 0) \in Seq(Written(es))
  <2>1. PathOf(es, 0) = <<>>
    BY PathEquations
  <2>2. \A W : <<>> \in Seq(W)
    OBVIOUS
  <2>3. <<>> \in Seq(Written(es))
    BY <2>2, Zenon
  <2> QED BY <2>1, <2>3, Zenon
<1>4. i # 0 /\ i \in DOMAIN es /\ i \in Nat
  <2>1. i \in {0} \cup DOMAIN es /\ PathOf(es, i) \notin Seq(Written(es)) /\ i \in Nat
    BY <1>1, <1>2
  <2>2. i # 0
    BY <1>3, <2>1
  <2> QED BY <2>1, <2>2
<1>5. es[i].parent \in {0} \cup DOMAIN es /\ es[i].parent < i /\ es[i].parent \in Nat
  BY <1>4 DEF Tree
<1>6. PathOf(es, es[i].parent) \in Seq(Written(es))
  BY <1>2, <1>4, <1>5
<1>7. es[i].payload \in Written(es)
  BY <1>4 DEF Written
<1>8. PathOf(es, i) = Append(PathOf(es, es[i].parent), es[i].payload)
  BY <1>4, PathEquations
<1>9. PathOf(es, i) \in Seq(Written(es))
  BY <1>6, <1>7, <1>8
<1> QED BY <1>2, <1>9

\* What is added to a tree does not change the paths that were there.
LEMMA PathStays ==
  ASSUME NEW es, NEW fs, Tree(es), Tree(fs), DOMAIN es \subseteq DOMAIN fs,
         \A i \in DOMAIN es : fs[i] = es[i],
         NEW id \in {0} \cup DOMAIN es
  PROVE  PathOf(fs, id) = PathOf(es, id)
<1> DEFINE S == {i \in {0} \cup DOMAIN es : PathOf(fs, i) # PathOf(es, i)}
<1> SUFFICES ASSUME S # {} PROVE FALSE
  OBVIOUS
<1>1. S \in SUBSET Nat
  BY DEF Tree
<1>2. PICK i \in S : \A j \in S : i <= j
  <2> HIDE DEF S
  <2> QED BY <1>1, Smallest
<1>3. PathOf(es, 0) = <<>> /\ PathOf(fs, 0) = <<>>
  BY PathEquations
<1>4. i # 0 /\ i \in DOMAIN es /\ i \in Nat /\ i \in DOMAIN fs /\ fs[i] = es[i]
  <2>1. i \in {0} \cup DOMAIN es /\ PathOf(fs, i) # PathOf(es, i) /\ i \in Nat
    BY <1>1, <1>2
  <2>2. i # 0
    BY <1>3, <2>1
  <2> QED BY <2>1, <2>2
<1>5. es[i].parent \in {0} \cup DOMAIN es /\ es[i].parent < i /\ es[i].parent \in Nat
  BY <1>4 DEF Tree
<1>6. PathOf(fs, es[i].parent) = PathOf(es, es[i].parent)
  BY <1>2, <1>4, <1>5
<1>7. PathOf(es, i) = Append(PathOf(es, es[i].parent), es[i].payload)
  BY <1>4, PathEquations
<1>8. PathOf(fs, i) = Append(PathOf(fs, fs[i].parent), fs[i].payload)
  BY <1>4, PathEquations
<1> QED BY <1>2, <1>4, <1>6, <1>7, <1>8

\* r is p and then q.
Joined(r, p, q, n) ==
  /\ Len(r) = Len(p) + n
  /\ \A i \in 1 .. Len(p) : r[i] = p[i]
  /\ \A i \in 1 .. n : r[Len(p) + i] = q[i]

LEMMA JoinedMore ==
  ASSUME NEW S, NEW p \in Seq(S), NEW r \in Seq(S), NEW q, NEW n \in Nat, Joined(r, p, q, n),
         q[n + 1] \in S
  PROVE  Joined(Append(r, q[n + 1]), p, q, n + 1)
<1> DEFINE t == Append(r, q[n + 1])
<1>1. Len(t) = Len(p) + (n + 1) /\ Len(p) \in Nat /\ Len(r) = Len(p) + n
  BY DEF Joined
<1>2. \A i \in 1 .. Len(r) : t[i] = r[i]
  OBVIOUS
<1>3. t[Len(p) + (n + 1)] = q[n + 1]
  BY <1>1
<1>4. ASSUME NEW i \in 1 .. Len(p) PROVE t[i] = p[i]
  <2>1. i \in 1 .. Len(r)
    BY <1>1
  <2> QED BY <1>2, <2>1 DEF Joined
<1>5. ASSUME NEW i \in 1 .. n + 1 PROVE t[Len(p) + i] = q[i]
  <2>1. CASE i = n + 1
    BY <1>3, <2>1
  <2>2. CASE i # n + 1
    <3>1. i \in 1 .. n /\ Len(p) + i \in 1 .. Len(r)
      BY <1>1, <2>2
    <3>2. r[Len(p) + i] = q[i]
      BY <3>1 DEF Joined
    <3> QED BY <1>2, <3>1, <3>2
  <2> QED BY <2>1, <2>2
<1> HIDE DEF t
<1> QED BY <1>1, <1>4, <1>5 DEF Joined, t

\* The path to the n-th entry of a chain of payloads.
LEMMA PathChained ==
  ASSUME NEW es, NEW fs, Tree(es), Tree(fs), DOMAIN es \subseteq DOMAIN fs,
         \A i \in DOMAIN es : fs[i] = es[i],
         NEW parent \in {0} \cup DOMAIN es, NEW first \in Nat \ {0}, NEW q, Len(q) \in Nat \ {0},
         \A i \in 1 .. Len(q) :
           /\ first + i - 1 \in DOMAIN fs
           /\ fs[first + i - 1] = [parent |-> IF i = 1 THEN parent ELSE first + i - 2,
                                   payload |-> q[i]]
  PROVE  Joined(PathOf(fs, first + Len(q) - 1), PathOf(es, parent), q, Len(q))
<1> DEFINE p == PathOf(es, parent)
           r(i) == PathOf(fs, first + i - 1)
           S == {i \in Nat : i + 1 <= Len(q) => Joined(r(i + 1), p, q, i + 1)}
<1>1. p \in Seq(Written(es)) /\ PathOf(fs, parent) = p
  BY PathIsSeq, PathStays
<1>2. ASSUME NEW i \in 1 .. Len(q)
      PROVE  /\ r(i) \in Seq(Written(fs))
             /\ r(i) = Append(IF i = 1 THEN p ELSE r(i - 1), q[i])
             /\ q[i] \in Written(fs)
             /\ IF i = 1 THEN p \in Seq(Written(fs)) ELSE r(i - 1) \in Seq(Written(fs))
  <2>1. /\ first + i - 1 \in DOMAIN fs /\ fs[first + i - 1].payload = q[i]
        /\ fs[first + i - 1].parent = IF i = 1 THEN parent ELSE first + i - 2
    <3> DEFINE up == IF i = 1 THEN parent ELSE first + i - 2
    <3>1. /\ first + i - 1 \in DOMAIN fs
          /\ fs[first + i - 1] = [parent |-> up, payload |-> q[i]]
      OBVIOUS
    <3> HIDE DEF up
    <3>2. fs[first + i - 1].payload = q[i] /\ fs[first + i - 1].parent = up
      BY <3>1
    <3> QED BY <3>1, <3>2 DEF up
  <2>2. r(i) \in Seq(Written(fs)) /\ q[i] \in Written(fs)
    BY <2>1, PathIsSeq DEF Written
  <2>3. r(i) = Append(PathOf(fs, fs[first + i - 1].parent), q[i])
    BY <2>1, PathEquations
  <2>4. CASE i = 1
    <3>1. parent \in {0} \cup DOMAIN fs
      OBVIOUS
    <3>2. PathOf(fs, parent) \in Seq(Written(fs))
      BY <3>1, PathIsSeq
    <3> QED BY <1>1, <2>1, <2>2, <2>3, <2>4, <3>2
  <2>5. CASE i # 1
    <3>1. i - 1 \in 1 .. Len(q) /\ first + (i - 1) - 1 = first + i - 2
      BY <2>5
    <3>2. first + i - 2 \in DOMAIN fs
      BY <3>1
    <3>3. PathOf(fs, first + i - 2) \in Seq(Written(fs))
      BY <3>2, PathIsSeq
    <3>4. r(i - 1) = PathOf(fs, first + i - 2)
      BY <3>1
    <3> QED BY <2>1, <2>2, <2>3, <2>5, <3>3, <3>4
  <2> QED BY <2>4, <2>5
<1> HIDE DEF p, r
<1>3. Joined(r(1), p, q, 1)
  <2>1. r(1) = Append(p, q[1])
    BY <1>2
  <2> QED BY <1>1, <2>1 DEF Joined
<1>4. ASSUME NEW i \in Nat, i + 2 <= Len(q), Joined(r(i + 1), p, q, i + 1)
      PROVE  Joined(r(i + 2), p, q, i + 2)
  <2>1. /\ r(i + 2) = Append(r(i + 1), q[i + 2]) /\ r(i + 1) \in Seq(Written(fs))
        /\ q[i + 2] \in Written(fs)
    <3>1. i + 2 \in 1 .. Len(q) /\ i + 2 # 1 /\ (i + 2) - 1 = i + 1
      BY <1>4
    <3> QED BY <1>2, <3>1
  <2>2. p \in Seq(Written(fs))
    <3>1. 1 \in 1 .. Len(q)
      OBVIOUS
    <3> QED BY <1>2, <3>1
  <2>3. PICK n \in Nat : n = i + 1
    OBVIOUS
  <2>4. PICK s \in Seq(Written(fs)) : s = r(i + 1)
    BY <2>1
  <2>5. Joined(Append(s, q[n + 1]), p, q, n + 1)
    <3>1. n + 1 = i + 2
      BY <2>3
    <3>2. Joined(s, p, q, n) /\ q[n + 1] \in Written(fs)
      BY <1>4, <2>1, <2>3, <2>4, <3>1
    <3> QED BY <2>2, <3>2, JoinedMore
  <2>6. n + 1 = i + 2
    BY <2>3
  <2> QED BY <2>1, <2>4, <2>5, <2>6
<1>5. Nat \subseteq S
  <2>1. 0 \in S
    BY <1>3
  <2>2. ASSUME NEW i \in Nat, i \in S PROVE i + 1 \in S
    <3>1. CASE ~(i + 2 <= Len(q))
      BY <3>1
    <3>2. CASE i + 2 <= Len(q)
      <4>1. Joined(r(i + 1), p, q, i + 1)
        BY <2>2, <3>2
      <4>2. Joined(r(i + 2), p, q, i + 2)
        BY <1>4, <3>2, <4>1
      <4>3. (i + 1) + 1 = i + 2 /\ i + 1 \in Nat
        OBVIOUS
      <4> QED BY <4>2, <4>3
    <3> QED BY <3>1, <3>2
  <2> HIDE DEF S
  <2> QED BY <2>1, <2>2, Induction
<1>6. Len(q) - 1 \in Nat /\ (Len(q) - 1) + 1 = Len(q)
  OBVIOUS
<1>7. PICK n \in Nat : n = Len(q) - 1
  BY <1>6
<1>8. Joined(r(n + 1), p, q, n + 1)
  <2>1. n \in S
    BY <1>5
  <2> QED BY <1>6, <1>7, <2>1
<1> QED BY <1>6, <1>7, <1>8 DEF p, r

LEMMA PathIsPathOf ==
  \A id : PathTo(id) = PathOf(entries, id)
BY DEF PathTo, PathOf, PathStep

-----------------------------------------------------------------------------
(* The last entry of a kind, and the model in force                        *)

LEMMA Largest ==
  ASSUME NEW n \in Nat, NEW S \in SUBSET (1 .. n), S # {}
  PROVE  Max(S) \in S /\ \A x \in S : x <= Max(S)
<1> DEFINE T == {n - x : x \in S}
<1>1. T \in SUBSET Nat /\ T # {}
  <2>1. \A x \in S : x \in 1 .. n /\ n - x \in Nat
    OBVIOUS
  <2> QED BY <2>1
<1>2. PICK y \in T : \A z \in T : y <= z
  <2> HIDE DEF T
  <2> QED BY <1>1, Smallest
<1>3. PICK x \in S : y = n - x
  BY <1>2
<1>4. ASSUME NEW z \in S PROVE x >= z
  <2>1. n - z \in T
    OBVIOUS
  <2>2. n - x <= n - z
    BY <1>2, <1>3, <2>1
  <2>3. x \in 1 .. n /\ z \in 1 .. n
    BY <1>3
  <2> QED BY <2>2, <2>3
<1>5. \E m \in S : \A z \in S : m >= z
  BY <1>3, <1>4
<1>6. Max(S) \in S /\ \A z \in S : Max(S) >= z
  BY <1>5 DEF Max
<1> QED BY <1>6

\* What LastOf finds.
LEMMA LastFound ==
  ASSUME NEW S, NEW p \in Seq(S), NEW type
  PROVE  LET last == LastOf(p, type)
         IN  /\ last \in 0 .. Len(p)
             /\ last # 0 => p[last].type = type
             /\ \A i \in 1 .. Len(p) : p[i].type = type => last # 0 /\ i <= last
<1> DEFINE I == {i \in 1 .. Len(p) : p[i].type = type}
<1>1. LastOf(p, type) = IF I # {} THEN Max(I) ELSE 0
  BY DEF LastOf, SelectLastInSeq
<1>2. Len(p) \in Nat /\ I \in SUBSET (1 .. Len(p))
  OBVIOUS
<1>3. CASE I = {}
  BY <1>1, <1>2, <1>3
<1>4. CASE I # {}
  <2>1. Max(I) \in I /\ \A x \in I : x <= Max(I)
    <3> HIDE DEF I
    <3> QED BY <1>2, <1>4, Largest
  <2>2. LastOf(p, type) = Max(I)
    BY <1>1, <1>4
  <2> QED BY <1>2, <2>1, <2>2
<1> QED BY <1>3, <1>4

LEMMA LastIs ==
  ASSUME NEW S, NEW p \in Seq(S), NEW type, NEW m \in 1 .. Len(p), p[m].type = type,
         \A i \in m + 1 .. Len(p) : p[i].type # type
  PROVE  LastOf(p, type) = m
<1> DEFINE last == LastOf(p, type)
<1>1. /\ last \in 0 .. Len(p)
      /\ last # 0 => p[last].type = type
      /\ \A i \in 1 .. Len(p) : p[i].type = type => last # 0 /\ i <= last
  BY LastFound
<1> HIDE DEF last
<1>2. last # 0 /\ m <= last
  BY <1>1
<1>3. last \notin m + 1 .. Len(p)
  BY <1>1, <1>2
<1>4. last = m
  BY <1>1, <1>2, <1>3
<1> QED BY <1>4 DEF last

LEMMA LastNone ==
  ASSUME NEW S, NEW p \in Seq(S), NEW type, \A i \in 1 .. Len(p) : p[i].type # type
  PROVE  LastOf(p, type) = 0
<1> DEFINE last == LastOf(p, type)
<1>1. last \in 0 .. Len(p) /\ (last # 0 => p[last].type = type)
  BY LastFound
<1> HIDE DEF last
<1>2. last = 0
  BY <1>1
<1> QED BY <1>2 DEF last

\* The model in force after n entries is the one of the last change.
LEMMA ForceIs ==
  ASSUME NEW S, NEW p \in Seq(S), NEW n \in 0 .. Len(p), NEW seed,
         NEW m \in 1 .. n, p[m].type = "model", \A i \in m + 1 .. n : p[i].type # "model"
  PROVE  ModelAfter(SubSeq(p, 1, n), seed) = p[m].model
<1> DEFINE q == SubSeq(p, 1, n)
<1>1. q \in Seq(S) /\ Len(q) = n /\ \A i \in 1 .. n : q[i] = p[i]
  OBVIOUS
<1> HIDE DEF q
<1>2. LastOf(q, "model") = m
  BY <1>1, LastIs, SMTT(20)
<1>3. ModelAfter(q, seed) = q[m].model
  BY <1>2 DEF ModelAfter
<1> QED BY <1>1, <1>3 DEF q

LEMMA ForceNone ==
  ASSUME NEW S, NEW p \in Seq(S), NEW n \in 0 .. Len(p), NEW seed,
         \A i \in 1 .. n : p[i].type # "model"
  PROVE  ModelAfter(SubSeq(p, 1, n), seed) = seed
<1> DEFINE q == SubSeq(p, 1, n)
<1>1. q \in Seq(S) /\ Len(q) = n /\ \A i \in 1 .. n : q[i] = p[i]
  OBVIOUS
<1> HIDE DEF q
<1>2. LastOf(q, "model") = 0
  BY <1>1, LastNone
<1>3. ModelAfter(q, seed) = seed
  BY <1>2 DEF ModelAfter
<1> QED BY <1>1, <1>3 DEF q

\* Either there is a last change among the first n entries, or none.
LEMMA ForceCases ==
  ASSUME NEW S, NEW p \in Seq(S), NEW n \in 0 .. Len(p)
  PROVE  \/ \A i \in 1 .. n : p[i].type # "model"
         \/ \E m \in 1 .. n : p[m].type = "model" /\ \A i \in m + 1 .. n : p[i].type # "model"
<1> DEFINE I == {i \in 1 .. n : p[i].type = "model"}
<1>1. CASE I = {}
  BY <1>1
<1>2. CASE I # {}
  <2>1. Max(I) \in I /\ \A x \in I : x <= Max(I)
    <3>1. I \in SUBSET (1 .. n) /\ n \in Nat
      OBVIOUS
    <3> HIDE DEF I
    <3> QED BY <1>2, <3>1, Largest
  <2>2. PICK m : m = Max(I)
    OBVIOUS
  <2>3. m \in 1 .. n /\ p[m].type = "model" /\ \A x \in I : x <= m
    BY <2>1, <2>2
  <2>4. \A i \in m + 1 .. n : i \notin I
    BY <2>3
  <2> QED BY <2>3, <2>4
<1> QED BY <1>1, <1>2

\* Entries that are no model_change change nothing.
LEMMA ForceKeeps ==
  ASSUME NEW S, NEW p \in Seq(S), NEW n \in 0 .. Len(p), NEW k \in 0 .. n, NEW seed,
         \A i \in k + 1 .. n : p[i].type # "model"
  PROVE  ModelAfter(SubSeq(p, 1, n), seed) = ModelAfter(SubSeq(p, 1, k), seed)
<1>1. k \in 0 .. Len(p)
  OBVIOUS
<1>2. CASE \A i \in 1 .. k : p[i].type # "model"
  <2>1. \A i \in 1 .. n : p[i].type # "model"
    BY <1>2
  <2> QED BY <1>1, <1>2, <2>1, ForceNone
<1>3. CASE \E m \in 1 .. k : p[m].type = "model" /\ \A i \in m + 1 .. k : p[i].type # "model"
  <2>1. PICK m \in 1 .. k : p[m].type = "model" /\ \A i \in m + 1 .. k : p[i].type # "model"
    BY <1>3
  <2>2. m \in 1 .. n /\ \A i \in m + 1 .. n : p[i].type # "model"
    BY <2>1
  <2>3. ModelAfter(SubSeq(p, 1, k), seed) = p[m].model
    BY <1>1, <2>1, ForceIs
  <2>4. ModelAfter(SubSeq(p, 1, n), seed) = p[m].model
    BY <2>1, <2>2, ForceIs
  <2> QED BY <2>3, <2>4
<1> QED BY <1>1, <1>2, <1>3, ForceCases

LEMMA SamePrefix ==
  ASSUME NEW S, NEW p \in Seq(S), NEW T, NEW r \in Seq(T), NEW n \in 0 .. Len(p), n <= Len(r),
         \A i \in 1 .. n : r[i] = p[i]
  PROVE  SubSeq(r, 1, n) = SubSeq(p, 1, n)
<1>1. n \in Nat /\ n <= Len(p) /\ Len(p) \in Nat /\ Len(r) \in Nat
  OBVIOUS
<1>2. SubSeq(r, 1, n) = [i \in 1 .. n |-> r[i]]
  BY <1>1
<1>3. SubSeq(p, 1, n) = [i \in 1 .. n |-> p[i]]
  BY <1>1
<1> QED BY <1>2, <1>3

LEMMA WholePrefix ==
  ASSUME NEW S, NEW p \in Seq(S)
  PROVE  SubSeq(p, 1, Len(p)) = p
OBVIOUS

\* What the projection of a path shows.
LEMMA ProjectionOf ==
  ASSUME NEW S, NEW p \in Seq(S)
  PROVE  \E off \in 0 .. Len(p) :
           /\ Projected(p) \in Seq(S)
           /\ Len(Projected(p)) = Len(p) - off
           /\ \A i \in 1 .. Len(p) - off : Projected(p)[i] = p[off + i]
           /\ \A i \in off + 2 .. Len(p) : p[i].type # "compaction"
           /\ IF LastOf(p, "compaction") = 0
              THEN off = 0 /\ \A i \in 1 .. Len(p) : p[i].type # "compaction"
              ELSE /\ off + 1 = LastOf(p, "compaction") /\ off + 1 <= Len(p)
                   /\ p[off + 1].type = "compaction"
<1> DEFINE cut == LastOf(p, "compaction")
<1>1. /\ cut \in 0 .. Len(p)
      /\ cut # 0 => p[cut].type = "compaction"
      /\ \A i \in 1 .. Len(p) : p[i].type = "compaction" => cut # 0 /\ i <= cut
  BY LastFound
<1>2. Projected(p) = IF cut = 0 THEN p ELSE SubSeq(p, cut, Len(p))
  BY DEF Projected
<1> HIDE DEF cut
<1>3. CASE cut = 0
  <2>1. \A i \in 1 .. Len(p) : p[i].type # "compaction"
    BY <1>1, <1>3
  <2>2. Projected(p) = p
    BY <1>2, <1>3
  <2>3. \A i \in 2 .. Len(p) : p[i].type # "compaction"
    BY <2>1
  <2> WITNESS 0 \in 0 .. Len(p)
  <2> QED BY <1>3, <2>1, <2>2, <2>3 DEF cut
<1>4. CASE cut # 0
  <2>1. cut \in 1 .. Len(p) /\ Projected(p) = SubSeq(p, cut, Len(p))
    BY <1>1, <1>2, <1>4
  <2>2. /\ Projected(p) \in Seq(S) /\ Len(Projected(p)) = Len(p) - (cut - 1)
        /\ \A i \in 1 .. Len(p) - (cut - 1) : Projected(p)[i] = p[(cut - 1) + i]
    BY <2>1
  <2>3. \A i \in (cut - 1) + 2 .. Len(p) : p[i].type # "compaction"
    BY <1>1, <2>1
  <2>4. (cut - 1) + 1 = cut
    BY <2>1
  <2>5. cut - 1 \in 0 .. Len(p)
    BY <2>1
  <2> WITNESS cut - 1 \in 0 .. Len(p)
  <2> QED BY <1>1, <1>4, <2>1, <2>2, <2>3, <2>4, <2>5 DEF cut
<1> QED BY <1>3, <1>4

\* A change that a compaction hides is still in force.
LEMMA ForceProjected ==
  ASSUME NEW S, NEW p \in Seq(S), NEW off \in 0 .. Len(p),
         Projected(p) \in Seq(S), Len(Projected(p)) = Len(p) - off,
         \A i \in 1 .. Len(p) - off : Projected(p)[i] = p[off + i],
         IF LastOf(p, "compaction") = 0 THEN off = 0 ELSE off + 1 = LastOf(p, "compaction"),
         NEW n \in 0 .. Len(p) - off
  PROVE  ModelAfter(SubSeq(Projected(p), 1, n), ModelBefore(p)) = InForce(p, off + n)
<1> DEFINE q == Projected(p)
           seed == ModelBefore(p)
<1>1. seed = ModelAfter(SubSeq(p, 1, off), DefaultModel)
  <2>1. CASE LastOf(p, "compaction") = 0
    <3>1. SubSeq(p, 1, 0 - 1) = <<>> /\ SubSeq(p, 1, 0) = <<>>
      OBVIOUS
    <3> QED BY <2>1, <3>1 DEF ModelBefore
  <2>2. CASE LastOf(p, "compaction") # 0
    <3>1. LastOf(p, "compaction") - 1 = off
      BY <2>2
    <3> QED BY <3>1 DEF ModelBefore
  <2> QED BY <2>1, <2>2
<1>2. q \in Seq(S) /\ Len(q) = Len(p) - off /\ \A i \in 1 .. Len(p) - off : q[i] = p[off + i]
  OBVIOUS
<1> HIDE DEF q, seed
<1>3. off + n \in 0 .. Len(p) /\ n \in 0 .. Len(q) /\ off \in 0 .. off + n
  BY <1>2
<1>4. CASE \A i \in 1 .. n : q[i].type # "model"
  <2>1. ModelAfter(SubSeq(q, 1, n), seed) = seed
    BY <1>2, <1>3, <1>4, ForceNone
  <2>2. ASSUME NEW i \in off + 1 .. off + n PROVE p[i].type # "model"
    <3>1. i - off \in 1 .. n /\ off + (i - off) = i /\ i - off \in 1 .. Len(p) - off
      BY <1>3
    <3> QED BY <1>2, <1>4, <3>1
  <2>3. InForce(p, off + n) = ModelAfter(SubSeq(p, 1, off), DefaultModel)
    BY <1>3, <2>2, ForceKeeps DEF InForce
  <2> QED BY <1>1, <2>1, <2>3 DEF q, seed
<1>5. CASE \E m \in 1 .. n : q[m].type = "model" /\ \A i \in m + 1 .. n : q[i].type # "model"
  <2>1. PICK m \in 1 .. n : q[m].type = "model" /\ \A i \in m + 1 .. n : q[i].type # "model"
    BY <1>5
  <2>2. ModelAfter(SubSeq(q, 1, n), seed) = q[m].model
    BY <1>2, <1>3, <2>1, ForceIs
  <2>3. m \in 1 .. Len(p) - off /\ off + m \in 1 .. off + n
    BY <1>3
  <2>4. q[m] = p[off + m]
    BY <1>2, <2>3
  <2>5. ASSUME NEW i \in off + m + 1 .. off + n PROVE p[i].type # "model"
    <3>1. i - off \in m + 1 .. n /\ off + (i - off) = i /\ i - off \in 1 .. Len(p) - off
      BY <1>3
    <3> QED BY <1>2, <2>1, <3>1
  <2>6. ModelAfter(SubSeq(p, 1, off + n), DefaultModel) = p[off + m].model
    <3>1. PICK k : k = off + m
      OBVIOUS
    <3>2. PICK l : l = off + n
      OBVIOUS
    <3>3. /\ k \in 1 .. l /\ l \in 0 .. Len(p) /\ p[k].type = "model"
          /\ \A i \in k + 1 .. l : p[i].type # "model"
      BY <1>3, <2>1, <2>3, <2>4, <2>5, <3>1, <3>2
    <3>4. ModelAfter(SubSeq(p, 1, l), DefaultModel) = p[k].model
      BY <3>3, ForceIs
    <3> QED BY <3>1, <3>2, <3>4
  <2> QED BY <2>2, <2>4, <2>6 DEF InForce, q, seed
<1> QED BY <1>2, <1>3, <1>4, <1>5, ForceCases

-----------------------------------------------------------------------------
(* Paths of whole Turns                                                    *)

\* WholeTurns, of any asks A.
StepIn(A, a, k) ==
  IF A[a].steps[k] \in Results THEN ToolEntry(A[a].steps[k])
  ELSE AssistantEntry(k, k = A[a].answer)

ToldIn(A, p, i) ==
  /\ p[i].ask \in Asks /\ A[p[i].ask].pc = "done"
  /\ \A k \in DOMAIN A[p[i].ask].steps :
       i + k \in DOMAIN p /\ p[i + k] = StepIn(A, p[i].ask, k)

BelongsIn(A, p, i) ==
  \E j \in 1 .. i - 1 : p[j].type = "user" /\ i - j \in DOMAIN A[p[j].ask].steps

TurnsIn(A, p) ==
  \A i \in DOMAIN p :
    /\ p[i].type = "user" => ToldIn(A, p, i)
    /\ p[i].type \in {"assistant", "tool"} => BelongsIn(A, p, i)
    /\ p[i].type = "model" => i + 1 \in DOMAIN p /\ p[i + 1].type = "user"

ModelsIn(A, p) ==
  \A i \in DOMAIN p :
    p[i].type = "user" /\ A[p[i].ask].sure => InForce(p, i) = A[p[i].ask].model

WholeIn(A, p) == TurnsIn(A, p) /\ ModelsIn(A, p)

\* What the asks of a path have of an invariant: their steps, and the reply
\* they settled on.
StepsIn(A) ==
  \A a \in Asks :
    /\ A[a].steps \in Seq(Replies \cup Results)
    /\ A[a].pc = "done" => A[a].answer \in DOMAIN A[a].steps
                           /\ A[a].steps[A[a].answer] = "text"

LEMMA WholeIsWholeIn ==
  ASSUME NEW p
  PROVE  WholeTurns(p) <=> WholeIn(ask, p)
<1>1. \A i : Told(p, i) <=> ToldIn(ask, p, i)
  BY DEF Told, ToldIn, StepEntry, StepIn, IsAnswer
<1>2. \A i : Belongs(p, i) <=> BelongsIn(ask, p, i)
  BY DEF Belongs, BelongsIn
<1> QED BY <1>1, <1>2 DEF WholeTurns, WholeIn, TurnsIn, ModelsIn

LEMMA StepTypes ==
  ASSUME NEW A, NEW a, NEW k
  PROVE  /\ StepIn(A, a, k).type \in {"assistant", "tool"}
         /\ StepIn(A, a, k).type = "tool" <=> A[a].steps[k] \in Results
         /\ StepIn(A, a, k).type = "tool" => StepIn(A, a, k).result = A[a].steps[k]
         /\ StepIn(A, a, k).type = "assistant" =>
              /\ StepIn(A, a, k).text = k
              /\ StepIn(A, a, k).isAnswer <=> k = A[a].answer
<1>1. CASE A[a].steps[k] \in Results
  BY <1>1 DEF StepIn, ToolEntry
<1>2. CASE A[a].steps[k] \notin Results
  BY <1>2 DEF StepIn, AssistantEntry
<1> QED BY <1>1, <1>2

\* Asks that are done keep what a path says of them.
LEMMA WholeStays ==
  ASSUME NEW A, NEW B, NEW S, NEW p \in Seq(S), WholeIn(A, p),
         \A a \in Asks : A[a].pc = "done" => B[a] = A[a]
  PROVE  WholeIn(B, p)
<1>0. DOMAIN p = 1 .. Len(p) /\ Len(p) \in Nat
  OBVIOUS
<1>1. ASSUME NEW i \in DOMAIN p, p[i].type = "user"
      PROVE  ToldIn(B, p, i) /\ B[p[i].ask] = A[p[i].ask]
  <2>1. ToldIn(A, p, i)
    BY <1>1 DEF WholeIn, TurnsIn
  <2>2. B[p[i].ask] = A[p[i].ask]
    BY <2>1 DEF ToldIn
  <2>3. \A k : StepIn(B, p[i].ask, k) = StepIn(A, p[i].ask, k)
    BY <2>2 DEF StepIn
  <2> QED BY <2>1, <2>2, <2>3 DEF ToldIn
<1>2. ASSUME NEW i \in DOMAIN p, p[i].type \in {"assistant", "tool"} PROVE BelongsIn(B, p, i)
  <2>1. BelongsIn(A, p, i)
    BY <1>2 DEF WholeIn, TurnsIn
  <2>2. PICK j \in 1 .. i - 1 : p[j].type = "user" /\ i - j \in DOMAIN A[p[j].ask].steps
    BY <2>1 DEF BelongsIn
  <2>3. j \in DOMAIN p
    BY <1>0, <2>2
  <2>4. B[p[j].ask] = A[p[j].ask]
    BY <1>1, <2>2, <2>3
  <2> QED BY <2>2, <2>4 DEF BelongsIn
<1>3. ModelsIn(B, p)
  BY <1>1 DEF WholeIn, ModelsIn
<1>4. \A i \in DOMAIN p : p[i].type = "model" => i + 1 \in DOMAIN p /\ p[i + 1].type = "user"
  BY DEF WholeIn, TurnsIn
<1> QED BY <1>1, <1>2, <1>3, <1>4 DEF WholeIn, TurnsIn

LEMMA WholeEmpty ==
  ASSUME NEW A
  PROVE  WholeIn(A, <<>>)
BY DEF WholeIn, TurnsIn, ModelsIn

\* What an append leaves of a path's own entries.
LEMMA OldStays ==
  ASSUME NEW A, NEW S, NEW p \in Seq(S), NEW r \in Seq(S), NEW q, NEW n \in Nat,
         Joined(r, p, q, n), WholeIn(A, p), NEW i \in 1 .. Len(p)
  PROVE  /\ r[i].type = "user" => ToldIn(A, r, i)
         /\ r[i].type \in {"assistant", "tool"} => BelongsIn(A, r, i)
         /\ r[i].type = "model" => i + 1 \in DOMAIN r /\ r[i + 1].type = "user"
         /\ r[i].type = "user" /\ A[r[i].ask].sure => InForce(r, i) = A[r[i].ask].model
<1>1. /\ DOMAIN p = 1 .. Len(p) /\ Len(p) \in Nat
      /\ DOMAIN r = 1 .. Len(r) /\ Len(r) \in Nat /\ Len(r) = Len(p) + n
      /\ \A j \in 1 .. Len(p) : r[j] = p[j] /\ j \in DOMAIN r
  BY DEF Joined
<1>2. ASSUME r[i].type = "user" PROVE ToldIn(A, r, i)
  <2>1. ToldIn(A, p, i)
    BY <1>1, <1>2 DEF WholeIn, TurnsIn
  <2> QED BY <1>1, <2>1 DEF ToldIn
<1>3. ASSUME r[i].type \in {"assistant", "tool"} PROVE BelongsIn(A, r, i)
  <2>1. BelongsIn(A, p, i)
    BY <1>1, <1>3 DEF WholeIn, TurnsIn
  <2>2. PICK j \in 1 .. i - 1 : p[j].type = "user" /\ i - j \in DOMAIN A[p[j].ask].steps
    BY <2>1 DEF BelongsIn
  <2>3. r[j] = p[j]
    BY <1>1, <2>2
  <2> QED BY <2>2, <2>3 DEF BelongsIn
<1>4. ASSUME r[i].type = "model" PROVE i + 1 \in DOMAIN r /\ r[i + 1].type = "user"
  <2>1. i + 1 \in DOMAIN p /\ p[i + 1].type = "user"
    BY <1>1, <1>4 DEF WholeIn, TurnsIn
  <2> QED BY <1>1, <2>1
<1>5. InForce(r, i) = InForce(p, i)
  <2>1. i \in 0 .. Len(p) /\ i <= Len(r) /\ \A j \in 1 .. i : r[j] = p[j]
    BY <1>1
  <2>2. SubSeq(r, 1, i) = SubSeq(p, 1, i)
    BY <2>1, SamePrefix
  <2> QED BY <2>2 DEF InForce
<1>6. r[i].type = "user" /\ A[r[i].ask].sure => InForce(r, i) = A[r[i].ask].model
  BY <1>1, <1>5 DEF WholeIn, ModelsIn
<1> QED BY <1>2, <1>3, <1>4, <1>6

\* A compaction appended to whole Turns.
LEMMA WholeCompacted ==
  ASSUME NEW A, NEW S, NEW p \in Seq(S), NEW r \in Seq(S), NEW q,
         Joined(r, p, q, 1), q[1].type = "compaction", WholeIn(A, p)
  PROVE  WholeIn(A, r)
<1>1. /\ DOMAIN r = 1 .. Len(r) /\ Len(p) \in Nat /\ Len(r) = Len(p) + 1
      /\ r[Len(p) + 1].type = "compaction"
  BY DEF Joined
<1>2. ASSUME NEW i \in DOMAIN r
      PROVE  /\ r[i].type = "user" => ToldIn(A, r, i)
             /\ r[i].type \in {"assistant", "tool"} => BelongsIn(A, r, i)
             /\ r[i].type = "model" => i + 1 \in DOMAIN r /\ r[i + 1].type = "user"
             /\ r[i].type = "user" /\ A[r[i].ask].sure => InForce(r, i) = A[r[i].ask].model
  <2>1. CASE i = Len(p) + 1
    BY <1>1, <2>1
  <2>2. CASE i # Len(p) + 1
    <3>1. i \in 1 .. Len(p) /\ 1 \in Nat
      BY <1>1, <2>2
    <3> QED BY <3>1, OldStays
  <2> QED BY <2>1, <2>2
<1> QED BY <1>2 DEF WholeIn, TurnsIn, ModelsIn

\* q is the Turn that a appends: a change of model or none, the Question
\*, its steps.  The Question is at u.
IsTurn(B, a, u, q) ==
  /\ u \in {1, 2} /\ Len(q) = u + Len(B[a].steps)
  /\ u = 2 => q[1].type = "model"
  /\ q[u].type = "user" /\ q[u].ask = a
  /\ \A k \in DOMAIN B[a].steps : q[u + k] = StepIn(B, a, k)

\* Of a Turn's payloads one is a Question, and none a compaction.
LEMMA TurnPayloads ==
  ASSUME NEW B, StepsIn(B), NEW a \in Asks, NEW u, NEW q, IsTurn(B, a, u, q)
  PROVE  /\ u \in 1 .. Len(q) /\ Len(q) \in Nat
         /\ \A i \in 1 .. Len(q) : q[i].type # "compaction" /\ (q[i].type = "user" => i = u)
<1>1. /\ u \in {1, 2} /\ Len(q) = u + Len(B[a].steps)
      /\ u = 2 => q[1].type = "model"
      /\ q[u].type = "user" /\ q[u].ask = a
      /\ \A k \in DOMAIN B[a].steps : q[u + k] = StepIn(B, a, k)
  BY DEF IsTurn
<1>2. /\ Len(B[a].steps) \in Nat /\ DOMAIN B[a].steps = 1 .. Len(B[a].steps)
  BY DEF StepsIn
<1> DEFINE n == Len(B[a].steps)
<1> HIDE DEF n
<1>4. n \in Nat /\ DOMAIN B[a].steps = 1 .. n /\ Len(q) = u + n
  BY <1>1, <1>2 DEF n
<1>3. ASSUME NEW i \in 1 .. Len(q)
      PROVE  q[i].type # "compaction" /\ (q[i].type = "user" => i = u)
  <2>1. CASE i = u
    BY <1>1, <2>1
  <2>2. CASE i < u
    <3>1. i = 1 /\ u = 2
      BY <1>1, <2>2
    <3> QED BY <1>1, <3>1
  <2>3. CASE i > u
    <3>1. i - u \in DOMAIN B[a].steps /\ u + (i - u) = i
      BY <1>1, <1>4, <2>3
    <3>2. q[i] = StepIn(B, a, i - u)
      BY <1>1, <3>1
    <3>3. q[i].type \in {"assistant", "tool"}
      BY <3>2, StepTypes
    <3> QED BY <3>3
  <2> QED BY <1>1, <1>4, <2>1, <2>2, <2>3
<1> QED BY <1>1, <1>2, <1>3

\* A Turn appended to whole Turns.
LEMMA WholeRecorded ==
  ASSUME NEW A, StepsIn(A), NEW S, NEW p \in Seq(S), NEW r \in Seq(S), NEW q,
         NEW u, NEW a \in Asks, IsTurn(A, a, u, q), Joined(r, p, q, Len(q)),
         WholeIn(A, p), A[a].pc = "done",
         A[a].sure => A[a].model = IF u = 2 THEN q[1].model ELSE InForce(p, Len(p))
  PROVE  WholeIn(A, r)
<1>u. u \in {1, 2}
  BY DEF IsTurn
<1>q. /\ u = 2 => q[1].type = "model"
      /\ q[u].type = "user" /\ q[u].ask = a
  BY DEF IsTurn
<1>k. \A k \in DOMAIN A[a].steps : q[u + k] = StepIn(A, a, k)
  BY DEF IsTurn
<1> DEFINE n == Len(A[a].steps)
           o == Len(p)
<1>1. /\ DOMAIN r = 1 .. Len(r) /\ o \in Nat /\ n \in Nat /\ Len(r) = o + (u + n)
      /\ DOMAIN A[a].steps = 1 .. n
      /\ \A i \in 1 .. o : r[i] = p[i]
      /\ \A i \in 1 .. u + n : r[o + i] = q[i]
  BY <1>u DEF IsTurn, Joined, StepsIn
<1> HIDE DEF n, o
<1>2. /\ r[o + u] = q[u] /\ o + u \in DOMAIN r
      /\ \A k \in 1 .. n : r[o + u + k] = StepIn(A, a, k) /\ o + u + k \in DOMAIN r
      /\ u = 2 => r[o + 1] = q[1]
  <2>1. u \in 1 .. u + n /\ 1 \in 1 .. u + n
    BY <1>u, <1>1
  <2>2. ASSUME NEW k \in 1 .. n PROVE r[o + u + k] = StepIn(A, a, k) /\ o + u + k \in DOMAIN r
    <3>1. u + k \in 1 .. u + n /\ o + (u + k) = o + u + k
      BY <1>u, <1>1
    <3>2. r[o + (u + k)] = q[u + k]
      BY <1>u, <1>1, <3>1
    <3>3. q[u + k] = StepIn(A, a, k)
      BY <1>k, <1>1
    <3>4. o + (u + k) \in 1 .. Len(r)
      BY <1>u, <1>1, <3>1
    <3> QED BY <1>u, <1>1, <3>1, <3>2, <3>3, <3>4
  <2> QED BY <1>u, <1>1, <2>1, <2>2
<1>3. ToldIn(A, r, o + u)
  BY <1>q, <1>u, <1>1, <1>2 DEF ToldIn
<1>4. A[a].sure => InForce(r, o + u) = A[a].model
  <2>1. CASE u = 2
    <3>1. /\ o + u \in 0 .. Len(r) /\ o + 1 \in 1 .. o + u /\ r[o + 1].type = "model"
          /\ r[o + 1].model = q[1].model
      BY <1>q, <1>u, <1>1, <1>2, <2>1
    <3>2. \A i \in (o + 1) + 1 .. o + u : r[i].type # "model"
      BY <1>q, <1>u, <1>1, <1>2, <2>1
    <3>3. PICK m : m = o + u
      OBVIOUS
    <3>4. PICK l : l = o + 1
      OBVIOUS
    <3>5. ModelAfter(SubSeq(r, 1, m), DefaultModel) = r[l].model
      BY <3>1, <3>2, <3>3, <3>4, ForceIs
    <3> QED BY <2>1, <3>1, <3>3, <3>4, <3>5 DEF InForce
  <2>2. CASE u = 1
    <3>1. /\ o + 1 \in 0 .. Len(r) /\ o \in 0 .. o + 1
          /\ \A i \in o + 1 .. o + 1 : r[i].type # "model"
      BY <1>q, <1>u, <1>1, <1>2, <2>2
    <3>2. PICK m : m = o + 1
      OBVIOUS
    <3>3. ModelAfter(SubSeq(r, 1, m), DefaultModel) = ModelAfter(SubSeq(r, 1, o), DefaultModel)
      BY <3>1, <3>2, ForceKeeps
    <3>4. SubSeq(r, 1, o) = SubSeq(p, 1, o)
      <4>1. o \in 0 .. Len(p) /\ o <= Len(r)
        BY <1>u, <1>1 DEF o
      <4> QED BY <1>u, <1>1, <4>1, SamePrefix
    <3> QED BY <2>2, <3>2, <3>3, <3>4, <1>q DEF InForce, o
  <2> QED BY <1>u, <2>1, <2>2
<1>5. ASSUME NEW i \in DOMAIN r
      PROVE  /\ r[i].type = "user" => ToldIn(A, r, i)
             /\ r[i].type \in {"assistant", "tool"} => BelongsIn(A, r, i)
             /\ r[i].type = "model" => i + 1 \in DOMAIN r /\ r[i + 1].type = "user"
             /\ r[i].type = "user" /\ A[r[i].ask].sure => InForce(r, i) = A[r[i].ask].model
  <2>1. CASE i \in 1 .. o
    <3>1. i \in 1 .. Len(p) /\ u + Len(A[a].steps) \in Nat
      BY <1>u, <1>1, <2>1 DEF o, n
    <3> QED BY <3>1, OldStays
  <2>2. CASE i = o + u
    BY <1>q, <1>2, <1>3, <1>4, <2>2
  <2>3. CASE i = o + 1 /\ u = 2
    <3>1. r[i].type = "model" /\ i + 1 = o + u
      BY <1>q, <1>u, <1>1, <1>2, <2>3
    <3>2. i + 1 \in DOMAIN r /\ r[i + 1].type = "user"
      BY <1>q, <1>2, <3>1
    <3> QED BY <3>1, <3>2
  <2>4. CASE i \in o + u + 1 .. Len(r)
    <3>1. PICK k \in 1 .. n : i = o + u + k
      <4>1. i - (o + u) \in 1 .. n /\ i = o + u + (i - (o + u))
        BY <1>u, <1>1, <2>4
      <4> QED BY <4>1
    <3>2. r[i].type \in {"assistant", "tool"}
      BY <1>2, <3>1, StepTypes
    <3>3. BelongsIn(A, r, i)
      <4>1. o + u \in 1 .. i - 1 /\ i - (o + u) = k
        BY <1>u, <1>1, <3>1
      <4>2. r[o + u].type = "user" /\ k \in DOMAIN A[r[o + u].ask].steps
        BY <1>q, <1>u, <1>1, <1>2, <3>1
      <4> QED BY <4>1, <4>2 DEF BelongsIn
    <3> QED BY <3>2, <3>3
  <2>5. i \in 1 .. o \/ i = o + u \/ (i = o + 1 /\ u = 2) \/ i \in o + u + 1 .. Len(r)
    BY <1>u, <1>1
  <2> QED BY <2>1, <2>2, <2>3, <2>4, <2>5
<1> QED BY <1>5 DEF WholeIn, TurnsIn, ModelsIn

\* A projection of whole Turns is of whole Turns: no compaction is in one.
LEMMA TurnsProjected ==
  ASSUME NEW A, StepsIn(A), NEW S, NEW p \in Seq(S), TurnsIn(A, p)
  PROVE  TurnsIn(A, Projected(p))
<1>1. PICK off \in 0 .. Len(p) :
        /\ Projected(p) \in Seq(S)
        /\ Len(Projected(p)) = Len(p) - off
        /\ \A i \in 1 .. Len(p) - off : Projected(p)[i] = p[off + i]
        /\ IF LastOf(p, "compaction") = 0
           THEN off = 0
           ELSE off + 1 <= Len(p) /\ p[off + 1].type = "compaction"
  BY ProjectionOf
<1>2. PICK q \in Seq(S) : q = Projected(p)
  BY <1>1
<1>3. /\ DOMAIN q = 1 .. Len(p) - off /\ DOMAIN p = 1 .. Len(p) /\ Len(p) \in Nat
      /\ off \in Nat /\ off <= Len(p)
      /\ \A i \in 1 .. Len(p) - off : q[i] = p[off + i] /\ off + i \in DOMAIN p
      /\ off = 0 \/ (off + 1 \in DOMAIN p /\ p[off + 1].type = "compaction")
  BY <1>1, <1>2
<1>4. ASSUME NEW i \in DOMAIN q
      PROVE  /\ q[i].type = "user" => ToldIn(A, q, i)
             /\ q[i].type \in {"assistant", "tool"} => BelongsIn(A, q, i)
             /\ q[i].type = "model" => i + 1 \in DOMAIN q /\ q[i + 1].type = "user"
  <2>1. off + i \in DOMAIN p /\ q[i] = p[off + i]
    BY <1>3
  <2>2. ASSUME q[i].type = "user" PROVE ToldIn(A, q, i)
    <3>1. ToldIn(A, p, off + i)
      BY <2>1, <2>2 DEF TurnsIn
    <3> DEFINE steps == A[q[i].ask].steps
    <3>2. /\ q[i].ask \in Asks /\ A[q[i].ask].pc = "done"
          /\ \A k \in DOMAIN steps :
               off + i + k \in DOMAIN p /\ p[off + i + k] = StepIn(A, q[i].ask, k)
      BY <2>1, <3>1 DEF ToldIn
    <3>3. DOMAIN steps \subseteq Nat
      BY <3>2 DEF StepsIn
    <3> HIDE DEF steps
    <3>4. ASSUME NEW k \in DOMAIN steps
          PROVE  i + k \in DOMAIN q /\ q[i + k] = StepIn(A, q[i].ask, k)
      <4>1. off + i + k \in DOMAIN p /\ k \in Nat
        BY <3>2, <3>3
      <4>2. i + k \in 1 .. Len(p) - off /\ off + (i + k) = off + i + k
        BY <1>3, <4>1
      <4>3. q[i + k] = p[off + (i + k)]
        BY <1>3, <4>2
      <4>4. p[off + i + k] = StepIn(A, q[i].ask, k)
        BY <3>2
      <4> QED BY <1>3, <4>2, <4>3, <4>4
    <3> QED BY <3>2, <3>4 DEF ToldIn, steps
  <2>3. ASSUME q[i].type \in {"assistant", "tool"} PROVE BelongsIn(A, q, i)
    <3>1. BelongsIn(A, p, off + i)
      BY <2>1, <2>3 DEF TurnsIn
    <3>2. PICK j \in 1 .. (off + i) - 1 :
            p[j].type = "user" /\ (off + i) - j \in DOMAIN A[p[j].ask].steps
      BY <3>1, Zenon DEF BelongsIn
    <3>3. j \in DOMAIN p
      BY <1>3, <2>1, <3>2
    <3>4. ToldIn(A, p, j)
      BY <3>2, <3>3 DEF TurnsIn
    <3>5. DOMAIN A[p[j].ask].steps = 1 .. Len(A[p[j].ask].steps) /\ Len(A[p[j].ask].steps) \in Nat
      BY <3>4 DEF ToldIn, StepsIn
    <3>6. off < j
      <4> SUFFICES ASSUME j <= off PROVE FALSE
        BY <1>3, <3>2
      <4>1. off + 1 \in DOMAIN p /\ p[off + 1].type = "compaction"
        BY <1>3, <3>2
      <4>2. (off + 1) - j \in DOMAIN A[p[j].ask].steps /\ j + ((off + 1) - j) = off + 1
        BY <1>3, <3>2, <3>5
      <4>3. p[off + 1] = StepIn(A, p[j].ask, (off + 1) - j)
        BY <3>4, <4>2 DEF ToldIn
      <4> QED BY <4>1, <4>3, StepTypes
    <3>7. j - off \in 1 .. i - 1 /\ j - off \in DOMAIN q /\ off + (j - off) = j
          /\ i - (j - off) = (off + i) - j
      BY <1>3, <3>2, <3>6
    <3>8. q[j - off] = p[j]
      BY <1>3, <3>7
    <3> QED BY <3>2, <3>7, <3>8 DEF BelongsIn
  <2>4. ASSUME q[i].type = "model" PROVE i + 1 \in DOMAIN q /\ q[i + 1].type = "user"
    <3>1. off + i + 1 \in DOMAIN p /\ p[off + i + 1].type = "user"
      BY <2>1, <2>4 DEF TurnsIn
    <3>2. i + 1 \in 1 .. Len(p) - off /\ off + (i + 1) = off + i + 1
      BY <1>3, <3>1
    <3> QED BY <1>3, <3>1, <3>2
  <2> QED BY <2>2, <2>3, <2>4
<1> QED BY <1>2, <1>4 DEF TurnsIn

-----------------------------------------------------------------------------
(* The Turns of a path                                                     *)

\* The steps of a Question end before the next one.
LEMMA Apart ==
  ASSUME NEW A, StepsIn(A), NEW S, NEW p \in Seq(S), TurnsIn(A, p),
         NEW i \in 1 .. Len(p), p[i].type = "user",
         NEW j \in 1 .. Len(p), p[j].type = "user", i < j
  PROVE  i + Len(A[p[i].ask].steps) < j
<1>1. ToldIn(A, p, i)
  BY DEF TurnsIn
<1>2. /\ DOMAIN A[p[i].ask].steps = 1 .. Len(A[p[i].ask].steps)
      /\ Len(A[p[i].ask].steps) \in Nat
  BY <1>1 DEF ToldIn, StepsIn
<1>3. SUFFICES ASSUME j <= i + Len(A[p[i].ask].steps) PROVE FALSE
  BY <1>2
<1>4. j - i \in DOMAIN A[p[i].ask].steps /\ i + (j - i) = j
  BY <1>2, <1>3
<1>5. p[j] = StepIn(A, p[i].ask, j - i)
  BY <1>1, <1>4 DEF ToldIn
<1> QED BY <1>5, StepTypes

\* What a path holds for the Question at i.
LEMMA ToldOf ==
  ASSUME NEW A, StepsIn(A), NEW S, NEW p \in Seq(S), TurnsIn(A, p),
         NEW i \in 1 .. Len(p), p[i].type = "user"
  PROVE  LET a == p[i].ask
             n == Len(A[a].steps)
         IN  /\ a \in Asks /\ n \in Nat /\ DOMAIN A[a].steps = 1 .. n
             /\ i + n <= Len(p)
             /\ \A k \in 1 .. n : p[i + k] = StepIn(A, a, k)
             /\ A[a].answer \in 1 .. n /\ A[a].steps[A[a].answer] = "text"
             /\ p[i + A[a].answer].type = "assistant"
             /\ p[i + A[a].answer].isAnswer
             /\ p[i + A[a].answer].text = A[a].answer
<1> DEFINE a == p[i].ask
           n == Len(A[a].steps)
           k == A[a].answer
<1>1. ToldIn(A, p, i) /\ DOMAIN p = 1 .. Len(p)
  BY DEF TurnsIn
<1>2. a \in Asks /\ A[a].pc = "done"
  BY <1>1 DEF ToldIn
<1>3. /\ n \in Nat /\ DOMAIN A[a].steps = 1 .. n
      /\ k \in 1 .. n /\ A[a].steps[k] = "text"
  BY <1>2 DEF StepsIn
<1>4. \A m \in 1 .. n : i + m \in 1 .. Len(p) /\ p[i + m] = StepIn(A, a, m)
  BY <1>1, <1>3 DEF ToldIn
<1>5. p[i + k] = StepIn(A, a, k)
  BY <1>3, <1>4
<1>6. StepIn(A, a, k).type \in {"assistant", "tool"} /\ StepIn(A, a, k).type # "tool"
  <2>1. "text" \notin Results
    BY DEF Results, Digests
  <2> QED BY <1>3, <2>1, StepTypes
<1>7. p[i + k].type = "assistant" /\ p[i + k].isAnswer /\ p[i + k].text = k
  BY <1>5, <1>6, StepTypes
<1>8. i + n <= Len(p)
  BY <1>3, <1>4
<1> QED BY <1>2, <1>3, <1>4, <1>7, <1>8

\* A step belongs to the last Question before it.
LEMMA Owner ==
  ASSUME NEW A, StepsIn(A), NEW S, NEW p \in Seq(S), TurnsIn(A, p),
         NEW j \in 1 .. Len(p), p[j].type \in {"assistant", "tool"}
  PROVE  \E i \in 1 .. j - 1 :
           /\ p[i].type = "user" /\ j - i \in 1 .. Len(A[p[i].ask].steps)
           /\ p[j] = StepIn(A, p[i].ask, j - i)
           /\ \A m \in i + 1 .. j : p[m].type # "user"
<1>1. BelongsIn(A, p, j)
  BY DEF TurnsIn
<1>2. PICK i \in 1 .. j - 1 : p[i].type = "user" /\ j - i \in DOMAIN A[p[i].ask].steps
  BY <1>1 DEF BelongsIn
<1>3. i \in 1 .. Len(p) /\ i \in Nat /\ j \in Nat /\ i < j
  BY <1>2
<1>4. /\ DOMAIN A[p[i].ask].steps = 1 .. Len(A[p[i].ask].steps)
      /\ Len(A[p[i].ask].steps) \in Nat
      /\ \A k \in 1 .. Len(A[p[i].ask].steps) : p[i + k] = StepIn(A, p[i].ask, k)
  BY <1>2, <1>3, ToldOf
<1>5. ASSUME NEW m \in i + 1 .. j, p[m].type = "user" PROVE FALSE
  <2>1. m \in 1 .. Len(p) /\ i < m
    BY <1>3
  <2>2. i + Len(A[p[i].ask].steps) < m
    BY <1>2, <1>3, <1>5, <2>1, Apart
  <2> QED BY <1>2, <1>3, <1>4, <2>2
<1>6. i + (j - i) = j
  BY <1>3
<1>7. p[j] = StepIn(A, p[i].ask, j - i)
  BY <1>2, <1>4, <1>6
<1> QED BY <1>2, <1>4, <1>5, <1>7

\* OneAnswer, of a path.
OneAnswerIn(p) ==
  LET marked == {i \in DOMAIN p : p[i].type = "assistant" /\ p[i].isAnswer}
      asked == {i \in DOMAIN p : p[i].type = "user"}
  IN  /\ Cardinality(marked) = Cardinality(asked)
      /\ \A i \in asked : \E j \in marked : i < j /\ ~\E k \in asked : i < k /\ k < j

LEMMA WholeHasOneAnswer ==
  ASSUME NEW A, StepsIn(A), NEW S, NEW p \in Seq(S), TurnsIn(A, p)
  PROVE  OneAnswerIn(p)
<1> DEFINE marked == {i \in DOMAIN p : p[i].type = "assistant" /\ p[i].isAnswer}
           asked == {i \in DOMAIN p : p[i].type = "user"}
           at(i) == i + A[p[i].ask].answer
           f == [i \in asked |-> at(i)]
<1>0. DOMAIN p = 1 .. Len(p) /\ Len(p) \in Nat
  OBVIOUS
<1>1. ASSUME NEW i \in asked
      PROVE  /\ at(i) \in marked /\ at(i) \in i + 1 .. i + Len(A[p[i].ask].steps)
             /\ i \in 1 .. Len(p) /\ Len(A[p[i].ask].steps) \in Nat
  <2>1. i \in 1 .. Len(p) /\ p[i].type = "user"
    BY <1>0
  <2>2. LET a == p[i].ask
            n == Len(A[a].steps)
        IN  /\ n \in Nat /\ i + n <= Len(p) /\ A[a].answer \in 1 .. n
            /\ p[i + A[a].answer].type = "assistant" /\ p[i + A[a].answer].isAnswer
    BY <2>1, ToldOf, SMTT(20)
  <2> QED BY <1>0, <2>1, <2>2
<1>2. ASSUME NEW i \in asked, NEW j \in asked, i < j PROVE at(i) < j
  <2>1. i \in 1 .. Len(p) /\ j \in 1 .. Len(p) /\ p[i].type = "user" /\ p[j].type = "user"
    BY <1>0
  <2>2. i + Len(A[p[i].ask].steps) < j
    BY <1>2, <2>1, Apart
  <2> QED BY <1>1, <2>1, <2>2
<1>3. ASSUME NEW j \in marked PROVE \E i \in asked : at(i) = j
  <2>1. j \in 1 .. Len(p) /\ p[j].type = "assistant" /\ p[j].isAnswer
    BY <1>0
  <2>2. PICK i \in 1 .. j - 1 :
          /\ p[i].type = "user" /\ j - i \in 1 .. Len(A[p[i].ask].steps)
          /\ p[j] = StepIn(A, p[i].ask, j - i)
          /\ \A m \in i + 1 .. j : p[m].type # "user"
    <3> HIDE DEF marked, asked, f, at
    <3> QED BY <2>1, Owner
  <2>3. i \in asked
    BY <1>0, <2>1, <2>2
  <2>4. j - i = A[p[i].ask].answer
    BY <2>1, <2>2, StepTypes
  <2>5. at(i) = j
    BY <2>1, <2>2, <2>4
  <2> QED BY <2>3, <2>5
<1>4. f \in Bijection(asked, marked)
  <2>1. \A i \in asked : f[i] = at(i)
    OBVIOUS
  <2>2. f \in [asked -> marked]
    BY <1>1
  <2>3. ASSUME NEW i \in asked, NEW j \in asked, f[i] = f[j] PROVE i = j
    <3>1. at(i) = at(j)
      BY <2>1, <2>3
    <3>2. at(i) > i /\ at(j) > j /\ i \in Nat /\ j \in Nat /\ at(i) \in Nat /\ at(j) \in Nat
      BY <1>1
    <3>3. ~(i < j) /\ ~(j < i)
      BY <1>2, <3>1, <3>2
    <3> QED BY <3>2, <3>3
  <2>4. \A t \in marked : \E s \in asked : f[s] = t
    BY <1>3, <2>1
  <2> HIDE DEF f, asked, marked, at
  <2> QED BY <2>2, <2>3, <2>4 DEF Bijection, Injection, Surjection, IsInjective
<1>5. Cardinality(marked) = Cardinality(asked)
  <2>1. IsFiniteSet(asked)
    <3>1. IsFiniteSet(1 .. Len(p))
      BY <1>0, FS_Interval
    <3>2. asked \in SUBSET (1 .. Len(p))
      BY <1>0
    <3> HIDE DEF asked
    <3> QED BY <3>1, <3>2, FS_Subset
  <2>2. ExistsBijection(asked, marked)
    BY <1>4 DEF ExistsBijection
  <2> HIDE DEF asked, marked
  <2> QED BY <2>1, <2>2, FS_Bijection
<1>6. ASSUME NEW i \in asked
      PROVE  \E j \in marked : i < j /\ ~\E k \in asked : i < k /\ k < j
  <2>1. at(i) \in marked /\ i < at(i)
    BY <1>1
  <2>2. ASSUME NEW k \in asked, i < k, k < at(i) PROVE FALSE
    <3>1. at(i) < k
      BY <1>2, <2>2
    <3>2. at(i) \in Nat /\ k \in Nat
      BY <1>0, <1>1
    <3> QED BY <2>2, <3>1, <3>2
  <2> QED BY <2>1, <2>2
<1> HIDE DEF asked, marked
<1> QED BY <1>5, <1>6 DEF OneAnswerIn, asked, marked

LEMMA Least ==
  ASSUME NEW S \in SUBSET Nat, S # {}
  PROVE  Min(S) \in S /\ \A x \in S : Min(S) <= x
<1>1. \E x \in S : \A y \in S : x <= y
  BY Smallest
<1> QED BY <1>1 DEF Min

\* The Answer of a Turn is the reply that was marked.
LEMMA AnswerFound ==
  ASSUME NEW A, StepsIn(A), NEW S, NEW p \in Seq(S), TurnsIn(A, p),
         NEW i \in 1 .. Len(p), p[i].type = "user"
  PROVE  LET later == {j \in (i + 1) .. Len(p) : p[j].type = "user"}
             to == IF later = {} THEN Len(p) ELSE Min(later) - 1
         IN  AnswerEntry(p, i + 1, to) = i + A[p[i].ask].answer
<1> DEFINE a == p[i].ask
           n == Len(A[a].steps)
           k == A[a].answer
           later == {j \in (i + 1) .. Len(p) : p[j].type = "user"}
           to == IF later = {} THEN Len(p) ELSE Min(later) - 1
           said == {j \in i + 1 .. to : p[j].type = "assistant"}
           marked == {j \in said : p[j].isAnswer}
<1>1. /\ a \in Asks /\ n \in Nat /\ i + n <= Len(p)
      /\ k \in 1 .. n /\ p[i + k].type = "assistant" /\ p[i + k].isAnswer
  BY ToldOf
<1>2. /\ to \in Nat /\ to <= Len(p) /\ i + n <= to
      /\ \A j \in i + 1 .. to : p[j].type # "user"
  <2>1. CASE later = {}
    <3>1. to = Len(p)
      BY <2>1
    <3>2. \A j \in i + 1 .. Len(p) : p[j].type # "user"
      BY <2>1
    <3> HIDE DEF to
    <3> QED BY <1>1, <3>1, <3>2
  <2>2. CASE later # {}
    <3>1. Min(later) \in later /\ \A x \in later : Min(later) <= x
      <4>1. later \in SUBSET Nat
        OBVIOUS
      <4> HIDE DEF later
      <4> QED BY <2>2, <4>1, Least
    <3>2. PICK m : m = Min(later)
      OBVIOUS
    <3>3. m \in i + 1 .. Len(p) /\ p[m].type = "user" /\ to = m - 1 /\ \A x \in later : m <= x
      BY <2>2, <3>1, <3>2
    <3>4. i + n < m
      <4>1. m \in 1 .. Len(p) /\ i < m
        BY <3>3
      <4> HIDE DEF later, to
      <4> QED BY <3>3, <4>1, Apart
    <3>5. ASSUME NEW j \in i + 1 .. m - 1 PROVE p[j].type # "user"
      <4>1. j \notin later /\ j \in i + 1 .. Len(p)
        BY <3>3
      <4> QED BY <4>1
    <3> HIDE DEF to, later, n
    <3> QED BY <1>1, <3>3, <3>4, <3>5
  <2> QED BY <2>1, <2>2
<1> HIDE DEF to, later
<1>3. ASSUME NEW j \in marked PROVE j = i + k
  <2>1. j \in i + 1 .. to /\ p[j].type = "assistant" /\ p[j].isAnswer /\ j \in 1 .. Len(p)
    BY <1>2
  <2>2. PICK h \in 1 .. j - 1 :
          /\ p[h].type = "user" /\ j - h \in 1 .. Len(A[p[h].ask].steps)
          /\ p[j] = StepIn(A, p[h].ask, j - h)
          /\ \A m \in h + 1 .. j : p[m].type # "user"
    BY <2>1, Owner
  <2>3. h = i
    <3>1. i \notin h + 1 .. j /\ h \notin i + 1 .. to
      BY <1>2, <2>2
    <3> QED BY <1>2, <2>1, <2>2, <3>1
  <2>4. j - i = k
    BY <2>1, <2>2, <2>3, StepTypes
  <2> QED BY <2>1, <2>4
<1>4. i + k \in marked
  <2>1. i + k \in i + 1 .. to
    <3> HIDE DEF k, n
    <3> QED BY <1>1, <1>2
  <2> QED BY <1>1, <2>1
<1>5. marked = {i + k} /\ marked # {}
  <2> HIDE DEF marked
  <2> QED BY <1>3, <1>4
<1>6. Max({i + k}) = i + k
  BY <1>1 DEF Max
<1>7. AnswerEntry(p, i + 1, to) = i + k
  <2>1. AnswerEntry(p, i + 1, to) = Max(IF marked = {} THEN said ELSE marked)
    BY DEF AnswerEntry
  <2> HIDE DEF marked, said
  <2> QED BY <1>5, <1>6, <2>1
<1> QED BY <1>7 DEF to, later

\* What a Turn's tools were is the same, whatever else its steps are taken for.
LEMMA SameSteps ==
  ASSUME NEW S, NEW x \in Seq(S), NEW T, NEW y \in Seq(T), Len(x) = Len(y),
         \A k \in 1 .. Len(x) : x[k] \in Results \/ y[k] \in Results => x[k] = y[k]
  PROVE  Called(x) = Called(y) /\ DigestSource(x) = DigestSource(y)
<1> DEFINE Of(z, kinds) == {i \in 1 .. Len(z) : z[i] \in kinds}
           Latest(z, kinds) == IF Of(z, kinds) # {} THEN Max(Of(z, kinds)) ELSE 0
<1>0. /\ Digests \subseteq Results /\ {"entries"} \subseteq Results
      /\ DOMAIN x = 1 .. Len(x) /\ DOMAIN y = 1 .. Len(y) /\ Len(x) \in Nat
  BY DEF Results
<1>1. Called(x) = Called(y)
  BY <1>0 DEF Called
<1>2. Of(x, Digests) = Of(y, Digests) /\ Of(x, {"entries"}) = Of(y, {"entries"})
  BY <1>0
<1>3. \A z : DigestSource(z) = IF Latest(z, Digests) > Latest(z, {"entries"})
                               THEN z[Latest(z, Digests)] ELSE "none"
  BY DEF DigestSource, SelectLastInSeq
<1>4. Latest(x, Digests) = Latest(y, Digests) /\ Latest(x, {"entries"}) = Latest(y, {"entries"})
  <2> HIDE DEF Of
  <2> QED BY <1>2
<1>5. ASSUME Latest(x, Digests) > Latest(x, {"entries"})
      PROVE  x[Latest(x, Digests)] = y[Latest(x, Digests)]
  <2>1. Of(x, {"entries"}) \in SUBSET (1 .. Len(x)) /\ Of(x, Digests) \in SUBSET (1 .. Len(x))
    OBVIOUS
  <2>2. Latest(x, {"entries"}) \in Nat
    <3>1. CASE Of(x, {"entries"}) = {}
      BY <3>1
    <3>2. CASE Of(x, {"entries"}) # {}
      <4> HIDE DEF Of
      <4>1. Max(Of(x, {"entries"})) \in Of(x, {"entries"})
        BY <1>0, <2>1, <3>2, Largest
      <4> QED BY <2>1, <3>2, <4>1
    <3> QED BY <3>1, <3>2
  <2>3. Of(x, Digests) # {}
    <3> SUFFICES ASSUME Of(x, Digests) = {} PROVE FALSE
      OBVIOUS
    <3>1. Latest(x, Digests) = 0
      BY Zenon
    <3> HIDE DEF Latest
    <3> QED BY <1>5, <2>2, <3>1
  <2>4. Latest(x, Digests) \in Of(x, Digests)
    <3>1. Latest(x, Digests) = Max(Of(x, Digests))
      BY <2>3
    <3> HIDE DEF Of, Latest
    <3>2. Max(Of(x, Digests)) \in Of(x, Digests)
      BY <1>0, <2>1, <2>3, Largest
    <3> QED BY <3>1, <3>2
  <2> HIDE DEF Latest
  <2> QED BY <1>0, <2>4
<1>6. DigestSource(x) = DigestSource(y)
  <2> HIDE DEF Latest
  <2> QED BY <1>3, <1>4, <1>5
<1> QED BY <1>1, <1>6

\* Response, of any asks A.
ResponseIn(A, a) ==
  LET steps == SubSeq(A[a].steps, 1, A[a].answer)
  IN  [ask |-> a, answer |-> A[a].answer, toolCalled |-> Called(steps),
       source |-> DigestSource(steps), model |-> A[a].model]

\* A Turn is read back as it was answered, but for its model.
LEMMA TurnRead ==
  ASSUME NEW A, StepsIn(A), NEW S, NEW p \in Seq(S), TurnsIn(A, p),
         NEW i \in 1 .. Len(p), p[i].type = "user", NEW seed
  PROVE  TurnAt(p, i, seed) =
           [ResponseIn(A, p[i].ask) EXCEPT
              !.model = ModelAfter(SubSeq(p, 1, i + A[p[i].ask].answer), seed)]
<1> DEFINE a == p[i].ask
           k == A[a].answer
           n == Len(A[a].steps)
           later == {j \in (i + 1) .. Len(p) : p[j].type = "user"}
           to == IF later = {} THEN Len(p) ELSE Min(later) - 1
           answer == AnswerEntry(p, i + 1, to)
           steps == [m \in 1 .. answer - i |-> IF p[i + m].type = "tool" THEN p[i + m].result
                                               ELSE "reply"]
           sub == SubSeq(A[a].steps, 1, k)
<1>1. /\ a \in Asks /\ n \in Nat /\ DOMAIN A[a].steps = 1 .. n
      /\ \A m \in 1 .. n : p[i + m] = StepIn(A, a, m)
      /\ k \in 1 .. n /\ p[i + k].text = k
  BY ToldOf
<1>2. answer = i + k
  BY AnswerFound
<1>3. TurnAt(p, i, seed) =
        [ask |-> a, answer |-> p[answer].text, toolCalled |-> Called(steps),
         source |-> DigestSource(steps), model |-> ModelAfter(SubSeq(p, 1, answer), seed)]
  BY DEF TurnAt
<1>4. A[a].steps \in Seq(Replies \cup Results)
  BY <1>1 DEF StepsIn
<1>5. /\ sub \in Seq(Replies \cup Results) /\ Len(sub) = k
      /\ \A m \in 1 .. k : sub[m] = A[a].steps[m]
  BY <1>1, <1>4, SMTT(20)
<1>6. /\ DOMAIN steps = 1 .. k
      /\ \A m \in 1 .. k : steps[m] = IF p[i + m].type = "tool" THEN p[i + m].result ELSE "reply"
  <2>1. answer - i = k
    <3> HIDE DEF answer, k
    <3>1. i \in Nat /\ k \in Nat
      BY <1>1
    <3> QED BY <1>2, <3>1
  <2> HIDE DEF answer
  <2> QED BY <2>1
<1> HIDE DEF steps, sub, answer
<1>7. ASSUME NEW m \in 1 .. k
      PROVE  /\ steps[m] \in Results \/ sub[m] \in Results => steps[m] = sub[m]
             /\ steps[m] = sub[m] \/ steps[m] = "reply"
  <2>1. p[i + m] = StepIn(A, a, m) /\ sub[m] = A[a].steps[m]
    BY <1>1, <1>5
  <2>2. "reply" \notin Results
    BY DEF Results, Digests
  <2>3. CASE A[a].steps[m] \in Results
    <3>1. p[i + m].type = "tool" /\ p[i + m].result = A[a].steps[m]
      BY <2>1, <2>3, StepTypes
    <3> QED BY <1>6, <2>1, <3>1
  <2>4. CASE A[a].steps[m] \notin Results
    <3>1. p[i + m].type # "tool"
      BY <2>1, <2>4, StepTypes
    <3> QED BY <1>6, <2>1, <2>2, <2>4, <3>1
  <2> QED BY <2>3, <2>4
<1>8. steps \in Seq(Replies \cup Results \cup {"reply"}) /\ Len(steps) = k
  <2>1. \A m \in 1 .. k : steps[m] \in Replies \cup Results \cup {"reply"}
    BY <1>5, <1>7
  <2>2. k \in Nat /\ steps = [m \in 1 .. k |-> steps[m]]
    BY <1>1, <1>6 DEF steps
  <2> HIDE DEF k
  <2> QED BY <2>1, <2>2
<1>9. Called(steps) = Called(sub) /\ DigestSource(steps) = DigestSource(sub)
  BY <1>5, <1>7, <1>8, SameSteps
<1>10. ResponseIn(A, a) = [ask |-> a, answer |-> k, toolCalled |-> Called(sub),
                           source |-> DigestSource(sub), model |-> A[a].model]
  BY DEF ResponseIn, sub
<1>11. p[answer].text = k
  BY <1>1, <1>2
<1> QED BY <1>2, <1>3, <1>9, <1>10, <1>11
-----------------------------------------------------------------------------
(* All Turns of a path                                                     *)

\* What TurnsOf says of one entry, given the Turns of the entries before it.
TurnStep(p, seed, turns, i) ==
  IF i = 0 THEN <<>>
  ELSE IF p[i].type = "user" THEN Append(turns[i - 1], TurnAt(p, i, seed))
  ELSE turns[i - 1]

LEMMA TurnsExist ==
  ASSUME NEW S, NEW p \in Seq(S), NEW seed
  PROVE  \E turns : turns = [i \in 0 .. Len(p) |-> TurnStep(p, seed, turns, i)]
<1> DEFINE U == {i \in 1 .. Len(p) : p[i].type = "user"}
           Upto(n) == {i \in U : i <= n}
           last(n) == IF Upto(n) = {} THEN 0 ELSE Max(Upto(n))
           es == [i \in U |-> [parent |-> last(i - 1), payload |-> TurnAt(p, i, seed)]]
           turns == [i \in 0 .. Len(p) |-> PathOf(es, last(i))]
<1>0. Len(p) \in Nat /\ U \subseteq 1 .. Len(p)
  OBVIOUS
<1>1. ASSUME NEW n \in 0 .. Len(p)
      PROVE  /\ last(n) \in 0 .. n /\ last(n) \in {0} \cup U
             /\ \A i \in U : i <= n => i <= last(n) /\ last(n) # 0
  <2>1. CASE Upto(n) = {}
    <3>1. last(n) = 0
      BY <2>1
    <3>2. \A i \in U : ~(i <= n)
      BY <2>1
    <3> HIDE DEF last
    <3> QED BY <3>1, <3>2
  <2>2. CASE Upto(n) # {}
    <3>1. last(n) = Max(Upto(n))
      BY <2>2
    <3>2. Upto(n) \in SUBSET (1 .. Len(p))
      BY <1>0
    <3>3. Max(Upto(n)) \in Upto(n) /\ \A i \in Upto(n) : i <= Max(Upto(n))
      <4> HIDE DEF Upto
      <4> QED BY <1>0, <2>2, <3>2, Largest
    <3>4. PICK m : m = Max(Upto(n))
      OBVIOUS
    <3>5. m \in U /\ m <= n /\ m \in 1 .. Len(p) /\ \A i \in U : i <= n => i <= m
      BY <3>2, <3>3, <3>4
    <3>6. last(n) = m
      BY <3>1, <3>4
    <3> HIDE DEF last, U
    <3> QED BY <3>5, <3>6
  <2> QED BY <2>1, <2>2
<1> HIDE DEF last
<1>2. Tree(es)
  <2>1. DOMAIN es = U
    OBVIOUS
  <2>2. ASSUME NEW i \in U PROVE es[i].parent \in {0} \cup U /\ es[i].parent < i
    <3>1. i - 1 \in 0 .. Len(p) /\ i \in Nat
      BY <1>0
    <3>2. es[i].parent = last(i - 1)
      OBVIOUS
    <3> HIDE DEF es, U
    <3> QED BY <1>1, <3>1, <3>2
  <2>3. U \subseteq Nat \ {0}
    OBVIOUS
  <2> HIDE DEF es, U
  <2> QED BY <2>1, <2>2, <2>3 DEF Tree
<1>3. ASSUME NEW i \in 0 .. Len(p) PROVE turns[i] = TurnStep(p, seed, turns, i)
  <2>0. turns[i] = PathOf(es, last(i))
    OBVIOUS
  <2>1. CASE i = 0
    <3>1. last(0) = 0
      BY <1>1, <2>1
    <3>2. turns[i] = <<>>
      <4> HIDE DEF es, turns
      <4> QED BY <1>2, <2>0, <2>1, <3>1, PathEquations
    <3> QED BY <2>1, <3>2 DEF TurnStep
  <2>2. CASE i # 0
    <3>1. i - 1 \in 0 .. Len(p) /\ i \in 1 .. Len(p)
      BY <1>0, <2>2
    <3>2. turns[i - 1] = PathOf(es, last(i - 1))
      BY <3>1
    <3>3. CASE p[i].type = "user"
      <4>1. i \in U
        BY <3>1, <3>3
      <4>2. last(i) = i
        <5>1. i <= i /\ last(i) \in 0 .. i /\ i <= last(i)
          BY <1>1, <4>1
        <5> QED BY <5>1
      <4>3. es[i].parent = last(i - 1) /\ es[i].payload = TurnAt(p, i, seed) /\ i \in DOMAIN es
        BY <4>1
      <4>4. PathOf(es, i) = Append(PathOf(es, es[i].parent), es[i].payload)
        <5> HIDE DEF es
        <5> QED BY <1>2, <4>3, PathEquations
      <4> HIDE DEF es, turns
      <4> QED BY <2>0, <2>2, <3>2, <3>3, <4>2, <4>3, <4>4 DEF TurnStep
    <3>4. CASE p[i].type # "user"
      <4>1. i \notin U
        BY <3>4
      <4>2. last(i) = last(i - 1)
        <5> DEFINE x == last(i)
                   y == last(i - 1)
        <5>1. /\ x \in 0 .. i /\ x \in {0} \cup U /\ \A j \in U : j <= i => j <= x /\ x # 0
              /\ y \in 0 .. i - 1 /\ y \in {0} \cup U
              /\ \A j \in U : j <= i - 1 => j <= y /\ y # 0
          <6> HIDE DEF U
          <6> QED BY <1>1, <3>1
        <5> HIDE DEF x, y
        <5>2. x # i \/ x = 0
          BY <4>1, <5>1
        <5>3. x <= y
          <6>1. CASE x = 0
            BY <5>1, <6>1
          <6>2. CASE x # 0
            <7>1. x \in U /\ x <= i - 1
              <8> HIDE DEF U
              <8> QED BY <5>1, <5>2, <6>2
            <7> HIDE DEF U
            <7> QED BY <5>1, <7>1
          <6> QED BY <6>1, <6>2
        <5>4. y <= x
          <6>1. CASE y = 0
            BY <5>1, <6>1
          <6>2. CASE y # 0
            <7>1. y \in U /\ y <= i
              <8> HIDE DEF U
              <8> QED BY <5>1, <6>2
            <7> HIDE DEF U
            <7> QED BY <5>1, <7>1
          <6> QED BY <6>1, <6>2
        <5>5. x = y
          BY <5>1, <5>3, <5>4
        <5> QED BY <5>5 DEF x, y
      <4> HIDE DEF es, turns
      <4> QED BY <2>0, <2>2, <3>2, <3>4, <4>2 DEF TurnStep
    <3> QED BY <3>3, <3>4
  <2> QED BY <2>1, <2>2
<1>4. turns = [i \in 0 .. Len(p) |-> turns[i]]
  OBVIOUS
<1>5. turns = [i \in 0 .. Len(p) |-> TurnStep(p, seed, turns, i)]
  <2> HIDE DEF turns
  <2> QED BY <1>3, <1>4
<1> HIDE DEF turns
<1> QED BY <1>5

\* The Turns of a path are those of its Questions, the last one last.
TurnsUpTo(p, seed, turns, n) ==
  /\ turns \in Seq({TurnAt(p, i, seed) : i \in 1 .. Len(p)})
  /\ \A k \in DOMAIN turns :
       \E i \in 1 .. n : p[i].type = "user" /\ turns[k] = TurnAt(p, i, seed)
  /\ \A i \in 1 .. n : p[i].type = "user" => \E k \in DOMAIN turns : turns[k] = TurnAt(p, i, seed)
  /\ turns # <<>> => \E i \in 1 .. n : /\ p[i].type = "user"
                                       /\ turns[Len(turns)] = TurnAt(p, i, seed)
                                       /\ \A j \in i + 1 .. n : p[j].type # "user"

LEMMA TurnsNext ==
  ASSUME NEW S, NEW p \in Seq(S), NEW seed, NEW n \in Nat, n + 1 <= Len(p), NEW turns,
         TurnsUpTo(p, seed, turns, n)
  PROVE  IF p[n + 1].type = "user"
         THEN TurnsUpTo(p, seed, Append(turns, TurnAt(p, n + 1, seed)), n + 1)
         ELSE TurnsUpTo(p, seed, turns, n + 1)
<1> DEFINE X == {TurnAt(p, i, seed) : i \in 1 .. Len(p)}
           T(i) == TurnAt(p, i, seed)
<1>0. turns \in Seq(X) /\ DOMAIN turns = 1 .. Len(turns) /\ Len(turns) \in Nat
  BY DEF TurnsUpTo
<1>1. ASSUME p[n + 1].type # "user" PROVE TurnsUpTo(p, seed, turns, n + 1)
  <2>1. 1 .. n \subseteq 1 .. n + 1 /\ \A i \in 1 .. n + 1 : i \in 1 .. n \/ i = n + 1
    OBVIOUS
  <2>2. \A k \in DOMAIN turns :
          \E i \in 1 .. n + 1 : p[i].type = "user" /\ turns[k] = T(i)
    BY <2>1 DEF TurnsUpTo
  <2>3. \A i \in 1 .. n + 1 : p[i].type = "user" => \E k \in DOMAIN turns : turns[k] = T(i)
    BY <1>1, <2>1 DEF TurnsUpTo
  <2>4. ASSUME turns # <<>>
        PROVE  \E i \in 1 .. n + 1 : /\ p[i].type = "user" /\ turns[Len(turns)] = T(i)
                                     /\ \A j \in i + 1 .. n + 1 : p[j].type # "user"
    <3>1. PICK i \in 1 .. n : /\ p[i].type = "user" /\ turns[Len(turns)] = T(i)
                              /\ \A j \in i + 1 .. n : p[j].type # "user"
      BY <2>4 DEF TurnsUpTo
    <3>2. \A j \in i + 1 .. n + 1 : j \in i + 1 .. n \/ j = n + 1
      OBVIOUS
    <3>3. \A j \in i + 1 .. n + 1 : p[j].type # "user"
      BY <1>1, <3>1, <3>2
    <3> QED BY <2>1, <3>1, <3>3
  <2> QED BY <1>0, <2>2, <2>3, <2>4 DEF TurnsUpTo
<1>2. ASSUME p[n + 1].type = "user" PROVE TurnsUpTo(p, seed, Append(turns, T(n + 1)), n + 1)
  <2> DEFINE next == Append(turns, T(n + 1))
             m == Len(turns)
  <2>1. 1 .. n \subseteq 1 .. n + 1 /\ \A i \in 1 .. n + 1 : i \in 1 .. n \/ i = n + 1
    OBVIOUS
  <2>2. T(n + 1) \in X
    <3>1. n + 1 \in 1 .. Len(p)
      OBVIOUS
    <3> QED BY <3>1
  <2> HIDE DEF T, X
  <2>3. /\ next \in Seq(X) /\ Len(next) = m + 1 /\ DOMAIN next = 1 .. m + 1
        /\ \A k \in 1 .. m : next[k] = turns[k]
        /\ next[m + 1] = T(n + 1) /\ next # <<>> /\ m \in Nat
    BY <1>0, <2>2
  <2> HIDE DEF next, m
  <2>4. ASSUME NEW k \in DOMAIN next
        PROVE  \E i \in 1 .. n + 1 : p[i].type = "user" /\ next[k] = T(i)
    <3>1. CASE k = m + 1
      BY <1>2, <2>3, <3>1
    <3>2. CASE k # m + 1
      <4>1. k \in 1 .. m
        BY <2>3, <3>2
      <4>2. k \in DOMAIN turns
        BY <1>0, <4>1 DEF m
      <4>3. PICK i \in 1 .. n : p[i].type = "user" /\ turns[k] = T(i)
        BY <4>2 DEF TurnsUpTo, T
      <4> QED BY <2>1, <2>3, <4>1, <4>3
    <3> QED BY <3>1, <3>2
  <2>5. ASSUME NEW i \in 1 .. n + 1, p[i].type = "user"
        PROVE  \E k \in DOMAIN next : next[k] = T(i)
    <3>1. CASE i = n + 1
      <4>1. m + 1 \in DOMAIN next
        BY <2>3
      <4> QED BY <2>3, <3>1, <4>1
    <3>2. CASE i \in 1 .. n
      <4>1. PICK k \in DOMAIN turns : turns[k] = T(i)
        BY <2>5, <3>2 DEF TurnsUpTo, T
      <4>2. k \in 1 .. m
        BY <1>0 DEF m
      <4>3. k \in DOMAIN next /\ next[k] = turns[k]
        BY <2>3, <4>2
      <4> QED BY <4>1, <4>3
    <3> QED BY <2>1, <3>1, <3>2
  <2>6. \E i \in 1 .. n + 1 : /\ p[i].type = "user" /\ next[Len(next)] = T(i)
                              /\ \A j \in i + 1 .. n + 1 : p[j].type # "user"
    <3>1. n + 1 \in 1 .. n + 1 /\ \A j \in (n + 1) + 1 .. n + 1 : FALSE
      OBVIOUS
    <3>2. next[Len(next)] = T(n + 1)
      BY <2>3
    <3> QED BY <1>2, <3>1, <3>2
  <2> QED BY <2>3, <2>4, <2>5, <2>6 DEF TurnsUpTo, next, T, X
<1> QED BY <1>1, <1>2

LEMMA TurnsRead ==
  ASSUME NEW S, NEW p \in Seq(S), NEW seed
  PROVE  TurnsUpTo(p, seed, TurnsOf(p, seed), Len(p))
<1> DEFINE turns == CHOOSE turns : turns = [i \in 0 .. Len(p) |-> TurnStep(p, seed, turns, i)]
<1>1. turns = [i \in 0 .. Len(p) |-> TurnStep(p, seed, turns, i)]
  BY TurnsExist
<1>2. TurnsOf(p, seed) = turns[Len(p)]
  BY DEF TurnsOf, TurnStep
<1> HIDE DEF turns
<1> DEFINE Z == {n \in Nat : n <= Len(p) => TurnsUpTo(p, seed, turns[n], n)}
<1>3. 0 \in Z
  <2>1. turns[0] = <<>>
    BY <1>1 DEF TurnStep
  <2>2. TurnsUpTo(p, seed, <<>>, 0)
    BY DEF TurnsUpTo
  <2> QED BY <2>1, <2>2
<1>4. ASSUME NEW n \in Nat, n \in Z PROVE n + 1 \in Z
  <2>1. CASE ~(n + 1 <= Len(p))
    BY <2>1
  <2>2. CASE n + 1 <= Len(p)
    <3>1. TurnsUpTo(p, seed, turns[n], n)
      BY <1>4, <2>2
    <3>2. turns[n + 1] = IF p[n + 1].type = "user"
                         THEN Append(turns[n], TurnAt(p, n + 1, seed)) ELSE turns[n]
      <4>1. n + 1 \in 0 .. Len(p) /\ n + 1 # 0 /\ (n + 1) - 1 = n
        BY <2>2
      <4>2. turns[n + 1] = TurnStep(p, seed, turns, n + 1)
        BY <1>1, <4>1
      <4> QED BY <4>1, <4>2 DEF TurnStep
    <3>3. TurnsUpTo(p, seed, turns[n + 1], n + 1)
      BY <2>2, <3>1, <3>2, TurnsNext
    <3> QED BY <3>3
  <2> QED BY <2>1, <2>2
<1>5. Nat \subseteq Z
  <2> HIDE DEF Z
  <2> QED BY <1>3, <1>4, Induction
<1>6. Len(p) \in Z
  BY <1>5
<1> QED BY <1>2, <1>6

-----------------------------------------------------------------------------
(* The tree                                                                *)

\* What an append leaves behind, whichever request makes it.
LEMMA AppendWhole ==
  ASSUME TypeOK, TreeWhole,
         NEW parent, NEW payloads, Len(payloads) \in Nat \ {0},
         AppendChain(parent, payloads)
  PROVE  /\ TreeWhole'
         /\ exists' \in BOOLEAN
         /\ nextId' \in Nat \ {0}
         /\ DOMAIN entries' \subseteq 1 .. nextId' - 1
         /\ leaf' \in {0} \cup DOMAIN entries'
<1> DEFINE n == Len(payloads)
           new == nextId .. nextId + n - 1
<1>1. /\ nextId \in Nat \ {0} /\ n \in Nat \ {0}
      /\ DOMAIN entries \subseteq 1 .. nextId - 1
      /\ exists /\ exists' = exists
      /\ parent \in {0} \cup DOMAIN entries
      /\ entries' = Chained(parent, payloads)
      /\ leaf' = nextId + n - 1 /\ nextId' = nextId + n
  BY DEF TypeOK, AppendChain
<1>2. DOMAIN entries' = DOMAIN entries \cup new
  BY <1>1 DEF Chained
<1>3. ASSUME NEW id \in DOMAIN entries'
      PROVE  entries'[id].parent \in 0 .. id - 1 /\ entries'[id].parent \in {0} \cup DOMAIN entries'
  <2>1. CASE id \in new
    <3>1. id \in Nat \ {0} /\ ~(id < nextId)
      BY <1>1, <2>1
    <3>2. entries'[id].parent = IF id = nextId THEN parent ELSE id - 1
      BY <1>1, <1>2, <3>1 DEF Chained
    <3>3. CASE id = nextId
      <4>1. parent \in 0 .. id - 1
        BY <1>1, <3>3
      <4> QED BY <1>1, <1>2, <3>2, <3>3, <4>1
    <3>4. CASE id # nextId
      <4>1. id - 1 \in new
        BY <1>1, <2>1, <3>4
      <4> QED BY <1>2, <3>1, <3>2, <3>4, <4>1
    <3> QED BY <3>3, <3>4
  <2>2. CASE id \notin new
    <3>1. id \in DOMAIN entries /\ id < nextId
      BY <1>1, <1>2, <2>2
    <3>2. entries'[id] = entries[id]
      BY <1>1, <1>2, <3>1 DEF Chained
    <3> QED BY <1>2, <3>1, <3>2 DEF TreeWhole
  <2> QED BY <2>1, <2>2
<1>4. leaf' \in new
  BY <1>1
<1>5. DOMAIN entries' \subseteq 1 .. nextId' - 1
  <2>1. new \subseteq 1 .. nextId' - 1
    BY <1>1
  <2>2. DOMAIN entries \subseteq 1 .. nextId' - 1
    BY <1>1
  <2> QED BY <1>2, <2>1, <2>2
<1>6. TreeWhole'
  BY <1>1, <1>3 DEF TreeWhole
<1> QED BY <1>1, <1>2, <1>4, <1>5, <1>6 DEF TypeOK

\* What `ask` satisfies of TreeInv, and it alone.
AskOK ==
  /\ DOMAIN ask = Asks
  /\ \A a \in Asks :
       /\ DOMAIN ask[a] = DOMAIN NewAsk
       /\ ask[a].pc \in Ended \cup Loading \cup {"ran", "settled"}
       /\ ask[a].steps \in Seq(Replies \cup Results)
       /\ ask[a].retried \in BOOLEAN
  /\ TriesCounted

\* A step of one ask that leaves the others' runs of the loop alone.
LEMMA AskStep ==
  ASSUME AskOK, NEW a \in Asks, NEW next, NEW others,
         ask' = [others EXCEPT ![a] = next],
         DOMAIN others = Asks,
         \A b \in Asks \ {a} :
           /\ DOMAIN others[b] = DOMAIN NewAsk
           /\ others[b].pc = ask[b].pc /\ others[b].steps = ask[b].steps
           /\ others[b].retried = ask[b].retried /\ others[b].loops = ask[b].loops,
         DOMAIN next = DOMAIN NewAsk,
         next.pc \in Ended \cup Loading \cup {"ran", "settled"},
         next.steps \in Seq(Replies \cup Results),
         next.retried \in BOOLEAN,
         next.loops \in 0 .. 2,
         next.pc \in Loading \cup {"new"} => next.loops = 0 /\ ~next.retried,
         next.pc = "ran" => next.loops = IF next.retried THEN 2 ELSE 1
  PROVE  AskOK'
<1>1. DOMAIN ask' = Asks
  OBVIOUS
<1>2. ASSUME NEW b \in Asks
      PROVE  /\ DOMAIN ask'[b] = DOMAIN NewAsk
             /\ ask'[b].pc \in Ended \cup Loading \cup {"ran", "settled"}
             /\ ask'[b].steps \in Seq(Replies \cup Results)
             /\ ask'[b].retried \in BOOLEAN
             /\ ask'[b].loops \in 0 .. 2
             /\ ask'[b].pc \in Loading \cup {"new"} => ask'[b].loops = 0 /\ ~ask'[b].retried
             /\ ask'[b].pc = "ran" => ask'[b].loops = IF ask'[b].retried THEN 2 ELSE 1
  <2>1. CASE b = a
    BY <2>1
  <2>2. CASE b # a
    <3>1. ask'[b] = others[b]
      BY <2>2
    <3> QED BY <2>2, <3>1 DEF AskOK, TriesCounted
  <2> QED BY <2>1, <2>2
<1> QED BY <1>1, <1>2 DEF AskOK, TriesCounted

LEMMA Parts ==
  /\ TreeInv <=> AskOK /\ TypeOK /\ TreeWhole
  /\ (TreeInv /\ AskOK' /\ Local => TreeInv')
BY DEF TreeInv, AskOK, TypeOK, TreeWhole, Local, sessionVars

\* Steps that leave every ask's run of the loop as it was.
LEMMA AmongOthers ==
  ASSUME AskOK, NEW a \in Asks, NEW next, NEW others, ask' = [others EXCEPT ![a] = next],
         DOMAIN others = Asks,
         \A b \in Asks \ {a} :
           /\ DOMAIN others[b] = DOMAIN NewAsk
           /\ others[b].pc = ask[b].pc /\ others[b].steps = ask[b].steps
           /\ others[b].retried = ask[b].retried /\ others[b].loops = ask[b].loops,
         DOMAIN next = DOMAIN NewAsk,
         next.steps = ask[a].steps, next.retried = ask[a].retried, next.loops = ask[a].loops,
         next.pc \in {"done", "failed"} \cup Loading,
         next.pc \in Loading => ask[a].pc \in Loading \cup {"new"}
  PROVE  AskOK'
<1>1. /\ next.steps \in Seq(Replies \cup Results) /\ next.retried \in BOOLEAN
      /\ next.loops \in 0 .. 2
      /\ next.pc \in Ended \cup Loading \cup {"ran", "settled"}
  BY DEF AskOK, TriesCounted, Ended
<1>2. next.pc \in Loading \cup {"new"} => next.loops = 0 /\ ~next.retried
  BY DEF AskOK, TriesCounted, Loading
<1>3. next.pc # "ran"
  BY DEF Loading
<1> QED BY <1>1, <1>2, <1>3, AskStep, ZenonT(30)

LEMMA Elsewhere ==
  ASSUME TreeInv, NEW a \in Asks, NEW next, ask' = [ask EXCEPT ![a] = next],
         DOMAIN next = DOMAIN NewAsk,
         next.steps = ask[a].steps, next.retried = ask[a].retried, next.loops = ask[a].loops,
         next.pc \in {"done", "failed"} \cup Loading,
         next.pc \in Loading => ask[a].pc \in Loading \cup {"new"}
  PROVE  AskOK'
<1>1. AskOK /\ DOMAIN ask = Asks /\ \A b \in Asks : DOMAIN ask[b] = DOMAIN NewAsk
  BY Parts DEF AskOK
<1> QED BY <1>1, AmongOthers

LEMMA RunsTyped ==
  ASSUME TypeOK, NEW run \in scenario.runs
  PROVE  run \in Seq(Replies \cup Results) /\ Len(run) \in Nat \ {0}
<1>1. scenario \in Scenario /\ LoopRun(run)
  BY ReflectionAssumption DEF TypeOK
<1>2. run \in Seq(Replies \cup Results)
  BY <1>1 DEF Scenario
<1>3. run # <<>>
  BY <1>1 DEF LoopRun
<1> QED BY <1>2, <1>3

\* Steps that start an ask over from what it has loaded.
LEMMA Afresh ==
  ASSUME TreeInv, NEW a \in Asks, NEW next, ask' = [ask EXCEPT ![a] = next],
         DOMAIN next = DOMAIN NewAsk,
         next.pc = "summary", next.steps = <<>>, next.loops = 0,
         next.retried \in BOOLEAN, ~next.retried
  PROVE  AskOK'
<1>1. AskOK
  BY Parts
<1>2. DOMAIN ask = Asks /\ \A b \in Asks : DOMAIN ask[b] = DOMAIN NewAsk
  BY <1>1 DEF AskOK
<1>3. next.steps \in Seq(Replies \cup Results) /\ next.loops \in 0 .. 2
  OBVIOUS
<1>4. next.pc \in Ended \cup Loading \cup {"ran", "settled"} /\ next.pc # "ran"
  BY DEF Loading
<1> QED BY <1>1, <1>2, <1>3, <1>4, AskStep

LEMMA Starts ==
  ASSUME TreeInv, NEW a \in Asks, NEW turns, NEW model, NEW sure,
         ask' = [ask EXCEPT ![a] = Begun(turns, model, sure)]
  PROVE  AskOK'
<1> DEFINE next == Begun(turns, model, sure)
<1>1. /\ DOMAIN next = DOMAIN NewAsk
      /\ next.pc = "summary" /\ next.steps = <<>> /\ next.loops = 0
      /\ next.retried = FALSE
  BY DEF Begun, NewAsk
<1>2. next.retried \in BOOLEAN /\ ~next.retried
  BY <1>1
<1>3. ask' = [ask EXCEPT ![a] = next]
  OBVIOUS
<1> HIDE DEF next
<1> QED BY <1>1, <1>2, <1>3, Afresh

\* An ask whose loop has run is one whose steps are known.
LEMMA RanOnce ==
  ASSUME TreeInv, NEW a \in Asks, ask[a].pc = "ran", ~ask[a].retried,
         NEW run \in scenario.runs
  PROVE  /\ ask[a].steps \o run \in Seq(Replies \cup Results)
         /\ ask[a].loops = 1
<1>1. run \in Seq(Replies \cup Results) /\ ask[a].steps \in Seq(Replies \cup Results)
  BY RunsTyped DEF TreeInv, TypeOK
<1>2. ask[a].loops = 1
  BY DEF TreeInv, TriesCounted
<1> QED BY <1>1, <1>2

LEMMA PayloadsSome ==
  ASSUME TreeInv, NEW a \in Asks
  PROVE  Len(Payloads(a)) \in Nat \ {0}
<1> DEFINE change == IF ask[a].change THEN <<ModelEntry(ask[a].model)>> ELSE <<>>
           said == [i \in DOMAIN ask[a].steps |->
                      IF ask[a].steps[i] \in Results THEN ToolEntry(ask[a].steps[i])
                      ELSE AssistantEntry(i, IsAnswer(a, i))]
           S == {change[i] : i \in DOMAIN change} \cup {UserEntry(a)}
                  \cup {said[i] : i \in DOMAIN said}
<1>1. ask[a].steps \in Seq(Replies \cup Results)
  BY DEF TreeInv, TypeOK
<1>2. DOMAIN ask[a].steps = 1 .. Len(ask[a].steps) /\ Len(ask[a].steps) \in Nat
  BY <1>1
<1>3. said \in Seq(S)
  <2>1. DOMAIN said = 1 .. Len(ask[a].steps)
    BY <1>2
  <2>2. \A i \in 1 .. Len(ask[a].steps) : said[i] \in S
    BY <2>1
  <2> HIDE DEF S, said
  <2>3. said = [i \in 1 .. Len(ask[a].steps) |-> said[i]]
    BY <1>2 DEF said
  <2> QED BY <1>2, <2>2, <2>3
<1>4. change \in Seq(S)
  <2>1. CASE ask[a].change
    BY <2>1
  <2>2. CASE ~ask[a].change
    BY <2>2
  <2> QED BY <2>1, <2>2
<1>5. <<UserEntry(a)>> \in Seq(S) /\ Len(<<UserEntry(a)>>) = 1
  OBVIOUS
<1>6. Payloads(a) = change \o <<UserEntry(a)>> \o said
  BY DEF Payloads, StepEntry
<1> HIDE DEF change, said, S
<1> QED BY <1>3, <1>4, <1>5, <1>6

LEMMA InitTree == Init => TreeInv
<1> SUFFICES ASSUME Init PROVE TreeInv
  OBVIOUS
<1>1. TypeOK
  <2>1. DOMAIN ask = Asks /\ \A a \in Asks : ask[a] = NewAsk
    BY DEF Init
  <2>2. NewAsk.pc = "new" /\ NewAsk.steps = <<>> /\ NewAsk.retried = FALSE
    BY DEF NewAsk
  <2>3. <<>> \in Seq(Replies \cup Results)
    OBVIOUS
  <2>4. DOMAIN entries = {} /\ leaf = 0 /\ nextId = 1 /\ exists = FALSE /\ scenario \in Scenarios
    BY DEF Init, SessionInit
  <2>5. \A a \in Asks : ask[a].retried \in BOOLEAN
    BY <2>1, <2>2
  <2>6. \A a \in Asks : /\ DOMAIN ask[a] = DOMAIN NewAsk
                        /\ ask[a].pc \in Ended \cup Loading \cup {"ran", "settled"}
                        /\ ask[a].steps \in Seq(Replies \cup Results)
    BY <2>1, <2>2, <2>3 DEF Ended
  <2>7. exists \in BOOLEAN
    BY <2>4, Zenon
  <2>8. /\ nextId \in Nat \ {0} /\ scenario \in Scenarios
        /\ DOMAIN entries \subseteq 1 .. nextId - 1 /\ leaf \in {0} \cup DOMAIN entries
    BY DEF Init, SessionInit
  <2> QED BY <2>1, <2>5, <2>6, <2>7, <2>8, Zenon DEF TypeOK
<1>2. TreeWhole
  BY DEF Init, SessionInit, TreeWhole
<1>3. TriesCounted
  BY DEF Init, TriesCounted, NewAsk
<1> QED BY <1>1, <1>2, <1>3 DEF TreeInv

\* The steps of one ask that write nothing.
LEMMA LoadingInv ==
  ASSUME TreeInv, NEW a \in Asks,
         Find(a) \/ Load(a) \/ ReadSummary(a) \/ ReadLeaf(a)
  PROVE  TreeInv'
<1>1. DOMAIN ask = Asks /\ DOMAIN ask[a] = DOMAIN NewAsk
  BY DEF TreeInv, TypeOK
<1>2. CASE Find(a)
  <2> DEFINE next == [ask[a] EXCEPT !.pc = IF exists THEN "load" ELSE "create"]
  <2>1. /\ ask' = [ask EXCEPT ![a] = next] /\ DOMAIN next = DOMAIN NewAsk
        /\ next.steps = ask[a].steps /\ next.retried = ask[a].retried
        /\ next.loops = ask[a].loops
        /\ ask[a].pc \in Loading \cup {"new"} /\ next.pc \in Loading
    BY <1>1, <1>2 DEF Find, NewAsk, Loading
  <2>2. AskOK'
    BY <2>1, Elsewhere
  <2> QED BY <1>2, <2>2, Parts DEF Find
<1>3. CASE Load(a)
  <2>1. AskOK'
    BY <1>3, Starts DEF Load
  <2> QED BY <1>3, <2>1, Parts DEF Load
<1>4. CASE ReadSummary(a)
  <2>1. PICK pc \in {"loop", "summarise"} :
          ask' = [ask EXCEPT ![a].pc = pc, ![a].summary = LatestSummary]
    BY <1>4 DEF ReadSummary
  <2> DEFINE next == [ask[a] EXCEPT !.pc = pc, !.summary = LatestSummary]
  <2>2. /\ ask' = [ask EXCEPT ![a] = next] /\ DOMAIN next = DOMAIN NewAsk
        /\ next.steps = ask[a].steps /\ next.retried = ask[a].retried
        /\ next.loops = ask[a].loops
        /\ ask[a].pc \in Loading \cup {"new"} /\ next.pc \in Loading
    BY <1>1, <1>4, <2>1 DEF ReadSummary, NewAsk, Loading
  <2>3. AskOK'
    BY <2>2, Elsewhere
  <2> QED BY <1>4, <2>3, Parts DEF ReadSummary
<1>5. CASE ReadLeaf(a)
  <2> DEFINE next == [ask[a] EXCEPT !.pc = IF leaf = 0 THEN "loop" ELSE "compact",
                                    !.parent = leaf]
  <2>2. /\ ask' = [ask EXCEPT ![a] = next] /\ DOMAIN next = DOMAIN NewAsk
        /\ next.steps = ask[a].steps /\ next.retried = ask[a].retried
        /\ next.loops = ask[a].loops
        /\ ask[a].pc \in Loading \cup {"new"} /\ next.pc \in Loading
    BY <1>1, <1>5 DEF ReadLeaf, NewAsk, Loading
  <2>3. AskOK'
    BY <2>2, Elsewhere
  <2> QED BY <1>5, <2>3, Parts DEF ReadLeaf
<1> QED BY <1>2, <1>3, <1>4, <1>5

LEMMA Reran ==
  ASSUME TreeInv, NEW a \in Asks, NEW next, ask' = [ask EXCEPT ![a] = next],
         DOMAIN next = DOMAIN NewAsk,
         next.steps \in Seq(Replies \cup Results),
         next.retried \in BOOLEAN, next.loops \in 1 .. 2,
         \/ next.pc = "settled"
         \/ next.pc = "ran" /\ next.loops = IF next.retried THEN 2 ELSE 1
  PROVE  AskOK'
<1>1. AskOK
  BY Parts
<1>2. DOMAIN ask = Asks /\ \A b \in Asks : DOMAIN ask[b] = DOMAIN NewAsk
  BY <1>1 DEF AskOK
<1>3. next.pc \in Ended \cup Loading \cup {"ran", "settled"} /\ next.loops \in 0 .. 2
  OBVIOUS
<1>4. next.pc \notin Loading \cup {"new"}
  BY DEF Loading
<1> QED BY <1>1, <1>2, <1>3, <1>4, AskStep

\* The runs of the loop, and what becomes of the ask after them.
LEMMA LoopInv ==
  ASSUME TreeInv, NEW a \in Asks,
         Run(a) \/ CorrectEmpty(a) \/ CorrectToolless(a)
  PROVE  TreeInv'
<1>1. /\ AskOK /\ DOMAIN ask = Asks /\ DOMAIN ask[a] = DOMAIN NewAsk
      /\ \A b \in Asks : DOMAIN ask[b] = DOMAIN NewAsk
  BY Parts DEF AskOK
<1>2. CASE Run(a)
  <2>1. PICK run \in scenario.runs :
          ask' = [ask EXCEPT ![a].pc = "ran", ![a].steps = run, ![a].answer = Len(run),
                             ![a].loops = 1]
    BY <1>2 DEF Run
  <2>2. run \in Seq(Replies \cup Results) /\ ask[a].retried = FALSE
    BY <1>2, RunsTyped DEF TreeInv, TypeOK, TriesCounted, Run, Loading
  <2> DEFINE next == [ask[a] EXCEPT !.pc = "ran", !.steps = run, !.answer = Len(run),
                                    !.loops = 1]
  <2>3. /\ ask' = [ask EXCEPT ![a] = next] /\ DOMAIN next = DOMAIN NewAsk
        /\ next.steps = run /\ next.retried = FALSE /\ next.loops = 1 /\ next.pc = "ran"
    BY <1>1, <2>1, <2>2 DEF NewAsk
  <2>q. next.retried \in BOOLEAN
    BY <2>3
  <2>r. next.steps \in Seq(Replies \cup Results) /\ next.loops \in 1 .. 2
    BY <2>2, <2>3
  <2>s. next.pc = "ran" /\ next.loops = IF next.retried THEN 2 ELSE 1
    BY <2>3
  <2> HIDE DEF next
  <2>4. AskOK'
    BY <2>3, <2>q, <2>r, <2>s, Reran
  <2> QED BY <1>2, <2>4, Parts DEF Run
<1>3. CASE CorrectEmpty(a)
  <2>1. PICK run \in scenario.runs :
          LET steps == ask[a].steps \o run
          IN  ask' = [ask EXCEPT ![a].steps = steps, ![a].answer = Len(steps),
                                 ![a].retried = TRUE, ![a].loops = @ + 1]
    BY <1>3 DEF CorrectEmpty
  <2>2. ask[a].pc = "ran" /\ ~ask[a].retried
    BY <1>3 DEF CorrectEmpty, EmptyReply
  <2>3. ask[a].steps \o run \in Seq(Replies \cup Results) /\ ask[a].loops = 1
    BY <2>2, RanOnce
  <2> DEFINE next == [ask[a] EXCEPT !.steps = ask[a].steps \o run,
                                    !.answer = Len(ask[a].steps \o run),
                                    !.retried = TRUE, !.loops = 2]
  <2>4. /\ ask' = [ask EXCEPT ![a] = next] /\ DOMAIN next = DOMAIN NewAsk
        /\ next.steps = ask[a].steps \o run /\ next.retried = TRUE /\ next.loops = 2
        /\ next.pc = "ran"
    BY <1>1, <2>1, <2>2, <2>3, SMTT(20) DEF NewAsk
  <2>r. /\ next.steps \in Seq(Replies \cup Results) /\ next.retried \in BOOLEAN
        /\ next.loops \in 1 .. 2
    BY <2>3, <2>4
  <2>s. next.pc = "ran" /\ next.loops = IF next.retried THEN 2 ELSE 1
    BY <2>4
  <2> HIDE DEF next
  <2>5. AskOK'
    BY <2>4, <2>r, <2>s, Reran
  <2> QED BY <1>3, <2>5, Parts DEF CorrectEmpty
<1>4. CASE CorrectToolless(a)
  <2>1. PICK run \in scenario.runs :
          LET steps == ask[a].steps \o run
          IN  ask' = [ask EXCEPT ![a].pc = "settled", ![a].steps = steps,
                                 ![a].answer = IF run[Len(run)] = "text" THEN Len(steps)
                                               ELSE @,
                                 ![a].loops = @ + 1]
    BY <1>4 DEF CorrectToolless
  <2>2. ask[a].pc = "ran" /\ ~ask[a].retried
    BY <1>4 DEF CorrectToolless, ToollessReply
  <2>3. ask[a].steps \o run \in Seq(Replies \cup Results) /\ ask[a].loops = 1
    BY <2>2, RanOnce
  <2> DEFINE next == [ask[a] EXCEPT !.pc = "settled", !.steps = ask[a].steps \o run,
                                    !.answer = IF run[Len(run)] = "text"
                                               THEN Len(ask[a].steps \o run)
                                               ELSE ask[a].answer,
                                    !.loops = 2]
  <2>4. /\ ask' = [ask EXCEPT ![a] = next] /\ DOMAIN next = DOMAIN NewAsk
        /\ next.steps = ask[a].steps \o run /\ next.retried = ask[a].retried
        /\ next.loops = 2 /\ next.pc = "settled"
    <3>1. ask' = [ask EXCEPT ![a].pc = "settled", ![a].steps = @ \o run,
                             ![a].answer = IF run[Len(run)] = "text"
                                           THEN Len(ask[a].steps \o run) ELSE @,
                             ![a].loops = 2]
      BY <1>1, <2>1, <2>3 DEF NewAsk
    <3>2. ask' = [ask EXCEPT ![a] = next]
      BY <1>1, <3>1 DEF NewAsk
    <3>3. DOMAIN next = DOMAIN NewAsk
      BY <1>1
    <3>4. /\ next.steps = ask[a].steps \o run /\ next.retried = ask[a].retried
          /\ next.loops = 2 /\ next.pc = "settled"
      BY <1>1 DEF NewAsk
    <3> QED BY <3>2, <3>3, <3>4
  <2>5. ask[a].retried \in BOOLEAN
    BY DEF TreeInv, TypeOK
  <2>r. /\ next.steps \in Seq(Replies \cup Results) /\ next.retried \in BOOLEAN
        /\ next.loops \in 1 .. 2
    BY <2>3, <2>4, <2>5
  <2> HIDE DEF next
  <2>6. AskOK'
    BY <2>4, <2>r, Reran
  <2> QED BY <1>4, <2>6, Parts DEF CorrectToolless
<1> QED BY <1>2, <1>3, <1>4

LEMMA CreateInv == ASSUME TreeInv, NEW a \in Asks, Create(a) PROVE TreeInv'
<1>1. AskOK'
  <2>1. PICK model \in scenario.models : ask' = [ask EXCEPT ![a] = Begun(<<>>, model, leaf = 0)]
    BY DEF Create
  <2> DEFINE sure == leaf = 0
             turns == <<>>
  <2>2. ask' = [ask EXCEPT ![a] = Begun(turns, model, sure)]
    BY <2>1
  <2> HIDE DEF sure, turns
  <2> QED BY <2>2, Starts
<1>2. /\ exists' = TRUE
      /\ UNCHANGED <<leaf, entries, nextId, scenario>>
  BY DEF Create, CreateSession
<1>3. TreeWhole'
  BY <1>2 DEF TreeInv, TreeWhole
<1>4. TypeOK'
  BY <1>1, <1>2 DEF TreeInv, TypeOK, AskOK
<1> QED BY <1>1, <1>3, <1>4 DEF TreeInv, AskOK

LEMMA OthersShape ==
  ASSUME AskOK, NEW a \in Asks, NEW b \in Asks
  PROVE  /\ DOMAIN Others(a) = Asks
         /\ DOMAIN Others(a)[b] = DOMAIN NewAsk
         /\ Others(a)[b].pc = ask[b].pc /\ Others(a)[b].steps = ask[b].steps
         /\ Others(a)[b].retried = ask[b].retried /\ Others(a)[b].loops = ask[b].loops
<1>1. DOMAIN ask[b] = DOMAIN NewAsk
  BY DEF AskOK
<1> QED BY <1>1 DEF Others, NewAsk

LEMMA CompactInv == ASSUME TreeInv, NEW a \in Asks, Compact(a) PROVE TreeInv'
<1>1. AskOK /\ TypeOK /\ TreeWhole
  BY Parts
<1> DEFINE next == [Others(a)[a] EXCEPT !.pc = "loop", !.summary = Summary(a), !.turns = <<>>]
<1>2. AskOK'
  <2> DEFINE others == Others(a)
  <2>1. \A b \in Asks :
          /\ DOMAIN others = Asks
          /\ DOMAIN others[b] = DOMAIN NewAsk
          /\ others[b].pc = ask[b].pc /\ others[b].steps = ask[b].steps
          /\ others[b].retried = ask[b].retried /\ others[b].loops = ask[b].loops
    BY <1>1, OthersShape
  <2>2. ask' = [others EXCEPT ![a] = next]
    BY <2>1 DEF Compact, NewAsk
  <2>3. /\ DOMAIN next = DOMAIN NewAsk /\ next.pc = "loop"
        /\ next.steps = ask[a].steps /\ next.retried = ask[a].retried
        /\ next.loops = ask[a].loops
    BY <2>1 DEF NewAsk
  <2>4. ask[a].pc \in Loading \cup {"new"} /\ next.pc \in Loading
    BY <2>3 DEF Compact, Loading
  <2>5. /\ DOMAIN others = Asks
        /\ \A b \in Asks \ {a} :
             /\ DOMAIN others[b] = DOMAIN NewAsk
             /\ others[b].pc = ask[b].pc /\ others[b].steps = ask[b].steps
             /\ others[b].retried = ask[b].retried /\ others[b].loops = ask[b].loops
    BY <2>1
  <2>6. /\ next.pc \in {"done", "failed"} \cup Loading
        /\ next.pc \in Loading => ask[a].pc \in Loading \cup {"new"}
    BY <2>4
  <2> HIDE DEF next, others
  <2> QED BY <1>1, <2>2, <2>3, <2>5, <2>6, AmongOthers, ZenonT(30)
<1>3. AppendChain(ask[a].parent, <<CompactionEntry(Summary(a))>>) /\ scenario' = scenario
  BY DEF Compact
<1>4. Len(<<CompactionEntry(Summary(a))>>) \in Nat \ {0}
  OBVIOUS
<1>5. /\ TreeWhole'
      /\ exists' \in BOOLEAN
      /\ nextId' \in Nat \ {0}
      /\ DOMAIN entries' \subseteq 1 .. nextId' - 1
      /\ leaf' \in {0} \cup DOMAIN entries'
  BY <1>1, <1>3, <1>4, AppendWhole
<1>6. TypeOK'
  BY <1>1, <1>2, <1>3, <1>5, Zenon DEF TypeOK, AskOK
<1> QED BY <1>2, <1>5, <1>6 DEF TreeInv, AskOK

LEMMA RecordInv == ASSUME TreeInv, NEW a \in Asks, Record(a) PROVE TreeInv'
<1>1. AskOK /\ TypeOK /\ TreeWhole
  BY Parts
<1> DEFINE next == [ask[a] EXCEPT !.pc = "done", !.response = Response(a)]
           others == Overtaken(a)
<1>2. AskOK'
  <2>1. DOMAIN others = Asks /\ \A b \in Asks :
          /\ DOMAIN others[b] = DOMAIN NewAsk
          /\ others[b].pc = ask[b].pc /\ others[b].steps = ask[b].steps
          /\ others[b].retried = ask[b].retried /\ others[b].loops = ask[b].loops
    BY <1>1 DEF AskOK, Overtaken, NewAsk
  <2>2. ask' = [others EXCEPT ![a] = next]
    BY DEF Record
  <2>3. /\ DOMAIN next = DOMAIN NewAsk /\ next.pc \in {"done", "failed"}
        /\ next.steps = ask[a].steps /\ next.retried = ask[a].retried
        /\ next.loops = ask[a].loops
    BY <1>1 DEF AskOK, NewAsk
  <2>4. /\ DOMAIN others = Asks
        /\ \A b \in Asks \ {a} :
             /\ DOMAIN others[b] = DOMAIN NewAsk
             /\ others[b].pc = ask[b].pc /\ others[b].steps = ask[b].steps
             /\ others[b].retried = ask[b].retried /\ others[b].loops = ask[b].loops
    BY <2>1
  <2>5. /\ next.pc \in {"done", "failed"} \cup Loading
        /\ next.pc \in Loading => ask[a].pc \in Loading \cup {"new"}
    BY <2>3 DEF Loading
  <2> HIDE DEF next, others
  <2> QED BY <1>1, <2>2, <2>3, <2>4, <2>5, AmongOthers, ZenonT(30)
<1>3. AppendChain(leaf, Payloads(a)) /\ scenario' = scenario
  BY DEF Record
<1>4. Len(Payloads(a)) \in Nat \ {0}
  BY PayloadsSome
<1>5. /\ TreeWhole'
      /\ exists' \in BOOLEAN
      /\ nextId' \in Nat \ {0}
      /\ DOMAIN entries' \subseteq 1 .. nextId' - 1
      /\ leaf' \in {0} \cup DOMAIN entries'
  BY <1>1, <1>3, <1>4, AppendWhole
<1>6. TypeOK'
  BY <1>1, <1>2, <1>3, <1>5, Zenon DEF TypeOK, AskOK
<1> QED BY <1>2, <1>5, <1>6 DEF TreeInv, AskOK

LEMMA EndInv == ASSUME TreeInv, NEW a \in Asks, NoAnswer(a) \/ Fail(a) PROVE TreeInv'
<1> DEFINE next == [ask[a] EXCEPT !.pc = "failed"]
<1>1. ask' = [ask EXCEPT ![a] = next] /\ UNCHANGED <<sessionVars, scenario>>
  BY DEF NoAnswer, Fail, Local
<1>2. /\ DOMAIN next = DOMAIN NewAsk /\ next.pc = "failed"
      /\ next.steps = ask[a].steps /\ next.retried = ask[a].retried
      /\ next.loops = ask[a].loops
  BY DEF TreeInv, TypeOK, NewAsk
<1>3. AskOK'
  <2>1. /\ next.pc \in {"done", "failed"} \cup Loading
        /\ next.pc \in Loading => ask[a].pc \in Loading \cup {"new"}
    BY <1>2 DEF Loading
  <2> HIDE DEF next
  <2> QED BY <1>1, <1>2, <2>1, Elsewhere
<1> QED BY <1>1, <1>3 DEF TreeInv, TypeOK, TreeWhole, AskOK, sessionVars

LEMMA DeleteInv == ASSUME TreeInv, Delete PROVE TreeInv'
<1>1. /\ exists' = FALSE /\ leaf' = 0 /\ DOMAIN entries' = {}
      /\ nextId' = nextId /\ scenario' = scenario
  BY DEF Delete, DeleteSession
<1>2. AskOK'
  <2>1. DOMAIN ask' = Asks
    BY DEF Delete
  <2>2. ASSUME NEW b \in Asks
        PROVE  /\ DOMAIN ask'[b] = DOMAIN NewAsk
               /\ ask'[b].pc = ask[b].pc /\ ask'[b].steps = ask[b].steps
               /\ ask'[b].retried = ask[b].retried /\ ask'[b].loops = ask[b].loops
    BY DEF Delete, TreeInv, TypeOK, NewAsk
  <2> QED BY <2>1, <2>2 DEF TreeInv, TypeOK, TriesCounted, AskOK
<1>3. TreeWhole'
  BY <1>1 DEF TreeWhole
<1>4. TypeOK'
  <2>1. exists' \in BOOLEAN
    BY <1>1, Zenon
  <2>2. nextId' \in Nat \ {0} /\ scenario' \in Scenarios
        /\ DOMAIN entries' \subseteq 1 .. nextId' - 1 /\ leaf' \in {0} \cup DOMAIN entries'
    BY <1>1 DEF TreeInv, TypeOK
  <2> QED BY <1>2, <2>1, <2>2, Zenon DEF TypeOK, AskOK
<1> QED BY <1>2, <1>3, <1>4 DEF TreeInv, AskOK

LEMMA StepTree == TreeInv /\ [Next]_vars => TreeInv'
<1> SUFFICES ASSUME TreeInv, [Next]_vars PROVE TreeInv'
  OBVIOUS
<1>1. CASE UNCHANGED vars
  BY <1>1 DEF vars, sessionVars, TreeInv, TypeOK, TreeWhole, TriesCounted
<1>2. ASSUME NEW a \in Asks,
             Find(a) \/ Load(a) \/ ReadSummary(a) \/ ReadLeaf(a)
      PROVE  TreeInv'
  BY <1>2, LoadingInv
<1>3. ASSUME NEW a \in Asks, Create(a) PROVE TreeInv'
  BY <1>3, CreateInv
<1>4. ASSUME NEW a \in Asks, Compact(a) PROVE TreeInv'
  BY <1>4, CompactInv
<1>5. ASSUME NEW a \in Asks, Run(a) \/ CorrectEmpty(a) \/ CorrectToolless(a) PROVE TreeInv'
  BY <1>5, LoopInv
<1>6. ASSUME NEW a \in Asks, Record(a) PROVE TreeInv'
  BY <1>6, RecordInv
<1>7. ASSUME NEW a \in Asks, NoAnswer(a) \/ Fail(a) PROVE TreeInv'
  BY <1>7, EndInv
<1>8. CASE Delete
  BY <1>8, DeleteInv
<1> QED BY <1>1, <1>2, <1>3, <1>4, <1>5, <1>6, <1>7, <1>8 DEF Next

\* The tree of a Session is whole, and its row and its entries come and go
\* together, however asks, compactions and a deletion interleave: the read of
\* a Conversation (sessions.rs:1139) never meets a parent that is not there.
THEOREM TreeInvariance == Spec => []TreeInv
<1> QED BY InitTree, StepTree, PTL DEF Spec

\* reflect.rs:1490: no ask is given a second corrective turn, whatever
\* either run of the loop comes back with.
THEOREM CorrectedOnce == Spec => []OneCorrection
<1>1. TreeInv => OneCorrection
  BY DEF TreeInv, TriesCounted, OneCorrection
<1> QED BY <1>1, TreeInvariance, PTL

-----------------------------------------------------------------------------
(* What an ask has to know                                                 *)

SummaryOf(p) == LET cut == LastOf(p, "compaction") IN IF cut = 0 THEN {} ELSE p[cut].covers

AsksOf(turns) == {turns[i].ask : i \in DOMAIN turns}

\* AnswersKnown, LeafKnown and SummariesCover, of one ask and its tree.
Known(x, a, p, end, next, asked, passed) ==
  /\ x.pc \in {"ran", "settled", "done"} => x.answer \in DOMAIN x.steps
  /\ x.pc = "done" => /\ x.steps[x.answer] = "text"
                      /\ x.response = ResponseIn([b \in {a} |-> x], a)
  /\ x.pc = "compact" => x.parent \in 1 .. next - 1
  /\ x.sure /\ x.pc = "compact" => x.parent = end
  /\ x.sure /\ x.pc \in Begins /\ ~x.change => ModelAfter(p, DefaultModel) = x.model
  /\ x.pc = "summary" /\ x.turns # <<>> =>
       asked \subseteq passed \cup x.cut \cup AsksOf(x.turns) \cup x.unseen \cup SummaryOf(p)
  /\ x.pc \in {"summarise", "compact"} =>
       asked \subseteq passed \cup x.cut \cup AsksOf(x.turns) \cup x.unseen \cup x.summary

EndsOf(end, A, es) ==
  {end} \cup ({A[a].parent : a \in {b \in Asks : A[b].pc = "compact"}} \cap DOMAIN es)

AskedIn(es) == {es[id].payload.ask : id \in {i \in DOMAIN es : es[i].payload.type = "user"}}

\* IInv but for the tree, of any asks and any tree.
RestOf(A, es, end, next, passed) ==
  /\ \A a \in Asks : Known(A[a], a, PathOf(es, end), end, next, AskedIn(es), passed)
  /\ \A e \in EndsOf(end, A, es) : WholeIn(A, PathOf(es, e))
  /\ AskedIn(es) \ passed \subseteq
       AsksOf(TurnsOf(Projected(PathOf(es, end)), ModelBefore(PathOf(es, end))))
         \cup SummaryOf(PathOf(es, end))

Rest == RestOf(ask, entries, leaf, nextId, passedOver)

LEMMA RestIsRest ==
  IInv <=> TreeInv /\ Rest
<1>1. \A a : Response(a) = ResponseIn(ask, a)
  BY DEF Response, ResponseIn
<1>2. \A a \in Asks : ResponseIn(ask, a) = ResponseIn([b \in {a} |-> ask[a]], a)
  BY DEF ResponseIn
<1>3. LatestSummary = SummaryOf(PathOf(entries, leaf))
  BY PathIsPathOf DEF LatestSummary, SummaryOf
<1>4. \A a : Turns(a) = AsksOf(ask[a].turns)
  BY DEF Turns, AsksOf
<1>5. LoadTurns = TurnsOf(Projected(PathOf(entries, leaf)), ModelBefore(PathOf(entries, leaf)))
  BY PathIsPathOf DEF LoadTurns
<1>6. {turn.ask : turn \in ToSet(LoadTurns)} = AsksOf(LoadTurns)
  BY Zenon DEF ToSet, AsksOf
<1>7. Asked = AskedIn(entries)
  BY DEF Asked, AskedIn
<1>8. Ends = EndsOf(leaf, ask, entries)
  BY DEF Ends, EndsOf
<1> DEFINE p == PathOf(entries, leaf)
           KnownAll == \A a \in Asks : Known(ask[a], a, p, leaf, nextId, AskedIn(entries), passedOver)
           WholeAll == \A e \in EndsOf(leaf, ask, entries) : WholeIn(ask, PathOf(entries, e))
           Stood == AskedIn(entries) \ passedOver \subseteq AsksOf(LoadTurns) \cup SummaryOf(p)
<1>9. Rest <=> KnownAll /\ WholeAll /\ Stood
  BY <1>5 DEF Rest, RestOf
<1>10. ConversationsWhole <=> WholeAll
  BY <1>8, PathIsPathOf, WholeIsWholeIn DEF ConversationsWhole
<1>11. Remembered <=> Stood
  <2>1. Remembered <=> Asked \ passedOver \subseteq
                         {turn.ask : turn \in ToSet(LoadTurns)} \cup LatestSummary
    BY DEF Remembered, Asked
  <2> QED BY <1>3, <1>6, <1>7, <2>1
<1>12. AnswersKnown /\ LeafKnown /\ SummariesCover <=> KnownAll
  <2>1. PathTo(leaf) = p
    BY PathIsPathOf
  <2> DEFINE K(a) == Known(ask[a], a, p, leaf, nextId, AskedIn(entries), passedOver)
  <2>2. ASSUME AnswersKnown, LeafKnown, SummariesCover, NEW a \in Asks
        PROVE  K(a)
    <3>1. /\ ask[a].pc \in {"ran", "settled", "done"} => ask[a].answer \in DOMAIN ask[a].steps
          /\ ask[a].pc = "done" => ask[a].steps[ask[a].answer] = "text"
                                   /\ ask[a].response = ResponseIn([b \in {a} |-> ask[a]], a)
      BY <1>1, <1>2, <2>2 DEF AnswersKnown, Reply
    <3>2. /\ ask[a].pc = "compact" => ask[a].parent \in 1 .. nextId - 1
          /\ ask[a].sure /\ ask[a].pc = "compact" => ask[a].parent = leaf
          /\ ask[a].sure /\ ask[a].pc \in Begins /\ ~ask[a].change =>
               ModelAfter(p, DefaultModel) = ask[a].model
      BY <2>1, <2>2 DEF LeafKnown
    <3> DEFINE known == passedOver \cup ask[a].cut \cup AsksOf(ask[a].turns) \cup ask[a].unseen
    <3>3. /\ ask[a].pc = "summary" /\ ask[a].turns # <<>> =>
               AskedIn(entries) \subseteq known \cup SummaryOf(p)
          /\ ask[a].pc \in {"summarise", "compact"} =>
               AskedIn(entries) \subseteq known \cup ask[a].summary
      BY <1>3, <1>4, <1>7, <2>2 DEF SummariesCover
    <3> QED BY <3>1, <3>2, <3>3 DEF Known
  <2>3. ASSUME KnownAll PROVE AnswersKnown
    BY <1>1, <1>2, <2>3 DEF AnswersKnown, Known, Reply
  <2>4. ASSUME KnownAll PROVE LeafKnown
    BY <2>1, <2>4 DEF LeafKnown, Known
  <2>5. ASSUME KnownAll PROVE SummariesCover
    BY <1>3, <1>4, <1>7, <2>5 DEF SummariesCover, Known
  <2> QED BY <2>2, <2>3, <2>4, <2>5
<1> HIDE DEF KnownAll, WholeAll, Stood
<1> QED BY <1>9, <1>10, <1>11, <1>12 DEF IInv

LEMMA TreeIsTree ==
  TreeInv => Tree(entries)
BY DEF TreeInv, TypeOK, TreeWhole, Tree

\* The Questions a reload shows are those after the last compaction.
LEMMA Replayed ==
  ASSUME NEW S, NEW p \in Seq(S), NEW seed
  PROVE  AsksOf(TurnsOf(Projected(p), seed)) =
           {p[i].ask : i \in {j \in LastOf(p, "compaction") + 1 .. Len(p) : p[j].type = "user"}}
<1>1. PICK off \in 0 .. Len(p) :
        /\ Projected(p) \in Seq(S)
        /\ Len(Projected(p)) = Len(p) - off
        /\ \A i \in 1 .. Len(p) - off : Projected(p)[i] = p[off + i]
        /\ IF LastOf(p, "compaction") = 0
           THEN off = 0 /\ \A i \in 1 .. Len(p) : p[i].type # "compaction"
           ELSE /\ off + 1 = LastOf(p, "compaction") /\ off + 1 <= Len(p)
                /\ p[off + 1].type = "compaction"
  BY ProjectionOf
<1>2. PICK q \in Seq(S) : q = Projected(p)
  BY <1>1
<1>3. PICK t : t = TurnsOf(q, seed)
  OBVIOUS
<1>4. TurnsUpTo(q, seed, t, Len(q))
  BY <1>3, TurnsRead
<1>5. \A i : TurnAt(q, i, seed).ask = q[i].ask
  BY DEF TurnAt
<1>6. /\ Len(q) = Len(p) - off /\ Len(p) \in Nat /\ off \in Nat
      /\ \A i \in 1 .. Len(p) - off : q[i] = p[off + i]
  BY <1>1, <1>2
<1> DEFINE last == LastOf(p, "compaction")
<1>7. last = off \/ (last = off + 1 /\ off + 1 <= Len(p) /\ p[off + 1].type = "compaction")
  BY <1>1
<1> HIDE DEF last
<1>8. ASSUME NEW k \in DOMAIN t
      PROVE  \E i \in last + 1 .. Len(p) : p[i].type = "user" /\ t[k].ask = p[i].ask
  <2>1. PICK i \in 1 .. Len(q) : q[i].type = "user" /\ t[k] = TurnAt(q, i, seed)
    BY <1>4 DEF TurnsUpTo
  <2>2. q[i] = p[off + i] /\ off + i \in off + 1 .. Len(p)
    BY <1>6
  <2>3. off + i \in last + 1 .. Len(p)
    <3>1. CASE last = off
      BY <2>2, <3>1
    <3>2. CASE last = off + 1 /\ p[off + 1].type = "compaction"
      <4>1. i # 1
        BY <2>1, <2>2, <3>2
      <4> QED BY <1>6, <2>2, <3>2, <4>1
    <3> QED BY <1>7, <3>1, <3>2
  <2> QED BY <1>5, <2>1, <2>2, <2>3
<1>9. ASSUME NEW i \in last + 1 .. Len(p), p[i].type = "user"
      PROVE  \E k \in DOMAIN t : t[k].ask = p[i].ask
  <2>1. i - off \in 1 .. Len(p) - off /\ off + (i - off) = i
    BY <1>6, <1>7
  <2>2. q[i - off] = p[i] /\ i - off \in 1 .. Len(q)
    BY <1>6, <2>1
  <2>3. PICK k \in DOMAIN t : t[k] = TurnAt(q, i - off, seed)
    BY <1>4, <1>9, <2>2 DEF TurnsUpTo
  <2> QED BY <1>5, <2>2, <2>3
<1>10. AsksOf(t) = {p[i].ask : i \in {j \in last + 1 .. Len(p) : p[j].type = "user"}}
  <2> DEFINE R == {p[i].ask : i \in {j \in last + 1 .. Len(p) : p[j].type = "user"}}
  <2>1. ASSUME NEW x \in AsksOf(t) PROVE x \in R
    <3>1. PICK k \in DOMAIN t : x = t[k].ask
      BY <2>1 DEF AsksOf
    <3> QED BY <1>8, <3>1
  <2>2. ASSUME NEW x \in R PROVE x \in AsksOf(t)
    <3>1. PICK i \in last + 1 .. Len(p) : p[i].type = "user" /\ x = p[i].ask
      BY <2>2
    <3> QED BY <1>9, <3>1 DEF AsksOf
  <2> HIDE DEF R
  <2>3. AsksOf(t) = R
    BY <2>1, <2>2
  <2> QED BY <2>3 DEF R
<1> QED BY <1>2, <1>3, <1>10 DEF last

\* A Turn appended is replayed, with those that were; the summary stays.
LEMMA ReplayedMore ==
  ASSUME NEW A, StepsIn(A), NEW S, NEW p \in Seq(S), NEW r \in Seq(S), NEW q, NEW u,
         NEW a \in Asks, IsTurn(A, a, u, q), Joined(r, p, q, Len(q)), NEW seed, NEW newSeed
  PROVE  /\ AsksOf(TurnsOf(Projected(p), seed)) \cup {a}
              \subseteq AsksOf(TurnsOf(Projected(r), newSeed))
         /\ SummaryOf(r) = SummaryOf(p)
<1>0. PICK n \in Nat :
        /\ Joined(r, p, q, n) /\ u \in 1 .. n /\ q[u].type = "user" /\ q[u].ask = a
        /\ \A i \in 1 .. n : q[i].type # "compaction"
  <2>1. q[u].type = "user" /\ q[u].ask = a
    BY DEF IsTurn
  <2>2. /\ u \in 1 .. Len(q) /\ Len(q) \in Nat
        /\ \A i \in 1 .. Len(q) : q[i].type # "compaction"
    BY TurnPayloads
  <2> QED BY <2>1, <2>2
<1> DEFINE o == LastOf(p, "compaction")
<1>1. /\ Len(p) \in Nat /\ Len(r) = Len(p) + n
      /\ \A i \in 1 .. Len(p) : r[i] = p[i]
      /\ \A i \in 1 .. n : r[Len(p) + i] = q[i]
  <2>1. Len(p) \in Nat
    OBVIOUS
  <2>2. /\ Len(r) = Len(p) + n
        /\ \A i \in 1 .. Len(p) : r[i] = p[i]
        /\ \A i \in 1 .. n : r[Len(p) + i] = q[i]
    BY <1>0, Zenon DEF Joined
  <2> QED BY <2>1, <2>2
<1>2. /\ o \in 0 .. Len(p)
      /\ o # 0 => p[o].type = "compaction"
      /\ \A i \in 1 .. Len(p) : p[i].type = "compaction" => o # 0 /\ i <= o
  BY LastFound
<1> HIDE DEF o
<1>3. ASSUME NEW i \in Len(p) + 1 .. Len(r) PROVE r[i].type # "compaction"
  <2>1. i - Len(p) \in 1 .. n /\ Len(p) + (i - Len(p)) = i
    BY <1>0, <1>1
  <2>2. r[i] = q[i - Len(p)]
    BY <1>0, <1>1, <2>1
  <2> QED BY <1>0, <2>1, <2>2
<1>4. LastOf(r, "compaction") = o
  <2>1. CASE o = 0
    <3>1. ASSUME NEW i \in 1 .. Len(r) PROVE r[i].type # "compaction"
      <4>1. CASE i \in 1 .. Len(p)
        BY <1>0, <1>1, <1>2, <2>1, <4>1
      <4>2. CASE i \in Len(p) + 1 .. Len(r)
        BY <1>3, <4>2
      <4> QED BY <1>0, <1>1, <4>1, <4>2
    <3> QED BY <2>1, <3>1, LastNone
  <2>2. CASE o # 0
    <3>1. o \in 1 .. Len(r) /\ r[o].type = "compaction"
      BY <1>0, <1>1, <1>2, <2>2
    <3>2. ASSUME NEW i \in o + 1 .. Len(r) PROVE r[i].type # "compaction"
      <4>1. CASE i \in 1 .. Len(p)
        BY <1>0, <1>1, <1>2, <4>1
      <4>2. CASE i \in Len(p) + 1 .. Len(r)
        BY <1>3, <4>2
      <4> QED BY <1>0, <1>1, <1>2, <4>1, <4>2
    <3> QED BY <3>1, <3>2, LastIs
  <2> QED BY <1>0, <2>1, <2>2
<1>5. SummaryOf(r) = SummaryOf(p)
  <2>1. o # 0 => r[o] = p[o]
    BY <1>0, <1>1, <1>2
  <2> QED BY <1>4, <2>1 DEF SummaryOf, o
<1>6. AsksOf(TurnsOf(Projected(p), seed)) =
        {p[i].ask : i \in {j \in o + 1 .. Len(p) : p[j].type = "user"}}
  BY Replayed DEF o
<1>7. AsksOf(TurnsOf(Projected(r), newSeed)) =
        {r[i].ask : i \in {j \in o + 1 .. Len(r) : r[j].type = "user"}}
  BY <1>4, Replayed
<1>8. ASSUME NEW x \in AsksOf(TurnsOf(Projected(p), seed))
      PROVE  x \in AsksOf(TurnsOf(Projected(r), newSeed))
  <2>1. PICK i \in o + 1 .. Len(p) : p[i].type = "user" /\ x = p[i].ask
    BY <1>6, <1>8
  <2>2. i \in o + 1 .. Len(r) /\ r[i] = p[i]
    BY <1>0, <1>1, <1>2
  <2> QED BY <1>7, <2>1, <2>2
<1>9. q[u].ask \in AsksOf(TurnsOf(Projected(r), newSeed))
  <2>1. PICK m : m = Len(p) + u
    OBVIOUS
  <2>2. m \in o + 1 .. Len(r) /\ r[m] = q[u]
    BY <1>0, <1>1, <1>2, <2>1
  <2> QED BY <1>0, <1>7, <2>2
<1> QED BY <1>0, <1>5, <1>8, <1>9

\* After a compaction it is the summary that stands for what was.
LEMMA SummaryAppended ==
  ASSUME NEW S, NEW p \in Seq(S), NEW r \in Seq(S), NEW q,
         Joined(r, p, q, 1), q[1].type = "compaction"
  PROVE  SummaryOf(r) = q[1].covers
<1>1. /\ Len(p) \in Nat /\ Len(r) = Len(p) + 1 /\ r[Len(p) + 1] = q[1]
      /\ Len(p) + 1 \in 1 .. Len(r)
  BY DEF Joined
<1>2. LastOf(r, "compaction") = Len(p) + 1
  <2>1. PICK m : m = Len(p) + 1
    OBVIOUS
  <2>2. m \in 1 .. Len(r) /\ r[m].type = "compaction"
        /\ \A i \in m + 1 .. Len(r) : r[i].type # "compaction"
    BY <1>1, <2>1
  <2> QED BY <2>1, <2>2, LastIs
<1> QED BY <1>1, <1>2 DEF SummaryOf

-----------------------------------------------------------------------------
(* What a step does to what an ask has to know                             *)

LEMMA KnownEnded ==
  ASSUME NEW x, NEW a, x.pc \in Ended,
         NEW p, NEW end, NEW next, NEW asked, NEW passed,
         Known(x, a, p, end, next, asked, passed),
         NEW p2, NEW end2, NEW next2, NEW asked2, NEW passed2
  PROVE  Known(x, a, p2, end2, next2, asked2, passed2)
BY DEF Known, Ended, Begins

\* y is x, no longer sure of the leaf, and more has come in.
Disturbed(x, y, more) ==
  /\ y.pc = x.pc /\ y.parent = x.parent /\ y.turns = x.turns /\ y.cut = x.cut
  /\ y.summary = x.summary /\ y.answer = x.answer /\ y.steps = x.steps
  /\ y.sure = FALSE /\ y.unseen = x.unseen \cup more

LEMMA KnownDisturbed ==
  ASSUME NEW x, NEW a, x.pc \notin Ended,
         NEW p, NEW end, NEW next \in Nat, NEW asked, NEW passed,
         Known(x, a, p, end, next, asked, passed),
         NEW y, NEW more, Disturbed(x, y, more),
         NEW p2, NEW end2, NEW next2 \in Nat, NEW asked2, NEW passed2,
         next <= next2,
         \/ asked2 = {}
         \/ /\ asked2 \subseteq asked \cup more /\ passed \subseteq passed2
            /\ \/ SummaryOf(p2) = SummaryOf(p)
               \/ asked2 \subseteq passed2 \cup SummaryOf(p2)
  PROVE  Known(y, a, p2, end2, next2, asked2, passed2)
<1>1. /\ y.pc = x.pc /\ y.parent = x.parent /\ y.turns = x.turns /\ y.cut = x.cut
      /\ y.summary = x.summary /\ y.answer = x.answer /\ y.steps = x.steps
      /\ y.sure = FALSE /\ y.unseen = x.unseen \cup more
  BY DEF Disturbed
<1>2. y.pc # "done"
  BY <1>1 DEF Ended
<1>3. y.pc \in {"ran", "settled", "done"} => y.answer \in DOMAIN y.steps
  BY <1>1 DEF Known
<1>4. y.pc = "compact" => y.parent \in 1 .. next2 - 1
  BY <1>1 DEF Known
<1>5. y.pc = "summary" /\ y.turns # <<>> =>
        asked2 \subseteq passed2 \cup y.cut \cup AsksOf(y.turns) \cup y.unseen \cup SummaryOf(p2)
  <2> SUFFICES ASSUME y.pc = "summary", y.turns # <<>>
               PROVE  asked2 \subseteq passed2 \cup y.cut \cup AsksOf(y.turns) \cup y.unseen
                                         \cup SummaryOf(p2)
    OBVIOUS
  <2>1. asked \subseteq passed \cup x.cut \cup AsksOf(x.turns) \cup x.unseen \cup SummaryOf(p)
    BY <1>1 DEF Known
  <2> QED BY <1>1, <2>1
<1>6. y.pc \in {"summarise", "compact"} =>
        asked2 \subseteq passed2 \cup y.cut \cup AsksOf(y.turns) \cup y.unseen \cup y.summary
  <2> SUFFICES ASSUME y.pc \in {"summarise", "compact"}
               PROVE  asked2 \subseteq passed2 \cup y.cut \cup AsksOf(y.turns) \cup y.unseen
                                         \cup y.summary
    OBVIOUS
  <2>1. asked \subseteq passed \cup x.cut \cup AsksOf(x.turns) \cup x.unseen \cup x.summary
    BY <1>1 DEF Known
  <2>2. CASE asked2 = {}
    BY <2>2
  <2>3. CASE asked2 \subseteq asked \cup more /\ passed \subseteq passed2
    BY <1>1, <2>1, <2>3
  <2> QED BY <2>2, <2>3
<1> QED BY <1>1, <1>2, <1>3, <1>4, <1>5, <1>6 DEF Known

\* A step of one ask that writes nothing.
LEMMA RestLocal ==
  ASSUME NEW A, DOMAIN A = Asks, NEW es, Tree(es), NEW end \in {0} \cup DOMAIN es,
         NEW next, NEW passed, RestOf(A, es, end, next, passed),
         NEW a \in Asks, A[a].pc # "done", NEW x,
         Known(x, a, PathOf(es, end), end, next, AskedIn(es), passed),
         x.pc = "compact" => x.parent = end
  PROVE  RestOf([A EXCEPT ![a] = x], es, end, next, passed)
<1> DEFINE B == [A EXCEPT ![a] = x]
<1>1. \A b \in Asks : B[b] = IF b = a THEN x ELSE A[b]
  OBVIOUS
<1> HIDE DEF B
<1>2. \A b \in Asks : Known(B[b], b, PathOf(es, end), end, next, AskedIn(es), passed)
  BY <1>1 DEF RestOf
<1>3. ASSUME NEW e \in EndsOf(end, B, es) PROVE WholeIn(B, PathOf(es, e))
  <2>1. e \in EndsOf(end, A, es) /\ e \in {0} \cup DOMAIN es
    BY <1>1 DEF EndsOf
  <2>2. PICK p \in Seq(Written(es)) : p = PathOf(es, e)
    BY <2>1, PathIsSeq
  <2>3. WholeIn(A, p)
    BY <2>1, <2>2 DEF RestOf
  <2>4. \A b \in Asks : A[b].pc = "done" => B[b] = A[b]
    BY <1>1
  <2> QED BY <2>2, <2>3, <2>4, WholeStays
<1> QED BY <1>2, <1>3 DEF RestOf, B

\* fs is es with q chained onto parent, from the id first.
Grown(es, fs, parent, q, first) ==
  /\ Tree(es) /\ Tree(fs) /\ first \in Nat \ {0} /\ Len(q) \in Nat \ {0}
  /\ DOMAIN es \subseteq 1 .. first - 1 /\ parent \in {0} \cup DOMAIN es
  /\ DOMAIN fs = DOMAIN es \cup (first .. first + Len(q) - 1)
  /\ \A i \in DOMAIN es : fs[i] = es[i]
  /\ \A i \in 1 .. Len(q) :
       fs[first + i - 1] = [parent |-> IF i = 1 THEN parent ELSE first + i - 2, payload |-> q[i]]

LEMMA GrownPaths ==
  ASSUME NEW es, NEW fs, NEW parent, NEW q, NEW first, Grown(es, fs, parent, q, first)
  PROVE  /\ \A id \in {0} \cup DOMAIN es :
              /\ PathOf(fs, id) = PathOf(es, id) /\ PathOf(es, id) \in Seq(Written(fs))
              /\ id \in {0} \cup DOMAIN fs
         /\ first + Len(q) - 1 \in DOMAIN fs
         /\ PathOf(fs, first + Len(q) - 1) \in Seq(Written(fs))
         /\ Joined(PathOf(fs, first + Len(q) - 1), PathOf(es, parent), q, Len(q))
<1>1. /\ Tree(es) /\ Tree(fs) /\ first \in Nat \ {0} /\ Len(q) \in Nat \ {0}
      /\ parent \in {0} \cup DOMAIN es
      /\ DOMAIN fs = DOMAIN es \cup (first .. first + Len(q) - 1)
      /\ \A i \in DOMAIN es : fs[i] = es[i]
      /\ \A i \in 1 .. Len(q) :
           fs[first + i - 1] = [parent |-> IF i = 1 THEN parent ELSE first + i - 2,
                                payload |-> q[i]]
  BY DEF Grown
<1>2. DOMAIN es \subseteq DOMAIN fs
  BY <1>1
<1>3. \A i \in 1 .. Len(q) : first + i - 1 \in DOMAIN fs
  BY <1>1
<1>4. first + Len(q) - 1 \in DOMAIN fs
  BY <1>1, <1>3
<1>5. Joined(PathOf(fs, first + Len(q) - 1), PathOf(es, parent), q, Len(q))
  BY <1>1, <1>2, <1>3, PathChained
<1>6. ASSUME NEW id \in {0} \cup DOMAIN es
      PROVE  /\ PathOf(fs, id) = PathOf(es, id) /\ PathOf(es, id) \in Seq(Written(fs))
             /\ id \in {0} \cup DOMAIN fs
  <2>1. PathOf(fs, id) = PathOf(es, id)
    BY <1>1, <1>2, PathStays
  <2>2. id \in {0} \cup DOMAIN fs
    BY <1>2
  <2>3. PathOf(fs, id) \in Seq(Written(fs))
    BY <1>1, <2>2, PathIsSeq
  <2> QED BY <2>1, <2>2, <2>3
<1>7. PathOf(fs, first + Len(q) - 1) \in Seq(Written(fs))
  BY <1>1, <1>4, PathIsSeq
<1> QED BY <1>4, <1>5, <1>6, <1>7

LEMMA GrownAsked ==
  ASSUME NEW es, NEW fs, NEW parent, NEW q, NEW first, Grown(es, fs, parent, q, first)
  PROVE  AskedIn(fs) = AskedIn(es) \cup
           {q[i].ask : i \in {j \in 1 .. Len(q) : q[j].type = "user"}}
<1> DEFINE more == {q[i].ask : i \in {j \in 1 .. Len(q) : q[j].type = "user"}}
<1>1. /\ first \in Nat \ {0} /\ Len(q) \in Nat \ {0} /\ DOMAIN es \subseteq 1 .. first - 1
      /\ DOMAIN fs = DOMAIN es \cup (first .. first + Len(q) - 1)
      /\ \A i \in DOMAIN es : fs[i] = es[i]
  BY DEF Grown
<1>2. ASSUME NEW i \in 1 .. Len(q)
      PROVE  first + i - 1 \in DOMAIN fs /\ fs[first + i - 1].payload = q[i]
  <2> DEFINE up == IF i = 1 THEN parent ELSE first + i - 2
  <2>1. fs[first + i - 1] = [parent |-> up, payload |-> q[i]]
    BY DEF Grown
  <2> HIDE DEF up
  <2> QED BY <1>1, <2>1
<1>3. ASSUME NEW x \in AskedIn(fs) PROVE x \in AskedIn(es) \cup more
  <2>1. PICK id \in DOMAIN fs : fs[id].payload.type = "user" /\ x = fs[id].payload.ask
    BY <1>3 DEF AskedIn
  <2>2. CASE id \in DOMAIN es
    BY <1>1, <2>1, <2>2 DEF AskedIn
  <2>3. CASE id \in first .. first + Len(q) - 1
    <3>1. id - first + 1 \in 1 .. Len(q) /\ first + (id - first + 1) - 1 = id
      BY <1>1, <2>3
    <3>2. fs[id].payload = q[id - first + 1]
      BY <1>2, <3>1
    <3> QED BY <2>1, <3>1, <3>2
  <2> QED BY <1>1, <2>2, <2>3
<1>4. ASSUME NEW x \in AskedIn(es) PROVE x \in AskedIn(fs)
  BY <1>1, <1>4 DEF AskedIn
<1>5. ASSUME NEW x \in more PROVE x \in AskedIn(fs)
  <2>1. PICK i \in 1 .. Len(q) : q[i].type = "user" /\ x = q[i].ask
    BY <1>5
  <2> QED BY <1>2, <2>1 DEF AskedIn
<1> HIDE DEF more
<1>6. AskedIn(fs) = AskedIn(es) \cup more
  BY <1>3, <1>4, <1>5
<1> QED BY <1>6 DEF more

\* Among asks that a write has disturbed, the paths that were are still whole.
LEMMA OthersWhole ==
  ASSUME NEW A, NEW B, NEW es, NEW fs, NEW parent, NEW q, NEW first, NEW end, NEW passed,
         end \in {0} \cup DOMAIN es,
         Grown(es, fs, parent, q, first), RestOf(A, es, end, first, passed),
         \A b \in Asks : A[b].pc = "done" => B[b] = A[b],
         \A b \in Asks : B[b].pc = "compact" => A[b].pc = "compact" /\ B[b].parent = A[b].parent,
         WholeIn(B, PathOf(fs, first + Len(q) - 1))
  PROVE  \A e \in EndsOf(first + Len(q) - 1, B, fs) : WholeIn(B, PathOf(fs, e))
<1> SUFFICES ASSUME NEW e \in EndsOf(first + Len(q) - 1, B, fs), e # first + Len(q) - 1
             PROVE  WholeIn(B, PathOf(fs, e))
  OBVIOUS
<1>1. PICK b \in Asks : B[b].pc = "compact" /\ e = B[b].parent /\ e \in DOMAIN fs
  BY DEF EndsOf
<1>2. A[b].pc = "compact" /\ A[b].parent = e
  BY <1>1
<1>3. e \in 1 .. first - 1
  BY <1>2 DEF RestOf, Known
<1>4. e \in DOMAIN es
  BY <1>1, <1>3 DEF Grown
<1>5. e \in EndsOf(end, A, es)
  BY <1>2, <1>4 DEF EndsOf
<1>6. PathOf(fs, e) = PathOf(es, e) /\ PathOf(es, e) \in Seq(Written(fs))
  BY <1>4, GrownPaths
<1>7. WholeIn(A, PathOf(es, e))
  BY <1>5 DEF RestOf
<1> QED BY <1>6, <1>7, WholeStays

\* A compaction is written.
LEMMA RestCompacted ==
  ASSUME NEW A, NEW B, NEW es, NEW fs, NEW parent, NEW q, NEW first, NEW end, NEW passed,
         end \in {0} \cup DOMAIN es,
         Grown(es, fs, parent, q, first), RestOf(A, es, end, first, passed),
         NEW a \in Asks, A[a].pc = "compact", parent = A[a].parent,
         Len(q) = 1, q[1].type = "compaction",
         q[1].covers = A[a].summary \cup AsksOf(A[a].turns),
         B[a].pc = "loop", B[a].sure = A[a].sure, B[a].change = A[a].change,
         B[a].model = A[a].model,
         \A b \in Asks \ {a} : IF A[b].pc \in Ended THEN B[b] = A[b]
                                                    ELSE Disturbed(A[b], B[b], {})
  PROVE  RestOf(B, fs, first, first + 1, passed \cup A[a].cut \cup A[a].unseen)
<1> DEFINE p == PathOf(es, end)
           r == PathOf(fs, first)
           passed2 == passed \cup A[a].cut \cup A[a].unseen
<1>1. /\ first \in Nat \ {0} /\ first + Len(q) - 1 = first /\ Tree(es)
      /\ parent \in {0} \cup DOMAIN es
  BY DEF Grown
<1>2. AskedIn(fs) = AskedIn(es)
  <2>1. \A j \in 1 .. Len(q) : q[j].type # "user"
    OBVIOUS
  <2>2. AskedIn(fs) = AskedIn(es) \cup {q[i].ask : i \in {j \in 1 .. Len(q) : q[j].type = "user"}}
    BY GrownAsked
  <2> QED BY <2>1, <2>2
<1>3. /\ PathOf(es, parent) \in Seq(Written(fs)) /\ r \in Seq(Written(fs))
      /\ Joined(r, PathOf(es, parent), q, 1)
  <2>1. /\ PathOf(fs, first + Len(q) - 1) \in Seq(Written(fs))
        /\ Joined(PathOf(fs, first + Len(q) - 1), PathOf(es, parent), q, Len(q))
        /\ \A id \in {0} \cup DOMAIN es : PathOf(es, id) \in Seq(Written(fs))
    BY GrownPaths
  <2> QED BY <1>1, <2>1
<1>4. SummaryOf(r) = A[a].summary \cup AsksOf(A[a].turns)
  BY <1>3, SummaryAppended
<1>5. AskedIn(fs) \subseteq passed2 \cup SummaryOf(r)
  <2>1. AskedIn(es) \subseteq passed \cup A[a].cut \cup AsksOf(A[a].turns) \cup A[a].unseen
                              \cup A[a].summary
    BY DEF RestOf, Known
  <2> QED BY <1>2, <1>4, <2>1
<1>6. \A b \in Asks : A[b].pc = "done" => B[b] = A[b]
  BY DEF Ended
<1>7. \A b \in Asks : B[b].pc = "compact" => A[b].pc = "compact" /\ B[b].parent = A[b].parent
  BY DEF Disturbed
<1>8. parent \in EndsOf(end, A, es)
  <2>1. parent \in 1 .. first - 1
    BY DEF RestOf, Known
  <2>2. parent \in DOMAIN es
    BY <1>1, <2>1
  <2> QED BY <2>2 DEF EndsOf
<1>9. WholeIn(B, r)
  <2>1. WholeIn(A, PathOf(es, parent))
    BY <1>8 DEF RestOf
  <2>2. WholeIn(B, PathOf(es, parent))
    BY <1>3, <1>6, <2>1, WholeStays
  <2> QED BY <1>3, <2>2, WholeCompacted
<1>10. \A e \in EndsOf(first, B, fs) : WholeIn(B, PathOf(fs, e))
  <2>1. WholeIn(B, PathOf(fs, first + Len(q) - 1))
    BY <1>1, <1>9
  <2>2. \A e \in EndsOf(first + Len(q) - 1, B, fs) : WholeIn(B, PathOf(fs, e))
    <3> HIDE DEF p, r
    <3> QED BY <1>6, <1>7, <2>1, OthersWhole
  <2> QED BY <1>1, <2>2
<1>11. Known(B[a], a, r, first, first + 1, AskedIn(fs), passed2)
  <2>1. A[a].sure /\ ~A[a].change => ModelAfter(r, DefaultModel) = A[a].model
    <3> SUFFICES ASSUME A[a].sure, ~A[a].change PROVE ModelAfter(r, DefaultModel) = A[a].model
      OBVIOUS
    <3>1. parent = end /\ ModelAfter(p, DefaultModel) = A[a].model
      BY DEF RestOf, Known, Begins
    <3>2. p \in Seq(Written(fs)) /\ Joined(r, p, q, 1)
      BY <1>3, <3>1
    <3>3. /\ Len(p) \in Nat /\ Len(r) = Len(p) + 1 /\ r[Len(p) + 1].type = "compaction"
          /\ \A i \in 1 .. Len(p) : r[i] = p[i]
      BY <3>2 DEF Joined
    <3> HIDE DEF p, r
    <3>4. SubSeq(r, 1, Len(r)) = r /\ SubSeq(p, 1, Len(p)) = p
      BY <1>3, <3>2, WholePrefix
    <3>5. PICK k : k = Len(p)
      OBVIOUS
    <3>6. /\ k \in 0 .. Len(p) /\ k <= Len(r) /\ k \in 0 .. Len(r) /\ Len(r) \in 0 .. Len(r)
          /\ \A i \in k + 1 .. Len(r) : r[i].type # "model"
      BY <3>3, <3>5
    <3>7. ModelAfter(SubSeq(r, 1, Len(r)), DefaultModel) = ModelAfter(SubSeq(r, 1, k), DefaultModel)
      BY <1>3, <3>6, ForceKeeps
    <3>8. SubSeq(r, 1, k) = SubSeq(p, 1, k)
      BY <1>3, <3>2, <3>3, <3>5, <3>6, SamePrefix
    <3> QED BY <3>1, <3>4, <3>5, <3>7, <3>8
  <2> QED BY <2>1 DEF Known
<1>12. ASSUME NEW b \in Asks PROVE Known(B[b], b, r, first, first + 1, AskedIn(fs), passed2)
  <2>1. Known(A[b], b, p, end, first, AskedIn(es), passed)
    BY DEF RestOf
  <2>2. CASE b = a
    BY <1>11, <2>2
  <2>3. CASE b # a /\ A[b].pc \in Ended
    <3>1. B[b] = A[b]
      BY <2>3
    <3> HIDE DEF p, r, passed2
    <3> QED BY <2>1, <2>3, <3>1, KnownEnded
  <2>4. CASE b # a /\ A[b].pc \notin Ended
    <3>1. Disturbed(A[b], B[b], {})
      BY <2>4
    <3>2. first \in Nat /\ first + 1 \in Nat /\ first <= first + 1 /\ passed \subseteq passed2
          /\ AskedIn(fs) \subseteq AskedIn(es) \cup {}
      BY <1>1, <1>2
    <3> HIDE DEF p, r, passed2
    <3> QED BY <1>5, <2>1, <2>4, <3>1, <3>2, KnownDisturbed
  <2> QED BY <2>2, <2>3, <2>4
<1> QED BY <1>5, <1>10, <1>12 DEF RestOf

TurnRecorded(A, B, es, fs, q, first, end, passed, a, u) ==
  /\ StepsIn(B) /\ end \in {0} \cup DOMAIN es
  /\ Grown(es, fs, end, q, first) /\ RestOf(A, es, end, first, passed)
  /\ a \in Asks /\ A[a].pc \in Begins /\ A[a].pc # "compact"
  /\ IsTurn(B, a, u, q) /\ (u = 2 <=> A[a].change) /\ (u = 2 => q[1].model = A[a].model)
  /\ B[a].pc = "done" /\ B[a].sure = A[a].sure /\ B[a].model = A[a].model
  /\ B[a].response = ResponseIn([b \in {a} |-> B[a]], a)
  /\ \A b \in Asks \ {a} : IF A[b].pc \in Ended THEN B[b] = A[b]
                                                 ELSE Disturbed(A[b], B[b], {a})

\* A Turn is written.
LEMMA RestRecorded ==
  ASSUME NEW A, NEW B, NEW es, NEW fs, NEW q, NEW first, NEW end, NEW passed, NEW a, NEW u,
         TurnRecorded(A, B, es, fs, q, first, end, passed, a, u)
  PROVE  RestOf(B, fs, first + Len(q) - 1, first + Len(q), passed)
<1> DEFINE p == PathOf(es, end)
           end2 == first + Len(q) - 1
           r == PathOf(fs, end2)
<1>0. /\ StepsIn(B) /\ end \in {0} \cup DOMAIN es
      /\ Grown(es, fs, end, q, first) /\ RestOf(A, es, end, first, passed)
      /\ a \in Asks /\ A[a].pc \in Begins /\ A[a].pc # "compact"
      /\ IsTurn(B, a, u, q) /\ (u = 2 <=> A[a].change) /\ (u = 2 => q[1].model = A[a].model)
      /\ B[a].pc = "done" /\ B[a].sure = A[a].sure /\ B[a].model = A[a].model
      /\ B[a].response = ResponseIn([b \in {a} |-> B[a]], a)
  BY DEF TurnRecorded
<1>o. \A b \in Asks \ {a} : IF A[b].pc \in Ended THEN B[b] = A[b]
                                                ELSE Disturbed(A[b], B[b], {a})
  BY DEF TurnRecorded
<1>1. /\ first \in Nat \ {0} /\ Len(q) \in Nat \ {0} /\ u \in {1, 2}
  BY <1>0 DEF Grown, IsTurn
<1>2. /\ u \in 1 .. Len(q)
      /\ \A i \in 1 .. Len(q) : q[i].type = "user" => i = u
      /\ q[u].type = "user" /\ q[u].ask = a
  <2>1. q[u].type = "user" /\ q[u].ask = a
    BY <1>0 DEF IsTurn
  <2>2. u \in 1 .. Len(q) /\ \A i \in 1 .. Len(q) : q[i].type = "user" => i = u
    BY <1>0, TurnPayloads
  <2> QED BY <2>1, <2>2
<1>3. AskedIn(fs) = AskedIn(es) \cup {a}
  <2>1. {j \in 1 .. Len(q) : q[j].type = "user"} = {u}
    BY <1>2
  <2>2. AskedIn(fs) = AskedIn(es) \cup {q[i].ask : i \in {j \in 1 .. Len(q) : q[j].type = "user"}}
    BY <1>0, GrownAsked
  <2> QED BY <1>2, <2>1, <2>2
<1>4. p \in Seq(Written(fs)) /\ r \in Seq(Written(fs)) /\ Joined(r, p, q, Len(q))
  BY <1>0, GrownPaths
<1>5. \A b \in Asks : A[b].pc = "done" => B[b] = A[b]
  BY <1>0, <1>o DEF Ended, Begins
<1>6. \A b \in Asks : B[b].pc = "compact" => A[b].pc = "compact" /\ B[b].parent = A[b].parent
  BY <1>0, <1>o DEF Disturbed
<1>7. WholeIn(B, r)
  <2>1. WholeIn(A, p)
    BY <1>0 DEF RestOf, EndsOf
  <2>2. WholeIn(B, p)
    BY <1>4, <1>5, <2>1, WholeStays
  <2>3. InForce(p, Len(p)) = ModelAfter(p, DefaultModel)
    BY <1>4, WholePrefix DEF InForce
  <2>4. B[a].sure => B[a].model = IF u = 2 THEN q[1].model ELSE InForce(p, Len(p))
    <3>1. A[a].sure /\ ~A[a].change => ModelAfter(p, DefaultModel) = A[a].model
      BY <1>0 DEF RestOf, Known
    <3> HIDE DEF p
    <3> QED BY <1>0, <2>3, <3>1
  <2> HIDE DEF p, r
  <2> QED BY <1>0, <1>4, <2>2, <2>4, WholeRecorded
<1>8. \A e \in EndsOf(end2, B, fs) : WholeIn(B, PathOf(fs, e))
  BY <1>0, <1>5, <1>6, <1>7, OthersWhole
<1>9. \A seed, newSeed :
        /\ AsksOf(TurnsOf(Projected(p), seed)) \cup {a}
             \subseteq AsksOf(TurnsOf(Projected(r), newSeed))
        /\ SummaryOf(r) = SummaryOf(p)
  <2> TAKE seed, newSeed
  <2> HIDE DEF p, r
  <2> QED BY <1>0, <1>4, ReplayedMore, ZenonT(30)
<1>10. SummaryOf(r) = SummaryOf(p)
  BY <1>9
<1>11. AskedIn(fs) \ passed \subseteq AsksOf(TurnsOf(Projected(r), ModelBefore(r))) \cup SummaryOf(r)
  <2>1. AskedIn(es) \ passed \subseteq AsksOf(TurnsOf(Projected(p), ModelBefore(p))) \cup SummaryOf(p)
    BY <1>0 DEF RestOf
  <2>2. AsksOf(TurnsOf(Projected(p), ModelBefore(p))) \cup {a}
          \subseteq AsksOf(TurnsOf(Projected(r), ModelBefore(r)))
    BY <1>9
  <2> HIDE DEF p, r
  <2> QED BY <1>3, <1>10, <2>1, <2>2
<1>12. ASSUME NEW b \in Asks
       PROVE  Known(B[b], b, r, end2, first + Len(q), AskedIn(fs), passed)
  <2>1. Known(A[b], b, p, end, first, AskedIn(es), passed)
    BY <1>0 DEF RestOf
  <2>2. CASE b = a
    <3>1. /\ B[a].answer \in DOMAIN B[a].steps /\ B[a].steps[B[a].answer] = "text"
      BY <1>0 DEF StepsIn
    <3>2. B[a].pc \notin Begins
      BY <1>0 DEF Begins
    <3> HIDE DEF p, r, end2
    <3> QED BY <1>0, <2>2, <3>1, <3>2 DEF Known
  <2>3. CASE b # a /\ A[b].pc \in Ended
    <3>1. B[b] = A[b]
      BY <1>o, <2>3
    <3> HIDE DEF p, r, end2
    <3> QED BY <2>1, <2>3, <3>1, KnownEnded
  <2>4. CASE b # a /\ A[b].pc \notin Ended
    <3>1. Disturbed(A[b], B[b], {a})
      BY <1>o, <2>4
    <3>2. first \in Nat /\ first + Len(q) \in Nat /\ first <= first + Len(q)
          /\ AskedIn(fs) \subseteq AskedIn(es) \cup {a} /\ passed \subseteq passed
      BY <1>1, <1>3
    <3> HIDE DEF p, r, end2
    <3> QED BY <1>10, <2>1, <2>4, <3>1, <3>2, KnownDisturbed
  <2> QED BY <2>2, <2>3, <2>4
<1> QED BY <1>8, <1>11, <1>12 DEF RestOf

\* The Session is deleted.
LEMMA RestDeleted ==
  ASSUME NEW A, NEW B, NEW es, NEW end, NEW next \in Nat, NEW passed, NEW fs, DOMAIN fs = {},
         RestOf(A, es, end, next, passed),
         \A b \in Asks : IF A[b].pc \in Ended THEN B[b] = A[b]
                                              ELSE Disturbed(A[b], B[b], {})
  PROVE  RestOf(B, fs, 0, next, {})
<1>1. Tree(fs)
  BY DEF Tree
<1>2. PathOf(fs, 0) = <<>>
  BY <1>1, PathEquations
<1>3. AskedIn(fs) = {}
  BY DEF AskedIn
<1>4. \A e \in EndsOf(0, B, fs) : WholeIn(B, PathOf(fs, e))
  <2>1. EndsOf(0, B, fs) = {0}
    BY DEF EndsOf
  <2> QED BY <1>2, <2>1, WholeEmpty
<1>5. ASSUME NEW b \in Asks
      PROVE  Known(B[b], b, PathOf(fs, 0), 0, next, AskedIn(fs), {})
  <2>1. Known(A[b], b, PathOf(es, end), end, next, AskedIn(es), passed)
    BY DEF RestOf
  <2>2. CASE A[b].pc \in Ended
    <3>1. B[b] = A[b]
      BY <2>2
    <3> QED BY <2>1, <2>2, <3>1, KnownEnded
  <2>3. CASE A[b].pc \notin Ended
    <3>1. Disturbed(A[b], B[b], {}) /\ next <= next
      BY <2>3
    <3> QED BY <1>3, <2>1, <2>3, <3>1, KnownDisturbed
  <2> QED BY <2>2, <2>3
<1> QED BY <1>3, <1>4, <1>5 DEF RestOf

-----------------------------------------------------------------------------
(* What a reload makes of a whole Conversation                             *)

\* What Projected leaves out of p: its first `off` entries.
ProjectedFrom(p, off) ==
  /\ off \in 0 .. Len(p)
  /\ Len(Projected(p)) = Len(p) - off
  /\ \A i \in 1 .. Len(p) - off : Projected(p)[i] = p[off + i]
  /\ IF LastOf(p, "compaction") = 0 THEN off = 0 ELSE off + 1 = LastOf(p, "compaction")

\* Each Turn of a reload is as it was answered, with the model in force at its
\* Question.
LEMMA TurnReloaded ==
  ASSUME NEW A, StepsIn(A), NEW S, NEW p \in Seq(S), TurnsIn(A, p),
         NEW off, ProjectedFrom(p, off), NEW q, q = Projected(p), q \in Seq(S),
         NEW i \in 1 .. Len(q), q[i].type = "user"
  PROVE  /\ off + i \in 1 .. Len(p) /\ p[off + i] = q[i]
         /\ q[i].ask \in Asks /\ A[q[i].ask].pc = "done"
         /\ TurnAt(q, i, ModelBefore(p)) =
              [ResponseIn(A, q[i].ask) EXCEPT !.model = InForce(p, off + i)]
<1>1. /\ off \in 0 .. Len(p) /\ Len(p) \in Nat /\ Len(q) = Len(p) - off
      /\ \A j \in 1 .. Len(p) - off : q[j] = p[off + j]
      /\ IF LastOf(p, "compaction") = 0 THEN off = 0 ELSE off + 1 = LastOf(p, "compaction")
  <2>1. /\ off \in 0 .. Len(p) /\ Len(Projected(p)) = Len(p) - off
        /\ \A j \in 1 .. Len(p) - off : Projected(p)[j] = p[off + j]
        /\ IF LastOf(p, "compaction") = 0 THEN off = 0 ELSE off + 1 = LastOf(p, "compaction")
    BY Zenon DEF ProjectedFrom
  <2>2. Len(p) \in Nat
    OBVIOUS
  <2> QED BY <2>1, <2>2
<1>2. off + i \in 1 .. Len(p) /\ p[off + i] = q[i]
  BY <1>1
<1>3. TurnsIn(A, q)
  BY TurnsProjected
<1> DEFINE a == q[i].ask
           k == A[a].answer
           n == Len(A[a].steps)
<1>4. /\ a \in Asks /\ n \in Nat /\ i + n <= Len(q) /\ k \in 1 .. n
      /\ \A m \in 1 .. n : q[i + m] = StepIn(A, a, m)
  BY <1>3, ToldOf
<1>5. A[a].pc = "done"
  BY <1>3 DEF TurnsIn, ToldIn
<1>6. TurnAt(q, i, ModelBefore(p)) =
        [ResponseIn(A, a) EXCEPT !.model = ModelAfter(SubSeq(q, 1, i + k), ModelBefore(p))]
  BY <1>3, TurnRead
<1> HIDE DEF a, k, n
<1>7. ModelAfter(SubSeq(q, 1, i + k), ModelBefore(p)) = InForce(p, off + i)
  <2>1. PICK m : m = i + k
    OBVIOUS
  <2>2. m \in 0 .. Len(p) - off /\ m \in 0 .. Len(q) /\ i \in 0 .. m /\ i \in 0 .. Len(p) - off
    BY <1>1, <1>4, <2>1
  <2>3. \A j \in i + 1 .. m : q[j].type # "model"
    <3> SUFFICES ASSUME NEW j \in i + 1 .. m PROVE q[j].type # "model"
      OBVIOUS
    <3>1. j - i \in 1 .. n /\ i + (j - i) = j
      BY <1>4, <2>1
    <3>2. q[j] = StepIn(A, a, j - i)
      BY <1>4, <3>1
    <3> QED BY <3>2, StepTypes
  <2>4. ModelAfter(SubSeq(q, 1, m), ModelBefore(p)) = ModelAfter(SubSeq(q, 1, i), ModelBefore(p))
    BY <2>2, <2>3, ForceKeeps
  <2>5. ModelAfter(SubSeq(q, 1, i), ModelBefore(p)) = InForce(p, off + i)
    BY <1>1, <2>2, ForceProjected
  <2> QED BY <2>1, <2>4, <2>5
<1> QED BY <1>2, <1>4, <1>5, <1>6, <1>7 DEF a

LEMMA Projection ==
  ASSUME NEW S, NEW p \in Seq(S)
  PROVE  Projected(p) \in Seq(S) /\ \E off : ProjectedFrom(p, off)
<1>1. PICK off \in 0 .. Len(p) :
        /\ Projected(p) \in Seq(S)
        /\ Len(Projected(p)) = Len(p) - off
        /\ \A i \in 1 .. Len(p) - off : Projected(p)[i] = p[off + i]
        /\ \A i \in off + 2 .. Len(p) : p[i].type # "compaction"
        /\ IF LastOf(p, "compaction") = 0
           THEN off = 0 /\ \A i \in 1 .. Len(p) : p[i].type # "compaction"
           ELSE /\ off + 1 = LastOf(p, "compaction") /\ off + 1 <= Len(p)
                /\ p[off + 1].type = "compaction"
  BY ProjectionOf
<1>2. ProjectedFrom(p, off)
  BY <1>1 DEF ProjectedFrom
<1> QED BY <1>1, <1>2

Loaded(p) == TurnsOf(Projected(p), ModelBefore(p))

LEMMA Reloads ==
  ASSUME NEW A, StepsIn(A), NEW S, NEW p \in Seq(S), WholeIn(A, p),
         NEW turn \in ToSet(Loaded(p))
  PROVE  \E i \in 1 .. Len(p) :
           /\ p[i].type = "user" /\ p[i].ask \in Asks /\ A[p[i].ask].pc = "done"
           /\ turn = [ResponseIn(A, p[i].ask) EXCEPT !.model = InForce(p, i)]
           /\ A[p[i].ask].sure => InForce(p, i) = A[p[i].ask].model
<1>1. PICK off : ProjectedFrom(p, off)
  BY Projection
<1>2. PICK q \in Seq(S) : q = Projected(p)
  BY Projection
<1>3. PICK t : t = Loaded(p)
  OBVIOUS
<1>4. TurnsUpTo(q, ModelBefore(p), t, Len(q))
  BY <1>2, <1>3, TurnsRead DEF Loaded
<1>5. PICK k \in DOMAIN t : turn = t[k]
  BY <1>3 DEF ToSet
<1>6. PICK i \in 1 .. Len(q) : q[i].type = "user" /\ turn = TurnAt(q, i, ModelBefore(p))
  BY <1>4, <1>5 DEF TurnsUpTo
<1>7. TurnsIn(A, p) /\ ModelsIn(A, p)
  BY DEF WholeIn
<1>8. /\ off + i \in 1 .. Len(p) /\ p[off + i] = q[i]
      /\ q[i].ask \in Asks /\ A[q[i].ask].pc = "done"
      /\ TurnAt(q, i, ModelBefore(p)) =
           [ResponseIn(A, q[i].ask) EXCEPT !.model = InForce(p, off + i)]
  BY <1>1, <1>2, <1>6, <1>7, TurnReloaded
<1>9. A[p[off + i].ask].sure => InForce(p, off + i) = A[p[off + i].ask].model
  BY <1>6, <1>7, <1>8 DEF ModelsIn
<1> QED BY <1>6, <1>8, <1>9

\* What an ask takes from the Turns it loads.
LEMMA LoadedEnds ==
  ASSUME NEW A, StepsIn(A), NEW S, NEW p \in Seq(S), WholeIn(A, p)
  PROVE  /\ \E T : Loaded(p) \in Seq(T)
         /\ p = <<>> => Loaded(p) = <<>>
         /\ Loaded(p) # <<>> => Loaded(p)[Len(Loaded(p))].model = ModelAfter(p, DefaultModel)
<1>1. PICK off : ProjectedFrom(p, off)
  BY Projection
<1>2. PICK q \in Seq(S) : q = Projected(p)
  BY Projection
<1>3. PICK t : t = Loaded(p)
  OBVIOUS
<1>4. TurnsUpTo(q, ModelBefore(p), t, Len(q))
  BY <1>2, <1>3, TurnsRead DEF Loaded
<1>5. \E T : t \in Seq(T)
  BY <1>4 DEF TurnsUpTo
<1>6. /\ off \in 0 .. Len(p) /\ Len(p) \in Nat /\ Len(q) = Len(p) - off
      /\ \A j \in 1 .. Len(p) - off : q[j] = p[off + j]
  BY <1>1, <1>2 DEF ProjectedFrom
<1>7. p = <<>> => t = <<>>
  <2> SUFFICES ASSUME p = <<>>, t # <<>> PROVE FALSE
    OBVIOUS
  <2>1. \E i : i \in 1 .. Len(q)
    BY <1>4 DEF TurnsUpTo
  <2> QED BY <1>6, <2>1
<1>8. ASSUME t # <<>> PROVE t[Len(t)].model = ModelAfter(p, DefaultModel)
  <2>1. PICK i \in 1 .. Len(q) :
          /\ q[i].type = "user" /\ t[Len(t)] = TurnAt(q, i, ModelBefore(p))
          /\ \A j \in i + 1 .. Len(q) : q[j].type # "user"
    BY <1>4, <1>8 DEF TurnsUpTo
  <2>2. TurnsIn(A, p)
    BY DEF WholeIn
  <2>3. /\ off + i \in 1 .. Len(p) /\ p[off + i] = q[i]
        /\ TurnAt(q, i, ModelBefore(p)) =
             [ResponseIn(A, q[i].ask) EXCEPT !.model = InForce(p, off + i)]
    BY <1>1, <1>2, <2>1, <2>2, TurnReloaded
  <2>4. TurnAt(q, i, ModelBefore(p)).model = InForce(p, off + i)
    BY <2>3 DEF ResponseIn
  <2>5. ASSUME NEW j \in off + i + 1 .. Len(p) PROVE p[j].type # "model"
    <3> SUFFICES ASSUME p[j].type = "model" PROVE FALSE
      OBVIOUS
    <3>1. j + 1 \in 1 .. Len(p) /\ p[j + 1].type = "user"
      BY <1>6, <2>2, <2>3 DEF TurnsIn
    <3>2. PICK m : m = j + 1 - off
      OBVIOUS
    <3>3. m \in i + 1 .. Len(q) /\ off + m = j + 1 /\ m \in 1 .. Len(p) - off
      BY <1>6, <2>3, <3>1, <3>2, SMTT(20)
    <3> QED BY <1>6, <2>1, <3>1, <3>3
  <2>6. InForce(p, off + i) = ModelAfter(SubSeq(p, 1, Len(p)), DefaultModel)
    <3>1. PICK m : m = off + i
      OBVIOUS
    <3>2. m \in 0 .. Len(p) /\ Len(p) \in 0 .. Len(p) /\ \A j \in m + 1 .. Len(p) : p[j].type # "model"
      BY <1>6, <2>3, <2>5, <3>1
    <3>3. ModelAfter(SubSeq(p, 1, Len(p)), DefaultModel) = ModelAfter(SubSeq(p, 1, m), DefaultModel)
      BY <3>2, ForceKeeps
    <3> QED BY <3>1, <3>3 DEF InForce
  <2> QED BY <2>1, <2>4, <2>6, WholePrefix
<1> QED BY <1>3, <1>5, <1>7, <1>8

-----------------------------------------------------------------------------
(* The steps                                                               *)

\* What holds of the asks and of the path in every state of the invariant.
LEMMA Standing ==
  ASSUME TreeInv, Rest
  PROVE  /\ DOMAIN ask = Asks /\ StepsIn(ask) /\ Tree(entries)
         /\ leaf \in {0} \cup DOMAIN entries /\ leaf \in 0 .. nextId - 1
         /\ nextId \in Nat \ {0} /\ DOMAIN entries \subseteq 1 .. nextId - 1
         /\ PathOf(entries, leaf) \in Seq(Written(entries))
         /\ WholeIn(ask, PathOf(entries, leaf))
         /\ RestOf(ask, entries, leaf, nextId, passedOver)
         /\ \A a \in Asks : Known(ask[a], a, PathOf(entries, leaf), leaf, nextId,
                                  AskedIn(entries), passedOver)
<1>1. /\ DOMAIN ask = Asks /\ leaf \in {0} \cup DOMAIN entries
      /\ nextId \in Nat \ {0} /\ DOMAIN entries \subseteq 1 .. nextId - 1
  BY DEF TreeInv, TypeOK
<1>2. Tree(entries)
  BY TreeIsTree
<1>3. RestOf(ask, entries, leaf, nextId, passedOver)
  BY DEF Rest
<1>4. \A a \in Asks : Known(ask[a], a, PathOf(entries, leaf), leaf, nextId,
                            AskedIn(entries), passedOver)
  BY <1>3 DEF RestOf
<1>5. StepsIn(ask)
  BY <1>4 DEF TreeInv, TypeOK, Known, StepsIn
<1>6. PathOf(entries, leaf) \in Seq(Written(entries))
  BY <1>1, <1>2, PathIsSeq
<1>7. WholeIn(ask, PathOf(entries, leaf))
  BY <1>3 DEF RestOf, EndsOf
<1>8. leaf \in 0 .. nextId - 1
  BY <1>1
<1> QED BY <1>1, <1>2, <1>3, <1>4, <1>5, <1>6, <1>7, <1>8

LEMMA LocalStep ==
  ASSUME TreeInv, Rest, NEW a \in Asks, ask[a].pc # "done", NEW x,
         Known(x, a, PathOf(entries, leaf), leaf, nextId, AskedIn(entries), passedOver),
         x.pc = "compact" => x.parent = leaf,
         ask' = [ask EXCEPT ![a] = x], UNCHANGED <<entries, leaf, nextId, passedOver>>
  PROVE  Rest'
<1>1. RestOf([ask EXCEPT ![a] = x], entries, leaf, nextId, passedOver)
  BY Standing, RestLocal
<1>2. RestOf(ask', entries', leaf', nextId', passedOver')
  BY <1>1
<1> QED BY <1>2 DEF Rest

LEMMA KnownNothing ==
  ASSUME NEW x, NEW a, x.pc \notin Begins, x.pc # "done",
         NEW p, NEW end, NEW next, NEW asked, NEW passed
  PROVE  Known(x, a, p, end, next, asked, passed)
BY DEF Known, Begins

\* Steps after which an ask has nothing to know.
LEMMA FindRest ==
  ASSUME TreeInv, Rest, NEW a \in Asks, Find(a) \/ NoAnswer(a) \/ Fail(a)
  PROVE  Rest'
<1>1. DOMAIN ask = Asks /\ DOMAIN ask[a] = DOMAIN NewAsk
  BY DEF TreeInv, TypeOK
<1>2. PICK pc \in {"load", "create", "failed"} : ask' = [ask EXCEPT ![a].pc = pc]
  BY DEF Find, NoAnswer, Fail
<1>3. ask[a].pc # "done" /\ UNCHANGED <<entries, leaf, nextId, passedOver>>
  BY DEF Find, NoAnswer, Fail, Settled, InFlight, Ended, Local, sessionVars
<1>4. PICK x : x = [ask[a] EXCEPT !.pc = pc]
  OBVIOUS
<1>5. x.pc = pc
  BY <1>1, <1>4 DEF NewAsk
<1>6. ask' = [ask EXCEPT ![a] = x]
  BY <1>1, <1>2, <1>4
<1>7. Known(x, a, PathOf(entries, leaf), leaf, nextId, AskedIn(entries), passedOver)
  BY <1>5, KnownNothing DEF Begins
<1> QED BY <1>3, <1>5, <1>6, <1>7, LocalStep

LEMMA Greater ==
  ASSUME NEW m \in Int, NEW n \in Int
  PROVE  Max({m, n}) \in {m, n} /\ Max({m, n}) >= m /\ Max({m, n}) >= n
<1>1. \E x \in {m, n} : \A y \in {m, n} : x >= y
  <2>1. CASE m >= n
    BY <2>1
  <2>2. CASE ~(m >= n)
    BY <2>2
  <2> QED BY <2>1, <2>2
<1>2. Max({m, n}) \in {m, n} /\ \A y \in {m, n} : Max({m, n}) >= y
  BY <1>1 DEF Max
<1> QED BY <1>2

\* What an ask starts from: what the window cuts off is not forgotten.
LEMMA BegunAs ==
  ASSUME NEW T, NEW turns \in Seq(T), NEW model, NEW sure, NEW x, x = Begun(turns, model, sure)
  PROVE  /\ x.pc = "summary" /\ x.sure = sure /\ x.unseen = {}
         /\ turns = <<>> => x.turns = <<>>
         /\ AsksOf(turns) \subseteq x.cut \cup AsksOf(x.turns)
         /\ ~x.change => x.model = IF turns = <<>> THEN DefaultModel ELSE turns[Len(turns)].model
<1> DEFINE current == IF turns = <<>> THEN DefaultModel ELSE turns[Len(turns)].model
           resolved == IF model = "same" THEN current ELSE model
           first == Max({1, Len(turns) - Window + 1})
           cut == {turns[i].ask : i \in 1 .. first - 1}
<1>1. x = [NewAsk EXCEPT !.pc = "summary", !.model = resolved, !.change = resolved # current,
                         !.turns = SubSeq(turns, first, Len(turns)),
                         !.cut = cut, !.sure = sure]
  BY DEF Begun
<1>2. first \in Nat \ {0}
  <2>1. Window \in Int /\ Len(turns) \in Int
    BY ReflectionAssumption
  <2>2. PICK n : n = Len(turns) - Window + 1
    OBVIOUS
  <2>3. n \in Int /\ 1 \in Int
    BY <2>1, <2>2
  <2>4. Max({1, n}) \in {1, n} /\ Max({1, n}) >= 1
    BY <2>3, Greater
  <2>5. first = Max({1, n})
    BY <2>2
  <2> HIDE DEF first
  <2> QED BY <2>3, <2>4, <2>5
<1> HIDE DEF current, resolved, first
<1>3. /\ x.pc = "summary" /\ x.sure = sure /\ x.unseen = {} /\ x.model = resolved
      /\ x.change = (resolved # current) /\ x.turns = SubSeq(turns, first, Len(turns))
      /\ x.cut = cut
  BY <1>1, ZenonT(30) DEF NewAsk
<1>4. turns = <<>> => x.turns = <<>>
  BY <1>2, <1>3
<1>5. ASSUME NEW k \in DOMAIN turns PROVE turns[k].ask \in x.cut \cup AsksOf(x.turns)
  <2>1. CASE k < first
    <3>1. k \in 1 .. first - 1
      BY <1>2, <2>1
    <3> QED BY <1>3, <3>1
  <2>2. CASE k >= first
    <3>1. PICK m : m = k - first + 1
      OBVIOUS
    <3>2. m \in DOMAIN x.turns /\ x.turns[m] = turns[k]
      BY <1>2, <1>3, <2>2, <3>1
    <3> QED BY <3>2 DEF AsksOf
  <2> QED BY <1>2, <2>1, <2>2
<1>6. AsksOf(turns) \subseteq x.cut \cup AsksOf(x.turns)
  BY <1>5 DEF AsksOf
<1> QED BY <1>3, <1>4, <1>6 DEF current

\* An ask of an empty Session, or of what was loaded of it.
LEMMA BegunRest ==
  ASSUME TreeInv, Rest, NEW a \in Asks, ask[a].pc # "done", NEW turns, NEW model, NEW sure,
         \/ turns = <<>> /\ sure = (leaf = 0)
         \/ turns = LoadTurns /\ sure = (leaf = 0 \/ LoadTurns # <<>>),
         ask' = [ask EXCEPT ![a] = Begun(turns, model, sure)],
         UNCHANGED <<entries, leaf, nextId, passedOver>>
  PROVE  Rest'
<1> DEFINE p == PathOf(entries, leaf)
<1>1. /\ StepsIn(ask) /\ p \in Seq(Written(entries)) /\ WholeIn(ask, p) /\ Tree(entries)
      /\ RestOf(ask, entries, leaf, nextId, passedOver)
  BY Standing
<1>2. LoadTurns = Loaded(p)
  BY PathIsPathOf DEF LoadTurns, Loaded
<1>3. AskedIn(entries) \subseteq passedOver \cup AsksOf(LoadTurns) \cup SummaryOf(p)
  BY <1>1, <1>2 DEF RestOf, Loaded
<1>4. leaf = 0 => p = <<>>
  BY <1>1, PathEquations
<1>5. ModelAfter(<<>>, DefaultModel) = DefaultModel
  <2>1. <<>> \in Seq({}) /\ \A i \in 1 .. Len(<<>>) : <<>>[i].type # "model"
    OBVIOUS
  <2>2. LastOf(<<>>, "model") = 0
    BY <2>1, LastNone
  <2> QED BY <2>2 DEF ModelAfter
<1>6. /\ \E T : LoadTurns \in Seq(T)
      /\ p = <<>> => LoadTurns = <<>>
      /\ LoadTurns # <<>> => LoadTurns[Len(LoadTurns)].model = ModelAfter(p, DefaultModel)
  BY <1>1, <1>2, LoadedEnds
<1> HIDE DEF p
<1>7. PICK x : x = Begun(turns, model, sure)
  OBVIOUS
<1>8. PICK T : turns \in Seq(T)
  <2>1. <<>> \in Seq({})
    OBVIOUS
  <2> QED BY <1>6, <2>1
<1>9. /\ x.pc = "summary" /\ x.sure = sure /\ x.unseen = {}
      /\ turns = <<>> => x.turns = <<>>
      /\ AsksOf(turns) \subseteq x.cut \cup AsksOf(x.turns)
      /\ ~x.change => x.model = IF turns = <<>> THEN DefaultModel ELSE turns[Len(turns)].model
  BY <1>7, <1>8, BegunAs
<1>10. x.sure /\ ~x.change => ModelAfter(p, DefaultModel) = x.model
  BY <1>4, <1>5, <1>6, <1>9
<1>11. x.turns # <<>> => AskedIn(entries) \subseteq
         passedOver \cup x.cut \cup AsksOf(x.turns) \cup x.unseen \cup SummaryOf(p)
  BY <1>3, <1>9
<1>12. Known(x, a, p, leaf, nextId, AskedIn(entries), passedOver)
  BY <1>9, <1>10, <1>11 DEF Known
<1> QED BY <1>7, <1>9, <1>12, LocalStep DEF p

LEMMA LoadRest ==
  ASSUME TreeInv, Rest, NEW a \in Asks, Create(a) \/ Load(a)
  PROVE  Rest'
<1>1. CASE Create(a)
  <2>1. PICK model : ask' = [ask EXCEPT ![a] = Begun(<<>>, model, leaf = 0)]
    BY <1>1 DEF Create
  <2>2. PICK turns, sure : turns = <<>> /\ sure = (leaf = 0)
    OBVIOUS
  <2>3. ask' = [ask EXCEPT ![a] = Begun(turns, model, sure)]
    BY <2>1, <2>2
  <2>4. ask[a].pc # "done" /\ UNCHANGED <<entries, leaf, nextId, passedOver>>
    BY <1>1 DEF Create, CreateSession
  <2> QED BY <2>2, <2>3, <2>4, BegunRest
<1>2. CASE Load(a)
  <2>1. PICK model : ask' = [ask EXCEPT ![a] = Begun(LoadTurns, model, leaf = 0 \/ LoadTurns # <<>>)]
    BY <1>2 DEF Load
  <2>2. PICK turns, sure : turns = LoadTurns /\ sure = (leaf = 0 \/ LoadTurns # <<>>)
    OBVIOUS
  <2>3. ask' = [ask EXCEPT ![a] = Begun(turns, model, sure)]
    BY <2>1, <2>2
  <2>4. ask[a].pc # "done" /\ UNCHANGED <<entries, leaf, nextId, passedOver>>
    BY <1>2 DEF Load, Local, sessionVars
  <2> QED BY <2>2, <2>3, <2>4, BegunRest
<1> QED BY <1>1, <1>2

LEMMA ReadRest ==
  ASSUME TreeInv, Rest, NEW a \in Asks, ReadSummary(a) \/ ReadLeaf(a)
  PROVE  Rest'
<1> DEFINE p == PathOf(entries, leaf)
<1>1. /\ DOMAIN ask = Asks /\ DOMAIN ask[a] = DOMAIN NewAsk
      /\ leaf \in 0 .. nextId - 1 /\ nextId \in Nat \ {0}
      /\ Known(ask[a], a, p, leaf, nextId, AskedIn(entries), passedOver)
  BY Standing DEF TreeInv, TypeOK
<1>2. ask[a].pc # "done" /\ UNCHANGED <<entries, leaf, nextId, passedOver>>
  BY DEF ReadSummary, ReadLeaf, Local, sessionVars
<1>3. CASE ReadSummary(a)
  <2>1. PICK pc \in {"loop", "summarise"} :
          /\ pc = "summarise" => ask[a].turns # <<>>
          /\ ask' = [ask EXCEPT ![a].pc = pc, ![a].summary = LatestSummary]
    BY <1>3 DEF ReadSummary
  <2>2. PICK x : x = [ask[a] EXCEPT !.pc = pc, !.summary = LatestSummary]
    OBVIOUS
  <2>3. ask' = [ask EXCEPT ![a] = x]
    BY <1>1, <2>1, <2>2
  <2>4. /\ x.pc = pc /\ x.summary = LatestSummary /\ x.turns = ask[a].turns
        /\ x.cut = ask[a].cut /\ x.unseen = ask[a].unseen /\ x.sure = ask[a].sure
        /\ x.change = ask[a].change /\ x.model = ask[a].model
    BY <1>1, <2>2 DEF NewAsk
  <2>5. LatestSummary = SummaryOf(p)
    BY PathIsPathOf DEF LatestSummary, SummaryOf
  <2>6. ask[a].pc = "summary"
    BY <1>3 DEF ReadSummary
  <2> HIDE DEF p
  <2>7. x.sure /\ ~x.change => ModelAfter(p, DefaultModel) = x.model
    BY <1>1, <2>4, <2>6 DEF Known, Begins
  <2>8. x.pc = "summarise" => AskedIn(entries) \subseteq
          passedOver \cup x.cut \cup AsksOf(x.turns) \cup x.unseen \cup x.summary
    BY <1>1, <2>1, <2>4, <2>5, <2>6 DEF Known
  <2>9. Known(x, a, p, leaf, nextId, AskedIn(entries), passedOver)
    BY <2>4, <2>7, <2>8 DEF Known
  <2>10. x.pc # "compact"
    BY <2>4
  <2> QED BY <1>2, <2>3, <2>9, <2>10, LocalStep DEF p
<1>4. CASE ReadLeaf(a)
  <2>1. PICK pc : pc = IF leaf = 0 THEN "loop" ELSE "compact"
    OBVIOUS
  <2>2. PICK x : x = [ask[a] EXCEPT !.pc = pc, !.parent = leaf]
    OBVIOUS
  <2>3. ask' = [ask EXCEPT ![a] = x]
    BY <1>1, <1>4, <2>1, <2>2 DEF ReadLeaf
  <2>4. /\ x.pc = pc /\ x.parent = leaf /\ x.summary = ask[a].summary /\ x.turns = ask[a].turns
        /\ x.cut = ask[a].cut /\ x.unseen = ask[a].unseen /\ x.sure = ask[a].sure
        /\ x.change = ask[a].change /\ x.model = ask[a].model
    BY <1>1, <2>2 DEF NewAsk
  <2>5. ask[a].pc = "summarise"
    BY <1>4 DEF ReadLeaf
  <2> HIDE DEF p
  <2>6. x.sure /\ ~x.change => ModelAfter(p, DefaultModel) = x.model
    BY <1>1, <2>4, <2>5 DEF Known, Begins
  <2>7. AskedIn(entries) \subseteq
          passedOver \cup x.cut \cup AsksOf(x.turns) \cup x.unseen \cup x.summary
    BY <1>1, <2>4, <2>5 DEF Known
  <2>8. x.pc = "compact" => x.parent \in 1 .. nextId - 1
    BY <1>1, <2>1, <2>4
  <2>9. x.pc \in {"loop", "compact"}
    BY <2>1, <2>4
  <2>10. Known(x, a, p, leaf, nextId, AskedIn(entries), passedOver)
    BY <2>4, <2>6, <2>7, <2>8, <2>9 DEF Known
  <2> QED BY <1>2, <2>3, <2>4, <2>10, LocalStep DEF p
<1> QED BY <1>3, <1>4

\* A run of the loop: what it comes back with.
LEMMA RanKnown ==
  ASSUME TreeInv, Rest, NEW a \in Asks, ask[a].pc \in {"loop", "ran"},
         NEW pc \in {"ran", "settled"}, NEW steps, NEW answer \in DOMAIN steps,
         NEW x, x.pc = pc, x.steps = steps, x.answer = answer,
         x.sure = ask[a].sure, x.change = ask[a].change, x.model = ask[a].model,
         ask' = [ask EXCEPT ![a] = x], UNCHANGED <<entries, leaf, nextId, passedOver>>
  PROVE  Rest'
<1> DEFINE p == PathOf(entries, leaf)
<1>1. Known(ask[a], a, p, leaf, nextId, AskedIn(entries), passedOver)
  BY Standing
<1>2. x.sure /\ ~x.change => ModelAfter(p, DefaultModel) = x.model
  BY <1>1 DEF Known, Begins
<1> HIDE DEF p
<1>3. Known(x, a, p, leaf, nextId, AskedIn(entries), passedOver)
  BY <1>2 DEF Known
<1>4. ask[a].pc # "done" /\ x.pc # "compact"
  OBVIOUS
<1> QED BY <1>3, <1>4, LocalStep DEF p

LEMMA RunRest ==
  ASSUME TreeInv, Rest, NEW a \in Asks, Run(a) \/ CorrectEmpty(a) \/ CorrectToolless(a)
  PROVE  Rest'
<1>1. /\ DOMAIN ask = Asks /\ DOMAIN ask[a] = DOMAIN NewAsk /\ TypeOK
      /\ ask[a].steps \in Seq(Replies \cup Results)
      /\ Known(ask[a], a, PathOf(entries, leaf), leaf, nextId, AskedIn(entries), passedOver)
  BY Standing DEF TreeInv, TypeOK
<1>2. ask[a].pc \in {"loop", "ran"} /\ UNCHANGED <<entries, leaf, nextId, passedOver>>
  BY DEF Run, CorrectEmpty, CorrectToolless, Local, sessionVars
<1>3. \A run \in scenario.runs : run \in Seq(Replies \cup Results) /\ Len(run) \in Nat \ {0}
  BY <1>1, RunsTyped
<1>4. CASE Run(a)
  <2>1. PICK run \in scenario.runs :
          ask' = [ask EXCEPT ![a].pc = "ran", ![a].steps = run, ![a].answer = Len(run),
                             ![a].loops = 1]
    BY <1>4 DEF Run
  <2>2. PICK x : x = [ask[a] EXCEPT !.pc = "ran", !.steps = run, !.answer = Len(run), !.loops = 1]
    OBVIOUS
  <2>3. ask' = [ask EXCEPT ![a] = x]
    BY <1>1, <2>1, <2>2
  <2>4. /\ x.pc = "ran" /\ x.steps = run /\ x.answer = Len(run)
        /\ x.sure = ask[a].sure /\ x.change = ask[a].change /\ x.model = ask[a].model
    BY <1>1, <2>2 DEF NewAsk
  <2>5. Len(run) \in DOMAIN run
    BY <1>3
  <2> QED BY <1>2, <2>3, <2>4, <2>5, RanKnown
<1>5. CASE CorrectEmpty(a)
  <2>1. PICK run \in scenario.runs :
          LET steps == ask[a].steps \o run
          IN  ask' = [ask EXCEPT ![a].steps = steps, ![a].answer = Len(steps),
                                 ![a].retried = TRUE, ![a].loops = @ + 1]
    BY <1>5 DEF CorrectEmpty
  <2>2. PICK steps : steps = ask[a].steps \o run
    OBVIOUS
  <2>3. PICK x : x = [ask[a] EXCEPT !.steps = steps, !.answer = Len(steps), !.retried = TRUE,
                                    !.loops = ask[a].loops + 1]
    OBVIOUS
  <2>4. ask' = [ask EXCEPT ![a] = x]
    BY <1>1, <2>1, <2>2, <2>3
  <2>5. ask[a].pc = "ran"
    BY <1>5 DEF CorrectEmpty
  <2>6. /\ x.pc = "ran" /\ x.steps = steps /\ x.answer = Len(steps)
        /\ x.sure = ask[a].sure /\ x.change = ask[a].change /\ x.model = ask[a].model
    BY <1>1, <2>3, <2>5 DEF NewAsk
  <2>7. Len(steps) \in DOMAIN steps
    BY <1>1, <1>3, <2>2
  <2> QED BY <1>2, <2>4, <2>6, <2>7, RanKnown
<1>6. CASE CorrectToolless(a)
  <2>1. PICK run \in scenario.runs :
          LET steps == ask[a].steps \o run
          IN  ask' = [ask EXCEPT ![a].pc = "settled", ![a].steps = steps,
                                 ![a].answer = IF run[Len(run)] = "text" THEN Len(steps) ELSE @,
                                 ![a].loops = @ + 1]
    BY <1>6 DEF CorrectToolless
  <2>2. PICK steps : steps = ask[a].steps \o run
    OBVIOUS
  <2>3. PICK answer : answer = IF run[Len(run)] = "text" THEN Len(steps) ELSE ask[a].answer
    OBVIOUS
  <2>4. PICK x : x = [ask[a] EXCEPT !.pc = "settled", !.steps = steps, !.answer = answer,
                                    !.loops = ask[a].loops + 1]
    OBVIOUS
  <2>5. ask' = [ask EXCEPT ![a] = x]
    BY <1>1, <2>1, <2>2, <2>3, <2>4
  <2>6. /\ x.pc = "settled" /\ x.steps = steps /\ x.answer = answer
        /\ x.sure = ask[a].sure /\ x.change = ask[a].change /\ x.model = ask[a].model
    BY <1>1, <2>4 DEF NewAsk
  <2>7. answer \in DOMAIN steps
    <3>1. Len(steps) \in DOMAIN steps /\ DOMAIN ask[a].steps \subseteq DOMAIN steps
      BY <1>1, <1>3, <2>2
    <3>2. ask[a].answer \in DOMAIN ask[a].steps
      BY <1>1, <1>6 DEF Known, CorrectToolless
    <3> QED BY <2>3, <3>1, <3>2
  <2> QED BY <1>2, <2>5, <2>6, <2>7, RanKnown
<1> QED BY <1>4, <1>5, <1>6

-----------------------------------------------------------------------------
(* The writes                                                              *)

LEMMA Grows ==
  ASSUME TreeInv, TreeInv', NEW parent, NEW q, Len(q) \in Nat \ {0}, AppendChain(parent, q)
  PROVE  /\ Grown(entries, entries', parent, q, nextId)
         /\ leaf' = nextId + Len(q) - 1 /\ nextId' = nextId + Len(q)
<1>1. /\ nextId \in Nat \ {0} /\ DOMAIN entries \subseteq 1 .. nextId - 1
      /\ parent \in {0} \cup DOMAIN entries /\ entries' = Chained(parent, q)
      /\ leaf' = nextId + Len(q) - 1 /\ nextId' = nextId + Len(q)
  BY DEF TreeInv, TypeOK, AppendChain
<1>2. Tree(entries) /\ Tree(entries')
  <2>1. Tree(entries)
    BY TreeIsTree
  <2>2. Tree(entries)'
    BY TreeIsTree, PTL
  <2> QED BY <2>1, <2>2
<1>3. DOMAIN entries' = DOMAIN entries \cup (nextId .. nextId + Len(q) - 1)
  BY <1>1 DEF Chained
<1>4. \A i \in DOMAIN entries : entries'[i] = entries[i]
  BY <1>1 DEF Chained
<1>5. ASSUME NEW i \in 1 .. Len(q)
      PROVE  entries'[nextId + i - 1] =
               [parent |-> IF i = 1 THEN parent ELSE nextId + i - 2, payload |-> q[i]]
  <2>1. PICK id : id = nextId + i - 1
    OBVIOUS
  <2>2. /\ id \in DOMAIN entries \cup (nextId .. nextId + Len(q) - 1) /\ ~(id < nextId)
        /\ (id = nextId <=> i = 1) /\ id - 1 = nextId + i - 2 /\ id - nextId + 1 = i
    BY <1>1, <2>1
  <2>3. entries'[id] = [parent |-> IF id = nextId THEN parent ELSE id - 1,
                        payload |-> q[id - nextId + 1]]
    BY <1>1, <2>2 DEF Chained
  <2> QED BY <2>1, <2>2, <2>3
<1> QED BY <1>1, <1>2, <1>3, <1>4, <1>5 DEF Grown

LEMMA Concatenated ==
  ASSUME NEW S, NEW q \in Seq(S), NEW r \in Seq(S)
  PROVE  /\ Len(q \o r) = Len(q) + Len(r) /\ Len(q) \in Nat /\ Len(r) \in Nat
         /\ \A k \in 1 .. Len(q) : (q \o r)[k] = q[k]
         /\ \A k \in 1 .. Len(r) : (q \o r)[Len(q) + k] = r[k]
OBVIOUS

\* What an ask appends is a Turn.
LEMMA PayloadsAre ==
  ASSUME TreeInv, NEW a \in Asks, NEW u, u = IF ask[a].change THEN 2 ELSE 1
  PROVE  /\ IsTurn(ask, a, u, Payloads(a))
         /\ u = 2 => Payloads(a)[1].model = ask[a].model
<1> DEFINE change == IF ask[a].change THEN <<ModelEntry(ask[a].model)>> ELSE <<>>
           said == [i \in DOMAIN ask[a].steps |-> StepEntry(a, i)]
           S == {change[i] : i \in DOMAIN change} \cup {UserEntry(a)}
                  \cup {said[i] : i \in DOMAIN said}
           n == Len(ask[a].steps)
<1>1. DOMAIN ask[a].steps = 1 .. n /\ n \in Nat
  BY DEF TreeInv, TypeOK
<1>2. said \in Seq(S) /\ Len(said) = n /\ \A k \in 1 .. n : said[k] = StepEntry(a, k)
  <2>1. DOMAIN said = 1 .. n
    BY <1>1
  <2>2. \A i \in 1 .. n : said[i] \in S
    BY <2>1
  <2>3. \A k \in 1 .. n : said[k] = StepEntry(a, k)
    BY <1>1
  <2>4. said = [i \in 1 .. n |-> said[i]]
    BY <1>1
  <2> HIDE DEF S, said, n
  <2> QED BY <1>1, <2>1, <2>2, <2>3, <2>4
<1>3. change \in Seq(S) /\ Len(change) = u - 1 /\ u \in {1, 2}
  <2>1. CASE ask[a].change
    BY <2>1
  <2>2. CASE ~ask[a].change
    BY <2>2
  <2> QED BY <2>1, <2>2
<1>4. u = 2 => change[1] = ModelEntry(ask[a].model)
  OBVIOUS
<1>5. UserEntry(a) \in S
  OBVIOUS
<1>6. Payloads(a) = change \o <<UserEntry(a)>> \o said
  BY DEF Payloads
<1> HIDE DEF change, said, S, n
<1>7. /\ Len(Payloads(a)) = u + n
      /\ Payloads(a)[u] = UserEntry(a)
      /\ \A k \in 1 .. n : Payloads(a)[u + k] = said[k]
      /\ u = 2 => Payloads(a)[1] = change[1]
  <2>1. PICK m \in S : m = UserEntry(a)
    BY <1>5
  <2>2. PICK c \in Seq(S) : c = change /\ Len(c) = u - 1
    BY <1>3
  <2>3. PICK q : q = c \o <<m>>
    OBVIOUS
  <2>4. q \in Seq(S) /\ Len(q) = u /\ q[u] = m
    BY <1>3, <2>2, <2>3
  <2>5. u = 2 => q[1] = c[1]
    BY <2>2, <2>3
  <2>6. PICK r \in Seq(S) : r = said /\ Len(r) = n
    BY <1>2
  <2>7. PICK all : all = q \o r
    OBVIOUS
  <2>8. Payloads(a) = all
    BY <1>6, <2>1, <2>2, <2>3, <2>6, <2>7
  <2>9. /\ Len(q \o r) = Len(q) + Len(r)
        /\ \A k \in 1 .. Len(q) : (q \o r)[k] = q[k]
        /\ \A k \in 1 .. Len(r) : (q \o r)[Len(q) + k] = r[k]
    <3>1. q \in Seq(S)
      BY <2>4
    <3> QED BY ONLY <3>1, r \in Seq(S), Concatenated
  <2>10. /\ Len(all) = u + n
         /\ \A k \in 1 .. u : all[k] = q[k]
         /\ \A k \in 1 .. n : all[u + k] = r[k]
    BY <2>4, <2>6, <2>7, <2>9
  <2> QED BY <1>2, <1>3, <2>1, <2>2, <2>4, <2>5, <2>6, <2>8, <2>10
<1>8. \A k : StepEntry(a, k) = StepIn(ask, a, k)
  BY DEF StepEntry, StepIn, IsAnswer
<1>9. /\ UserEntry(a).type = "user" /\ UserEntry(a).ask = a
      /\ ModelEntry(ask[a].model).type = "model" /\ ModelEntry(ask[a].model).model = ask[a].model
  BY DEF UserEntry, ModelEntry
<1>10. Len(Payloads(a)) = u + Len(ask[a].steps)
  BY <1>7 DEF n
<1>11. \A k \in DOMAIN ask[a].steps : Payloads(a)[u + k] = StepIn(ask, a, k)
  BY <1>1, <1>2, <1>7, <1>8
<1> QED BY <1>3, <1>4, <1>7, <1>9, <1>10, <1>11 DEF IsTurn

LEMMA CompactRest ==
  ASSUME TreeInv, TreeInv', Rest, NEW a \in Asks, Compact(a)
  PROVE  Rest'
<1> DEFINE q == <<CompactionEntry(Summary(a))>>
<1>1. /\ DOMAIN ask = Asks /\ \A b \in Asks : DOMAIN ask[b] = DOMAIN NewAsk
  BY DEF TreeInv, TypeOK
<1>2. /\ Len(q) = 1 /\ Len(q) \in Nat \ {0} /\ q[1].type = "compaction"
      /\ q[1].covers = ask[a].summary \cup AsksOf(ask[a].turns)
  BY DEF CompactionEntry, Summary, Turns, AsksOf
<1>3. AppendChain(ask[a].parent, q) /\ ask[a].pc = "compact"
  BY DEF Compact
<1>4. PICK parent : parent = ask[a].parent
  OBVIOUS
<1> HIDE DEF q
<1>5. /\ Grown(entries, entries', parent, q, nextId)
      /\ leaf' = nextId + Len(q) - 1 /\ nextId' = nextId + Len(q)
  BY <1>2, <1>3, <1>4, Grows
<1>6. leaf' = nextId /\ nextId' = nextId + 1
  BY <1>2, <1>5 DEF TreeInv, TypeOK
<1>7. ask' = [Others(a) EXCEPT ![a].pc = "loop", ![a].summary = Summary(a), ![a].turns = <<>>]
  BY DEF Compact
<1>8. ASSUME NEW b \in Asks
      PROVE  /\ DOMAIN Others(a) = Asks
             /\ b = a \/ ask[b].pc \in Ended => Others(a)[b] = ask[b]
             /\ b # a /\ ask[b].pc \notin Ended => Others(a)[b] = [ask[b] EXCEPT !.sure = FALSE]
  BY DEF Others, InFlight
<1>9. /\ ask'[a].pc = "loop" /\ ask'[a].sure = ask[a].sure /\ ask'[a].change = ask[a].change
      /\ ask'[a].model = ask[a].model
  BY <1>1, <1>7, <1>8 DEF NewAsk
<1>10. ASSUME NEW b \in Asks \ {a}
       PROVE  IF ask[b].pc \in Ended THEN ask'[b] = ask[b] ELSE Disturbed(ask[b], ask'[b], {})
  <2>1. ask'[b] = Others(a)[b]
    BY <1>7, <1>8, <1>10
  <2>2. CASE ask[b].pc \in Ended
    BY <1>8, <1>10, <2>1, <2>2
  <2>3. CASE ask[b].pc \notin Ended
    <3>1. ask'[b] = [ask[b] EXCEPT !.sure = FALSE]
      BY <1>8, <1>10, <2>1, <2>3
    <3>2. DOMAIN ask[b] = DOMAIN NewAsk
      BY <1>1, <1>10
    <3> QED BY <2>3, <3>1, <3>2 DEF Disturbed, NewAsk
  <2> QED BY <2>2, <2>3
<1>11. RestOf(ask', entries', nextId, nextId + 1, passedOver \cup ask[a].cut \cup ask[a].unseen)
  <2>1. PICK A, B, es, fs, end, first, passed :
          /\ A = ask /\ B = ask' /\ es = entries /\ fs = entries' /\ end = leaf
          /\ first = nextId /\ passed = passedOver
    OBVIOUS
  <2>2. end \in {0} \cup DOMAIN es /\ Grown(es, fs, parent, q, first) /\ RestOf(A, es, end, first, passed)
    BY <1>5, <2>1, Standing
  <2>3. /\ A[a].pc = "compact" /\ parent = A[a].parent
        /\ q[1].covers = A[a].summary \cup AsksOf(A[a].turns)
    BY <1>2, <1>3, <1>4, <2>1
  <2>4. /\ B[a].pc = "loop" /\ B[a].sure = A[a].sure /\ B[a].change = A[a].change
        /\ B[a].model = A[a].model
    BY <1>9, <2>1
  <2>5. \A b \in Asks \ {a} : IF A[b].pc \in Ended THEN B[b] = A[b]
                                                   ELSE Disturbed(A[b], B[b], {})
    BY <1>10, <2>1
  <2>6. RestOf(B, fs, first, first + 1, passed \cup A[a].cut \cup A[a].unseen)
    BY <1>2, <2>2, <2>3, <2>4, <2>5, RestCompacted
  <2> QED BY <2>1, <2>6
<1>12. passedOver' = passedOver \cup ask[a].cut \cup ask[a].unseen
  BY DEF Compact
<1> QED BY <1>6, <1>11, <1>12 DEF Rest

LEMMA RecordRest ==
  ASSUME TreeInv, TreeInv', Rest, NEW a \in Asks, Record(a)
  PROVE  Rest'
<1>1. /\ DOMAIN ask = Asks /\ \A b \in Asks : DOMAIN ask[b] = DOMAIN NewAsk
  BY DEF TreeInv, TypeOK
<1>2. /\ ask[a].pc \in {"ran", "settled"} /\ ask[a].steps[ask[a].answer] = "text"
      /\ AppendChain(leaf, Payloads(a)) /\ passedOver' = passedOver
      /\ ask' = [Overtaken(a) EXCEPT ![a] = [ask[a] EXCEPT !.pc = "done", !.response = Response(a)]]
  BY DEF Record, Settled, Reply
<1>3. PICK q : q = Payloads(a)
  OBVIOUS
<1>4. Len(q) \in Nat \ {0}
  BY <1>3, PayloadsSome
<1>5. /\ Grown(entries, entries', leaf, q, nextId)
      /\ leaf' = nextId + Len(q) - 1 /\ nextId' = nextId + Len(q)
  <2>1. PICK parent : parent = leaf
    OBVIOUS
  <2>2. AppendChain(parent, q)
    BY <1>2, <1>3, <2>1
  <2> QED BY <1>4, <2>1, <2>2, Grows
<1>6. DOMAIN Overtaken(a) = Asks
  BY DEF Overtaken
<1>7. ask'[a] = [ask[a] EXCEPT !.pc = "done", !.response = Response(a)]
  BY <1>2, <1>6
<1>8. /\ ask'[a].pc = "done" /\ ask'[a].response = Response(a) /\ ask'[a].sure = ask[a].sure
      /\ ask'[a].model = ask[a].model /\ ask'[a].steps = ask[a].steps
      /\ ask'[a].answer = ask[a].answer
  BY <1>1, <1>7 DEF NewAsk
<1>9. ask'[a].response = ResponseIn([b \in {a} |-> ask'[a]], a)
  BY <1>8 DEF Response, ResponseIn
<1>10. ASSUME NEW b \in Asks \ {a}
       PROVE  IF ask[b].pc \in Ended THEN ask'[b] = ask[b] ELSE Disturbed(ask[b], ask'[b], {a})
  <2>1. ask'[b] = Overtaken(a)[b]
    BY <1>2, <1>6, <1>10
  <2>2. CASE ask[b].pc \in Ended
    BY <1>10, <2>1, <2>2 DEF Overtaken, InFlight
  <2>3. CASE ask[b].pc \notin Ended
    <3>1. ask'[b] = [ask[b] EXCEPT !.sure = FALSE, !.unseen = ask[b].unseen \cup {a}]
      BY <1>10, <2>1, <2>3 DEF Overtaken, InFlight
    <3>2. DOMAIN ask[b] = DOMAIN NewAsk
      BY <1>1, <1>10
    <3> QED BY <2>3, <3>1, <3>2 DEF Disturbed, NewAsk
  <2> QED BY <2>2, <2>3
<1>11. PICK u : u = IF ask[a].change THEN 2 ELSE 1
  OBVIOUS
<1>12. IsTurn(ask, a, u, q) /\ (u = 2 => q[1].model = ask[a].model) /\ (u = 2 <=> ask[a].change)
  BY <1>3, <1>11, PayloadsAre
<1>13. IsTurn(ask', a, u, q)
  <2>1. \A k : StepIn(ask', a, k) = StepIn(ask, a, k)
    BY <1>8 DEF StepIn
  <2> QED BY <1>8, <1>12, <2>1 DEF IsTurn
<1>14. StepsIn(ask')
  <2>1. \A b \in Asks : ask'[b].steps \in Seq(Replies \cup Results)
    BY DEF TreeInv, TypeOK
  <2>2. ASSUME NEW b \in Asks, ask'[b].pc = "done"
        PROVE  ask'[b].answer \in DOMAIN ask'[b].steps /\ ask'[b].steps[ask'[b].answer] = "text"
    <3>1. CASE b = a
      <4>1. ask[a].answer \in DOMAIN ask[a].steps
        BY <1>2, Standing DEF Known
      <4> QED BY <1>2, <1>8, <3>1, <4>1
    <3>2. CASE b # a
      <4>1. ask'[b] = ask[b] /\ ask[b].pc = "done"
        BY <1>10, <2>2, <3>2 DEF Ended, Disturbed
      <4> QED BY <4>1, Standing DEF StepsIn
    <3> QED BY <3>1, <3>2
  <2> QED BY <2>1, <2>2 DEF StepsIn
<1>15. TurnRecorded(ask, ask', entries, entries', q, nextId, leaf, passedOver, a, u)
  <2>1. ask[a].pc \in Begins /\ ask[a].pc # "compact"
    BY <1>2 DEF Begins
  <2>2. leaf \in {0} \cup DOMAIN entries /\ RestOf(ask, entries, leaf, nextId, passedOver)
    BY Standing
  <2> QED BY <1>5, <1>8, <1>9, <1>10, <1>12, <1>13, <1>14, <2>1, <2>2 DEF TurnRecorded
<1>16. RestOf(ask', entries', nextId + Len(q) - 1, nextId + Len(q), passedOver)
  BY <1>15, RestRecorded
<1> QED BY <1>2, <1>5, <1>16 DEF Rest

LEMMA DeleteRest ==
  ASSUME TreeInv, Rest, Delete
  PROVE  Rest'
<1>1. /\ DOMAIN ask = Asks /\ \A b \in Asks : DOMAIN ask[b] = DOMAIN NewAsk
  BY DEF TreeInv, TypeOK
<1>2. /\ leaf' = 0 /\ DOMAIN entries' = {} /\ nextId' = nextId /\ passedOver' = {}
      /\ ask' = [a \in Asks |-> IF InFlight(a) THEN [ask[a] EXCEPT !.sure = FALSE] ELSE ask[a]]
  BY DEF Delete, DeleteSession
<1>3. ASSUME NEW b \in Asks
      PROVE  IF ask[b].pc \in Ended THEN ask'[b] = ask[b] ELSE Disturbed(ask[b], ask'[b], {})
  <2>1. CASE ask[b].pc \in Ended
    BY <1>2, <2>1 DEF InFlight
  <2>2. CASE ask[b].pc \notin Ended
    <3>1. ask'[b] = [ask[b] EXCEPT !.sure = FALSE]
      BY <1>2, <2>2 DEF InFlight
    <3>2. DOMAIN ask[b] = DOMAIN NewAsk
      BY <1>1
    <3> QED BY <2>2, <3>1, <3>2 DEF Disturbed, NewAsk
  <2> QED BY <2>1, <2>2
<1>4. RestOf(ask, entries, leaf, nextId, passedOver) /\ nextId \in Nat
  BY Standing
<1>5. RestOf(ask', entries', 0, nextId, {})
  BY <1>2, <1>3, <1>4, RestDeleted
<1> QED BY <1>2, <1>5 DEF Rest

LEMMA InitRest == Init => Rest
<1> SUFFICES ASSUME Init PROVE Rest
  OBVIOUS
<1>1. TreeInv
  BY InitTree
<1>2. leaf = 0 /\ DOMAIN entries = {} /\ passedOver = {} /\ \A a \in Asks : ask[a] = NewAsk
  BY DEF Init, SessionInit
<1>3. NewAsk.pc = "new"
  BY DEF NewAsk
<1>4. PathOf(entries, 0) = <<>>
  BY <1>1, TreeIsTree, PathEquations
<1>5. AskedIn(entries) = {}
  BY <1>2 DEF AskedIn
<1>6. \A a \in Asks : Known(ask[a], a, PathOf(entries, leaf), leaf, nextId,
                            AskedIn(entries), passedOver)
  BY <1>2, <1>3, KnownNothing DEF Begins
<1>7. EndsOf(leaf, ask, entries) = {0}
  BY <1>2 DEF EndsOf
<1>8. \A e \in EndsOf(leaf, ask, entries) : WholeIn(ask, PathOf(entries, e))
  BY <1>4, <1>7, WholeEmpty
<1> QED BY <1>5, <1>6, <1>8 DEF Rest, RestOf

LEMMA StepRest == TreeInv /\ TreeInv' /\ Rest /\ [Next]_vars => Rest'
<1> SUFFICES ASSUME TreeInv, TreeInv', Rest, [Next]_vars PROVE Rest'
  OBVIOUS
<1>1. CASE UNCHANGED vars
  BY <1>1 DEF vars, sessionVars, Rest
<1>2. ASSUME NEW a \in Asks, Find(a) \/ NoAnswer(a) \/ Fail(a) PROVE Rest'
  BY <1>2, FindRest
<1>3. ASSUME NEW a \in Asks, Create(a) \/ Load(a) PROVE Rest'
  BY <1>3, LoadRest
<1>4. ASSUME NEW a \in Asks, ReadSummary(a) \/ ReadLeaf(a) PROVE Rest'
  BY <1>4, ReadRest
<1>5. ASSUME NEW a \in Asks, Run(a) \/ CorrectEmpty(a) \/ CorrectToolless(a) PROVE Rest'
  BY <1>5, RunRest
<1>6. ASSUME NEW a \in Asks, Compact(a) PROVE Rest'
  BY <1>6, CompactRest
<1>7. ASSUME NEW a \in Asks, Record(a) PROVE Rest'
  BY <1>7, RecordRest
<1>8. CASE Delete
  BY <1>8, DeleteRest
<1> QED BY <1>1, <1>2, <1>3, <1>4, <1>5, <1>6, <1>7, <1>8 DEF Next

\* The inductive invariant: the tree is whole, every path an append can go
\* onto is made of whole Turns, and every ask under way knows of them what its
\* own writes will rely on.
THEOREM Invariance == Spec => []IInv
<1>1. Init => IInv
  BY InitTree, InitRest, RestIsRest
<1>2. IInv /\ [Next]_vars => IInv'
  <2>1. IInv => TreeInv /\ Rest
    BY RestIsRest
  <2>2. TreeInv /\ [Next]_vars => TreeInv'
    BY StepTree
  <2>3. (TreeInv /\ Rest => IInv)'
    <3>1. TreeInv /\ Rest => IInv
      BY RestIsRest
    <3> QED BY <3>1, PTL
  <2> QED BY <2>1, <2>2, <2>3, StepRest
<1> QED BY <1>1, <1>2, PTL DEF Spec

-----------------------------------------------------------------------------
(* What follows of every Conversation                                      *)

\* reflect.rs:1896: of each Turn of a Session one reply is marked as its
\* Answer, also where a corrective turn was rejected and whatever asks,
\* compactions and deletions interleave.
THEOREM EachTurnHasOneAnswer == Spec => []OneAnswer
<1>1. ASSUME TreeInv, Rest PROVE OneAnswer
  <2> DEFINE p == PathOf(entries, leaf)
  <2>1. StepsIn(ask) /\ p \in Seq(Written(entries)) /\ TurnsIn(ask, p)
    BY <1>1, Standing DEF WholeIn
  <2>2. OneAnswerIn(p)
    BY <2>1, WholeHasOneAnswer
  <2>3. PathTo(leaf) = p
    BY PathIsPathOf
  <2> HIDE DEF p
  <2> QED BY <2>2, <2>3 DEF OneAnswer, OneAnswerIn
<1>2. IInv => OneAnswer
  BY <1>1, RestIsRest
<1> QED BY <1>2, Invariance, PTL

\* A Turn that a reload shows, and the ask it is of.
LEMMA ReloadedAs ==
  ASSUME TreeInv, Rest, NEW a \in Asks, NEW turn \in Reloaded(a)
  PROVE  /\ \E m : turn = [ask[a].response EXCEPT !.model = m]
         /\ ask[a].sure => turn.model = ask[a].model
         /\ ask[a].response = ResponseIn(ask, a)
<1> DEFINE p == PathOf(entries, leaf)
<1>1. StepsIn(ask) /\ p \in Seq(Written(entries)) /\ WholeIn(ask, p)
  BY Standing
<1>2. LoadTurns = Loaded(p)
  BY PathIsPathOf DEF LoadTurns, Loaded
<1>3. turn \in ToSet(Loaded(p)) /\ turn.ask = a
  BY <1>2 DEF Reloaded
<1> HIDE DEF p
<1>4. PICK i \in 1 .. Len(p) :
        /\ p[i].type = "user" /\ p[i].ask \in Asks /\ ask[p[i].ask].pc = "done"
        /\ turn = [ResponseIn(ask, p[i].ask) EXCEPT !.model = InForce(p, i)]
        /\ ask[p[i].ask].sure => InForce(p, i) = ask[p[i].ask].model
  BY <1>1, <1>3, Reloads
<1>5. p[i].ask = a /\ turn.model = InForce(p, i)
  BY <1>3, <1>4 DEF ResponseIn
<1>6. ask[a].response = ResponseIn(ask, a)
  <2>1. ask[a].response = ResponseIn([b \in {a} |-> ask[a]], a)
    BY <1>4, <1>5, Standing DEF Known
  <2> QED BY <2>1 DEF ResponseIn
<1> QED BY <1>4, <1>5, <1>6

\* reflect.rs:1660: the Turn a reload derives from the tree says what the
\* reader was told when it was asked, whatever corrective turns, other asks
\* and compactions have put around it.
THEOREM ReloadsSayWhatWasTold == Spec => []LiveEqualsReload
<1>1. ASSUME TreeInv, Rest, NEW a \in Asks, NEW turn \in Reloaded(a)
      PROVE  [turn EXCEPT !.model = "any"] = [ask[a].response EXCEPT !.model = "any"]
  <2>1. PICK m : turn = [ask[a].response EXCEPT !.model = m]
    BY <1>1, ReloadedAs
  <2>2. ask[a].response = ResponseIn(ask, a)
    BY <1>1, ReloadedAs
  <2>3. PICK x : x = ask[a].response
    OBVIOUS
  <2>4. turn = [x EXCEPT !.model = m]
    BY <2>1, <2>3
  <2> QED BY <2>3, <2>4
<1>2. IInv => LiveEqualsReload
  BY <1>1, RestIsRest DEF LiveEqualsReload
<1> QED BY <1>2, Invariance, PTL

\* sessions.rs:1215: a Turn is read back with the model that answered it,
\* across any compactions that hide the change; of asks that overlapped no
\* other write and had a Turn in sight when they were loaded.
THEOREM ReloadsNameTheModel == Spec => []ModelAsRun
<1>1. ASSUME TreeInv, Rest PROVE ModelAsRun
  BY <1>1, ReloadedAs DEF ModelAsRun
<1>2. IInv => ModelAsRun
  BY <1>1, RestIsRest
<1> QED BY <1>2, Invariance, PTL

\* sessions.rs:706: no Question is both out of the reload and out of the
\* latest summary, through any number of compactions and failures, but those
\* a compaction passed over.
THEOREM NothingIsForgotten == Spec => []Remembered
<1>1. IInv => Remembered
  BY DEF IInv
<1> QED BY <1>1, Invariance, PTL

=============================================================================

-------------------------- MODULE BackupsProofs --------------------------
(***************************************************************************)
(* Backup, Restore and Merge beside sync(), for any Devices, streams, rows *)
(* and bounds: proofs about Backups and the SyncStreams it extends.        *)
(*                                                                         *)
(* The invariant IInv is in Backups.  In the order of this module: the     *)
(* lists of statements and how they are laid out; the types; what a move   *)
(* of the Server's log leaves true; each step of sync(); each step of a    *)
(* job; the theorems.                                                      *)
(*                                                                         *)
(* What the state is compared with is also defined over any table, row and *)
(* list of statements (the operators that end in In), so that most of the  *)
(* lemmas are about data and speak of no state.                            *)
(***************************************************************************)
EXTENDS Backups, FiniteSetTheorems, SequenceTheorems, NaturalsInduction,
        WellFoundedInduction, TLAPS

-----------------------------------------------------------------------------
(* Rows and tables.                                                        *)

\* What is held under an id is a row.
LEMMA HeldRow ==
  ASSUME NEW t \in Table, NEW id \in Held(t)
  PROVE  /\ id \in Ids /\ t[id] \in Row /\ t[id] # NoRow
         /\ t[id].seq \in Nat /\ t[id].upd \in Nat
  BY DEF Held, Table, Maybe, Row

\* A table without rows is a table.
LEMMA EmptyTableIsTable == EmptyTable \in Table /\ Held(EmptyTable) = {}
  BY DEF EmptyTable, Table, Maybe, Held

\* A part of a table, by id.
LEMMA OnlyIsTable ==
  ASSUME NEW t \in Table, NEW ids
  PROVE  /\ Only(t, ids) \in Table
         /\ Held(Only(t, ids)) = Held(t) \cap ids
         /\ \A id \in Held(t) \cap ids : Only(t, ids)[id] = t[id]
         /\ \A id \in Ids \ ids : Only(t, ids)[id] = NoRow
  BY DEF Only, Held, Table, Maybe

\* The Cursor a page leads to: the floor or the sequence of one of its rows,
\* and at least every one of them.
LEMMA LastIsNat ==
  ASSUME NEW t \in Table, NEW floor \in Nat, NEW n \in Last(t, floor)
  PROVE  n \in Nat /\ (n = floor \/ \E id \in Held(t) : n = t[id].seq)
         /\ \A id \in Held(t) : t[id].seq <= n
  BY HeldRow DEF Last

\* A row as a statement stores it is a row.
LEMMA StoredIsRow ==
  ASSUME NEW row \in Row, NEW seq \in Nat
  PROVE  Stored(row, seq) \in Row /\ Stored(row, seq).seq = seq
  BY DEF Stored, Row

\* There are finitely many ids.
LEMMA CountIsNat ==
  ASSUME NEW S \in SUBSET Ids
  PROVE  IsFiniteSet(S) /\ Cardinality(S) \in Nat
  BY StreamsAssumption, FS_Subset, FS_CardinalityType

-----------------------------------------------------------------------------
(* Sequences.                                                              *)

\* What is left of a list when its first element is taken.
LEMMA TailAt ==
  ASSUME NEW W, NEW t \in Seq(W), t # <<>>
  PROVE  /\ Tail(t) \in Seq(W)
         /\ 1 \in DOMAIN t /\ Head(t) = t[1] /\ Head(t) \in W
         /\ \A k \in DOMAIN Tail(t) : k \in Nat \ {0} /\ k + 1 \in DOMAIN t /\ Tail(t)[k] = t[k + 1]
         /\ \A k \in DOMAIN t : k \in Nat \ {0} /\ (k > 1 => k - 1 \in DOMAIN Tail(t) /\ Tail(t)[k - 1] = t[k])
<1>1. /\ Tail(t) \in Seq(W) /\ Len(t) \in Nat /\ Len(t) # 0 /\ DOMAIN t = 1 .. Len(t)
      /\ Len(Tail(t)) = Len(t) - 1 /\ DOMAIN Tail(t) = 1 .. Len(t) - 1
      /\ \A k \in 1 .. Len(t) - 1 : Tail(t)[k] = t[k + 1]
  BY HeadTailProperties, EmptySeq, LenProperties
<1>2. \A k \in DOMAIN t : t[k] \in W
  BY ElementOfSeq
<1>. QED BY <1>1, <1>2

\* Two lists put together: where the elements of c are in s and in t.
Joined(c, s, t) ==
  /\ Len(s) \in Nat /\ Len(t) \in Nat /\ DOMAIN s = 1 .. Len(s) /\ DOMAIN t = 1 .. Len(t)
  /\ Len(c) = Len(s) + Len(t)
  /\ \A k \in DOMAIN s : k \in DOMAIN c /\ c[k] = s[k]
  /\ \A k \in DOMAIN t : Len(s) + k \in DOMAIN c /\ c[Len(s) + k] = t[k]
  /\ \A k \in DOMAIN c : k \in DOMAIN s \/ (k > Len(s) /\ k - Len(s) \in DOMAIN t)

\* A concatenation lays its two lists one after the other.
LEMMA ConcatAt ==
  ASSUME NEW W, NEW s \in Seq(W), NEW t \in Seq(W)
  PROVE  s \o t \in Seq(W) /\ Joined(s \o t, s, t)
<1>1. /\ s \o t \in Seq(W) /\ Len(s \o t) = Len(s) + Len(t)
      /\ \A k \in 1 .. Len(s) + Len(t) : (s \o t)[k] = IF k <= Len(s) THEN s[k] ELSE t[k - Len(s)]
  BY ConcatProperties
<1>2. /\ Len(s) \in Nat /\ Len(t) \in Nat /\ DOMAIN s = 1 .. Len(s) /\ DOMAIN t = 1 .. Len(t)
      /\ DOMAIN (s \o t) = 1 .. Len(s) + Len(t)
  BY <1>1, LenProperties
<1>. QED BY <1>1, <1>2 DEF Joined

\* A finite set, as a list.
LEMMA SetAsSeq ==
  ASSUME NEW S, IsFiniteSet(S)
  PROVE  /\ Seqs!SetToSeq(S) \in Seq(S)
         /\ \A x \in S : \E k \in DOMAIN Seqs!SetToSeq(S) : Seqs!SetToSeq(S)[k] = x
         /\ S = {} => Seqs!SetToSeq(S) = <<>>
<1>. DEFINE n == Cardinality(S)
            f == Seqs!SetToSeq(S)
            Good(g) == g \in [1 .. n -> S] /\ IsInjective(g)
<1>1. n \in Nat /\ \E g \in Bijection(1 .. n, S) : TRUE
  BY FS_CardinalityType DEF ExistsBijection
<1>2. PICK g : Good(g)
  BY <1>1 DEF Bijection, Injection, IsInjective
<1>3. Good(f)
  <2>1. f = CHOOSE h \in [1 .. n -> S] : IsInjective(h)
    BY DEF Seqs!SetToSeq, Seqs!IsInjective, IsInjective, Seqs!Cardinality, Cardinality, Seqs!IsFiniteSet, IsFiniteSet
  <2>. QED BY <1>2, <2>1
<1>4. f \in Injection(1 .. n, S)
  BY <1>3 DEF Injection, IsInjective
<1>5. IsFiniteSet(1 .. n) /\ Cardinality(1 .. n) = n
  BY <1>1, FS_Interval
<1>6. f \in Surjection(1 .. n, S)
  BY <1>4, <1>5, FS_Injection
<1>7. f \in Seq(S) /\ DOMAIN f = 1 .. n
  BY <1>1, <1>3
<1>8. S = {} => f = <<>>
  <2>. SUFFICES ASSUME S = {} PROVE f = <<>> OBVIOUS
  <2>1. n = 0 BY FS_EmptySet
  <2>. QED BY <1>7, <2>1
<1>. QED
  BY <1>6, <1>7, <1>8 DEF Surjection

\* A set of naturals has a least element.
LEMMA Smallest ==
  ASSUME NEW S \in SUBSET Nat, S # {}
  PROVE  \E x \in S : \A y \in S : x <= y
<1>1. IsWellFoundedOn(OpToRel(<, Nat), Nat)
  BY NatLessThanWellFounded
<1>2. PICK x \in S : \A y \in S : ~ (<<y, x>> \in OpToRel(<, Nat))
  BY <1>1, WFMin
<1>3. \A y \in S : y < x => <<y, x>> \in OpToRel(<, Nat)
  BY DEF OpToRel
<1>4. \A y \in S : ~(y < x)
  BY <1>2, <1>3, Zenon
<1>. QED BY <1>4

\* A set that holds 0 and each successor holds every natural.
LEMMA Induction ==
  ASSUME NEW S, 0 \in S, \A n \in Nat : n \in S => n + 1 \in S
  PROVE  Nat \subseteq S
<1>. SUFFICES ASSUME Nat \ S # {} PROVE FALSE
  OBVIOUS
<1>1. PICK x \in Nat \ S : \A y \in Nat \ S : x <= y
  BY Smallest
<1>2. x # 0 /\ x - 1 \in Nat BY <1>1
<1>3. x - 1 \in S BY <1>1, <1>2
<1>. QED BY <1>1, <1>2, <1>3

\* Where each part of a flattened list is: flat is the parts up to n, one after
\* another, and part i begins after at[i].
Laid(flat, parts, n, at) ==
  /\ \A i \in 1 .. n : \A k \in DOMAIN parts[i] :
       at[i] + k \in DOMAIN flat /\ flat[at[i] + k] = parts[i][k]
  /\ \A m \in DOMAIN flat : \E i \in 1 .. n : m - at[i] \in DOMAIN parts[i]

\* One part more.
LEMMA LaidFurther ==
  ASSUME NEW W, NEW parts \in Seq(Seq(W)), NEW n \in Nat, n + 1 \in 1 .. Len(parts),
         NEW flat \in Seq(W), NEW at \in [1 .. n -> Nat], Laid(flat, parts, n, at)
  PROVE  \E b \in [1 .. n + 1 -> Nat] : Laid(flat \o parts[n + 1], parts, n + 1, b)
<1>. DEFINE last == parts[n + 1]
            b == [i \in 1 .. n + 1 |-> IF i = n + 1 THEN Len(flat) ELSE at[i]]
            more == flat \o last
<1>1. last \in Seq(W)
  BY ElementOfSeq
<1>. HIDE DEF last
<1>2. /\ more \in Seq(W) /\ Len(flat) \in Nat /\ Len(last) \in Nat
      /\ DOMAIN flat = 1 .. Len(flat) /\ DOMAIN last = 1 .. Len(last)
      /\ \A k \in DOMAIN flat : k \in DOMAIN more /\ more[k] = flat[k]
      /\ \A k \in DOMAIN last : Len(flat) + k \in DOMAIN more /\ more[Len(flat) + k] = last[k]
      /\ \A k \in DOMAIN more : \/ k \in DOMAIN flat
                                \/ k > Len(flat) /\ k - Len(flat) \in DOMAIN last
  <2>1. more \in Seq(W) /\ Joined(more, flat, last)
    BY <1>1, ConcatAt
  <2>. HIDE DEF more
  <2>. QED BY <2>1 DEF Joined
<1>3. b \in [1 .. n + 1 -> Nat] /\ b[n + 1] = Len(flat) /\ \A i \in 1 .. n : b[i] = at[i] /\ i \in 1 .. n + 1
  BY <1>2
<1>. HIDE DEF b, more
<1>4. ASSUME NEW i \in 1 .. n + 1, NEW k \in DOMAIN parts[i]
      PROVE  b[i] + k \in DOMAIN more /\ more[b[i] + k] = parts[i][k]
  <2>1. CASE i = n + 1
    BY <1>2, <1>3, <1>4, <2>1 DEF last
  <2>2. CASE i # n + 1
    <3>1. i \in 1 .. n BY <2>2
    <3>2. at[i] + k \in DOMAIN flat /\ flat[at[i] + k] = parts[i][k]
      BY <1>4, <3>1 DEF Laid
    <3>. QED BY <1>2, <1>3, <3>1, <3>2
  <2>. QED BY <2>1, <2>2
<1>5. ASSUME NEW m \in DOMAIN more
      PROVE  \E i \in 1 .. n + 1 : m - b[i] \in DOMAIN parts[i]
  <2>1. CASE m \in DOMAIN flat
    <3>1. PICK i \in 1 .. n : m - at[i] \in DOMAIN parts[i]
      BY <2>1 DEF Laid
    <3>. QED BY <1>3, <3>1
  <2>2. CASE m - Len(flat) \in DOMAIN last
    <3>1. m - b[n + 1] \in DOMAIN parts[n + 1] BY <1>3, <2>2 DEF last
    <3>2. n + 1 \in 1 .. n + 1 OBVIOUS
    <3>. QED BY <3>1, <3>2
  <2>. QED BY <1>2, <2>1, <2>2
<1>6. Laid(more, parts, n + 1, b)
  BY <1>4, <1>5 DEF Laid
<1>. QED BY <1>3, <1>6 DEF more, last

\* The lists that FlattenSeq makes on its way: the first n parts, joined.
Joins(h, parts, n) ==
  h = [i \in 1 .. n |-> IF i = 1 THEN parts[i] ELSE h[i - 1] \o parts[i]]

\* Joining one more of the lists.
LEMMA JoinsMore ==
  ASSUME NEW W, NEW parts \in Seq(Seq(W)), NEW n \in Nat, n + 1 <= Len(parts),
         NEW h \in [1 .. n -> Seq(W)], Joins(h, parts, n)
  PROVE  \E g \in [1 .. n + 1 -> Seq(W)] : Joins(g, parts, n + 1)
<1>. DEFINE next == IF n = 0 THEN parts[1] ELSE h[n] \o parts[n + 1]
            g == [i \in 1 .. n + 1 |-> IF i = n + 1 THEN next ELSE h[i]]
<1>1. n + 1 \in DOMAIN parts /\ parts[n + 1] \in Seq(W)
  BY LenProperties, ElementOfSeq
<1>2. next \in Seq(W)
  <2>1. CASE n = 0 BY <1>1, <2>1
  <2>2. CASE n # 0
    <3>1. n \in 1 .. n /\ h[n] \in Seq(W) BY <2>2
    <3>. QED BY <1>1, <2>2, <3>1, ConcatAt
  <2>. QED BY <2>1, <2>2
<1>. HIDE DEF next
<1>3. /\ g \in [1 .. n + 1 -> Seq(W)] /\ g[n + 1] = next
      /\ \A i \in 1 .. n : g[i] = h[i] /\ i \in 1 .. n + 1
  BY <1>2
<1>4. \A i \in 1 .. n : h[i] = IF i = 1 THEN parts[i] ELSE h[i - 1] \o parts[i]
  BY DEF Joins
<1>. HIDE DEF g
<1>5. ASSUME NEW i \in 1 .. n + 1
      PROVE  g[i] = IF i = 1 THEN parts[i] ELSE g[i - 1] \o parts[i]
  <2>1. CASE i = n + 1
    <3>1. CASE n = 0 BY <1>3, <2>1, <3>1 DEF next
    <3>2. CASE n # 0
      <4>1. i # 1 /\ i - 1 = n /\ n \in 1 .. n BY <2>1, <3>2
      <4>2. g[n] = h[n] BY <1>3, <4>1
      <4>. QED BY <1>3, <2>1, <3>2, <4>1, <4>2 DEF next
    <3>. QED BY <3>1, <3>2
  <2>2. CASE i # n + 1
    <3>1. i \in 1 .. n /\ (i # 1 => i - 1 \in 1 .. n) BY <2>2
    <3>. QED BY <1>3, <1>4, <3>1
  <2>. QED BY <2>1, <2>2
<1>6. Joins(g, parts, n + 1)
  BY <1>3, <1>5 DEF Joins
<1>. QED BY <1>3, <1>6

\* Any list of lists can be joined.
LEMMA JoinsExist ==
  ASSUME NEW W, NEW parts \in Seq(Seq(W))
  PROVE  \E h \in [1 .. Len(parts) -> Seq(W)] : Joins(h, parts, Len(parts))
<1>. DEFINE Some(n) == \E h \in [1 .. n -> Seq(W)] : Joins(h, parts, n)
            S == {n \in Nat : n <= Len(parts) => Some(n)}
<1>1. 0 \in S
  <2>1. [i \in 1 .. 0 |-> <<>>] \in [1 .. 0 -> Seq(W)] /\ Joins([i \in 1 .. 0 |-> <<>>], parts, 0)
    BY DEF Joins
  <2>. QED BY <2>1
<1>2. ASSUME NEW n \in Nat, n \in S PROVE n + 1 \in S
  <2>1. Len(parts) \in Nat BY LenProperties
  <2>. SUFFICES ASSUME n + 1 <= Len(parts) PROVE Some(n + 1)
    OBVIOUS
  <2>2. Some(n) BY <1>2, <2>1
  <2>3. PICK h \in [1 .. n -> Seq(W)] : Joins(h, parts, n) BY <2>2
  <2>. QED BY <2>3, JoinsMore
<1>. HIDE DEF S
<1>3. Nat \subseteq S BY <1>1, <1>2, Induction
<1>4. Len(parts) \in Nat BY LenProperties
<1>. QED BY <1>3, <1>4 DEF S

\* What was joined holds every one of the lists, at a place of its own.
LEMMA JoinsLay ==
  ASSUME NEW W, NEW parts \in Seq(Seq(W)), NEW h, Joins(h, parts, Len(parts)),
         NEW n \in 1 .. Len(parts)
  PROVE  h[n] \in Seq(W) /\ \E at \in [1 .. n -> Nat] : Laid(h[n], parts, n, at)
<1>. DEFINE Good(k) == h[k] \in Seq(W) /\ \E at \in [1 .. k -> Nat] : Laid(h[k], parts, k, at)
            S == {k \in Nat : k \in 1 .. Len(parts) => Good(k)}
<1>1. Len(parts) \in Nat /\ \A i \in 1 .. Len(parts) : parts[i] \in Seq(W)
  BY LenProperties, ElementOfSeq
<1>2. \A i \in 1 .. Len(parts) : h[i] = IF i = 1 THEN parts[i] ELSE h[i - 1] \o parts[i]
  BY DEF Joins
<1>3. 0 \in S OBVIOUS
<1>4. ASSUME NEW k \in Nat, k \in S PROVE k + 1 \in S
  <2>. SUFFICES ASSUME k + 1 \in 1 .. Len(parts) PROVE Good(k + 1)
    OBVIOUS
  <2>1. CASE k = 0
    <3>. DEFINE zero == [i \in 1 .. 1 |-> 0]
    <3>1. h[1] = parts[1] /\ parts[1] \in Seq(W) BY <1>1, <1>2, <2>1
    <3>2. \A j \in DOMAIN parts[1] : j \in Nat /\ 0 + j = j
      BY <3>1, LenProperties
    <3>3. \A j \in DOMAIN parts[1] : j - 0 = j BY <3>2
    <3>4. \A i \in 1 .. 1 : i = 1 /\ zero[i] = 0 OBVIOUS
    <3>5. 1 \in 1 .. 1 /\ zero \in [1 .. 1 -> Nat] OBVIOUS
    <3>. HIDE DEF zero
    <3>6. Laid(parts[1], parts, 1, zero) BY <3>2, <3>3, <3>4, <3>5 DEF Laid
    <3>. QED BY <2>1, <3>1, <3>5, <3>6
  <2>2. CASE k # 0
    <3>1. k \in 1 .. Len(parts) /\ k + 1 # 1 /\ k + 1 - 1 = k BY <1>1, <2>2
    <3>2. Good(k) BY <1>4, <3>1
    <3>0. h[k + 1] = IF k + 1 = 1 THEN parts[k + 1] ELSE h[k + 1 - 1] \o parts[k + 1] BY <1>2
    <3>3. h[k + 1] = h[k] \o parts[k + 1] BY <3>0, <3>1
    <3>4. h[k + 1] \in Seq(W) BY <1>1, <3>2, <3>3, ConcatAt
    <3>5. PICK at \in [1 .. k -> Nat] : Laid(h[k], parts, k, at) BY <3>2
    <3>6. \E b \in [1 .. k + 1 -> Nat] : Laid(h[k] \o parts[k + 1], parts, k + 1, b)
      BY <3>2, <3>5, LaidFurther
    <3>. QED BY <3>3, <3>4, <3>6
  <2>. QED BY <2>1, <2>2
<1>. HIDE DEF S
<1>5. Nat \subseteq S BY <1>3, <1>4, Induction
<1>. HIDE DEF Good
<1>6. n \in S BY <1>5
<1>7. Good(n) BY <1>6 DEF S
<1>. QED BY <1>7 DEF Good

\* FlattenSeq puts the parts one after another.
LEMMA FlattenParts ==
  ASSUME NEW W, NEW parts \in Seq(Seq(W))
  PROVE  /\ Seqs!FlattenSeq(parts) \in Seq(W)
         /\ \E at \in [1 .. Len(parts) -> Nat] :
              Laid(Seqs!FlattenSeq(parts), parts, Len(parts), at)
<1>1. Len(parts) \in Nat /\ DOMAIN parts = 1 .. Len(parts)
  BY LenProperties
<1>2. CASE Len(parts) = 0
  <2>1. parts = <<>> /\ Seqs!FlattenSeq(parts) = parts
    BY <1>2, EmptySeq DEF Seqs!FlattenSeq
  <2>2. [i \in {} |-> 0] \in [1 .. Len(parts) -> Nat] /\ Laid(parts, parts, Len(parts), [i \in {} |-> 0])
    BY <1>1, <1>2, <2>1 DEF Laid
  <2>. QED BY <2>1, <2>2, EmptySeq
<1>3. CASE Len(parts) # 0
  <2>. DEFINE flatten == CHOOSE h : Joins(h, parts, Len(parts))
  <2>1. Seqs!FlattenSeq(parts) = flatten[Len(parts)]
    BY <1>3 DEF Seqs!FlattenSeq, Joins
  <2>2. Joins(flatten, parts, Len(parts))
    BY JoinsExist
  <2>3. Len(parts) \in 1 .. Len(parts) BY <1>1, <1>3
  <2>. HIDE DEF flatten
  <2>. QED BY <2>1, <2>2, <2>3, JoinsLay
<1>. QED BY <1>2, <1>3

-----------------------------------------------------------------------------
(* Types.                                                                  *)

LEMMA NothingIsTyped == NoTables \in Tables /\ NewDatabase \in Database /\ Idle \in Run
  BY EmptyTableIsTable, EmptySeq DEF NoTables, Tables, NewDatabase, Database, Idle, Run

\* What a Device's database holds, part by part.
LEMMA DatabaseFields ==
  ASSUME NEW db \in Database
  PROVE  /\ db.rows \in Tables /\ db.cursor \in [Streams -> Nat] /\ db.epoch \in [Streams -> {0, 1}]
         /\ \A s \in Streams : db.rows[s] \in Table /\ db.cursor[s] \in Nat /\ db.epoch[s] \in {0, 1}
         /\ \A s \in Streams, id \in Ids : db.rows[s][id] \in Maybe(Row)
  BY DEF Database, Tables, Table

\* What a statement holds, part by part.
LEMMA StatementFields ==
  ASSUME NEW w \in Statements
  PROVE  /\ w.op \in {"ack", "pull", "write", "delete", "cursor", "epoch"}
         /\ w.stream \in Streams /\ w.table \in Table /\ w.pushed \in Table /\ w.value \in Nat
         /\ w.op = "epoch" => w.value \in {0, 1}
  BY DEF Statements

\* What a run of sync() holds, part by part.
LEMMA RunFields ==
  ASSUME NEW r \in Run
  PROVE  /\ r.pc \in {"idle", "loop", "server", "apply"} /\ r.todo \in Seq(Statements)
         /\ r.at \in Nat /\ r.push \in Tables /\ r.since \in [Streams -> Nat]
         /\ r.acked \in Tables /\ r.page \in Tables /\ r.total \in Nat
         /\ r.again \in BOOLEAN /\ r.stalledAt \in Nat
  BY DEF Run

\* The reads of a Backup, a Restore or a Merge.
Reads == [op : {"read"}, name : Streams \cup {Kv}]

\* What a job holds, part by part.
LEMMA JobFields ==
  ASSUME NEW j \in Job
  PROVE  /\ j.kind \in {"none", "backup", "restore", "merge"}
         /\ j.todo \in Seq(Statements \cup Reads)
         /\ j.open \in BOOLEAN /\ j.copy \in Database /\ j.alone \in BOOLEAN
  BY DEF Job, Reads

\* What the type invariant says of one Device.
LEMMA DeviceFields ==
  ASSUME TypeOK, NEW d \in Devices
  PROVE  /\ store[d] \in Database /\ saved[d] \in Database /\ clock[d] \in Nat
         /\ run[d] \in Run /\ job[d] \in Job /\ torn[d] \in SUBSET Streams
         /\ run[d].todo \in Seq(Statements) /\ job[d].todo \in Seq(Statements \cup Reads)
  BY RunFields, JobFields DEF TypeOK

\* No job is a job of no kind.
LEMMA NoneIsJob == None \in Job
  BY NothingIsTyped, EmptySeq DEF None, Job

\* A statement on rows.
LEMMA RowsIsStatement ==
  ASSUME NEW op \in {"ack", "pull", "write", "delete"}, NEW s \in Streams,
         NEW table \in Table, NEW pushed \in Table
  PROVE  /\ Rows(op, s, table, pushed) \in Statements
         /\ Rows(op, s, table, pushed).op = op /\ Rows(op, s, table, pushed).stream = s
         /\ Rows(op, s, table, pushed).table = table
  BY DEF Rows, Statements

\* A statement on a Cursor or an epoch.
LEMMA KeyIsStatement ==
  ASSUME NEW op \in {"cursor", "epoch"}, NEW s \in Streams, NEW value \in Nat,
         op = "epoch" => value \in {0, 1}
  PROVE  /\ Key(op, s, value) \in Statements
         /\ Key(op, s, value).op = op /\ Key(op, s, value).stream = s
         /\ Key(op, s, value).value = value
  BY EmptyTableIsTable DEF Key, Statements

\* What a statement writes on a row.
Wrote(w, s, id, old, new) ==
  \/ Sets(w, "delete", s) /\ id \in Held(w.table) /\ new = NoRow
  \/ WritesRows(w, s) /\ id \in Held(w.table) /\ Lands(w, id, old) /\ new = w.table[id]
  \/ /\ new = old
     /\ ~(Sets(w, "delete", s) /\ id \in Held(w.table))
     /\ ~(WritesRows(w, s) /\ id \in Held(w.table) /\ Lands(w, id, old))

\* A statement does to the database what it says, and nothing else.
LEMMA ExecuteWrites ==
  ASSUME NEW db \in Database, NEW w \in Statements
  PROVE  /\ Execute(db, w) \in Database
         /\ \A s \in Streams :
              /\ Execute(db, w).cursor[s] = IF Sets(w, "cursor", s) THEN w.value ELSE db.cursor[s]
              /\ Execute(db, w).epoch[s] = IF Sets(w, "epoch", s) THEN w.value ELSE db.epoch[s]
              /\ \A id \in Ids : Wrote(w, s, id, db.rows[s][id], Execute(db, w).rows[s][id])
              /\ ~Sets(w, "delete", s) /\ ~WritesRows(w, s) =>
                   Execute(db, w).rows[s] = db.rows[s]
<1>. DEFINE s == w.stream
            new == Execute(db, w)
<1>1. /\ w.op \in {"ack", "pull", "write", "delete", "cursor", "epoch"}
      /\ s \in Streams /\ w.table \in Table /\ w.value \in Nat
      /\ w.op = "epoch" => w.value \in {0, 1}
  BY StatementFields
<1>2. /\ db.rows \in Tables /\ db.cursor \in [Streams -> Nat] /\ db.epoch \in [Streams -> {0, 1}]
      /\ db.rows[s] \in Table /\ db = [rows |-> db.rows, cursor |-> db.cursor, epoch |-> db.epoch]
  BY <1>1, DatabaseFields DEF Database
<1>. DEFINE Keys(z) ==
              /\ new.cursor[z] = IF w.op = "cursor" /\ z = s THEN w.value ELSE db.cursor[z]
              /\ new.epoch[z] = IF w.op = "epoch" /\ z = s THEN w.value ELSE db.epoch[z]
            Lines(z) ==
              /\ z # s \/ w.op \in {"cursor", "epoch"} => new.rows[z] = db.rows[z]
              /\ w.op = "delete" => \A id \in Ids : new.rows[s][id] =
                   IF id \in Held(w.table) THEN NoRow ELSE db.rows[s][id]
              /\ w.op \in {"ack", "pull", "write"} => \A id \in Ids : new.rows[s][id] =
                   IF id \in Held(w.table) /\ Lands(w, id, db.rows[s][id]) THEN w.table[id]
                                                                          ELSE db.rows[s][id]
            Done == new \in Database /\ \A z \in Streams : Keys(z) /\ Lines(z)
<1>3. ASSUME w.op = "cursor" PROVE Done
  <2>1. new = [db EXCEPT !.cursor[s] = w.value]
    BY <1>3 DEF Execute
  <2>2. /\ new.rows = db.rows /\ new.epoch = db.epoch
        /\ new.cursor = [db.cursor EXCEPT ![s] = w.value] /\ new \in Database
    BY <1>1, <1>2, <2>1 DEF Database
  <2>. HIDE DEF new
  <2>. QED BY <1>1, <1>2, <1>3, <2>2
<1>4. ASSUME w.op = "epoch" PROVE Done
  <2>1. new = [db EXCEPT !.epoch[s] = w.value]
    BY <1>4 DEF Execute
  <2>2. /\ new.rows = db.rows /\ new.cursor = db.cursor
        /\ new.epoch = [db.epoch EXCEPT ![s] = w.value] /\ new \in Database
    BY <1>1, <1>2, <1>4, <2>1 DEF Database
  <2>. HIDE DEF new
  <2>. QED BY <1>1, <1>2, <1>4, <2>2
<1>5. ASSUME w.op = "delete" PROVE Done
  <2>1. new = [db EXCEPT !.rows[s] = Only(@, Ids \ Held(w.table))]
    BY <1>5 DEF Execute
  <2>2. Only(db.rows[s], Ids \ Held(w.table)) \in Table
    BY <1>2, OnlyIsTable
  <2>3. /\ new.cursor = db.cursor /\ new.epoch = db.epoch
        /\ new.rows = [db.rows EXCEPT ![s] = Only(db.rows[s], Ids \ Held(w.table))]
        /\ new \in Database
    BY <1>1, <1>2, <2>1, <2>2 DEF Database, Tables
  <2>4. \A id \in Ids : new.rows[s][id] = IF id \in Held(w.table) THEN NoRow ELSE db.rows[s][id]
    BY <1>1, <1>2, <2>3 DEF Only, Tables
  <2>5. \A z \in Streams : z # s => new.rows[z] = db.rows[z]
    BY <1>1, <1>2, <2>3 DEF Tables
  <2>. HIDE DEF new
  <2>. QED BY <1>1, <1>2, <1>5, <2>3, <2>4, <2>5
<1>6. ASSUME w.op \in {"ack", "pull", "write"} PROVE Done
  <2>. DEFINE t == [id \in Ids |-> IF id \in Held(w.table) /\ Lands(w, id, db.rows[s][id])
                                     THEN w.table[id] ELSE db.rows[s][id]]
  <2>1. new = [db EXCEPT !.rows[s] = t]
    BY <1>6 DEF Execute
  <2>2. t \in Table
    BY <1>1, <1>2 DEF Table
  <2>3. /\ new.cursor = db.cursor /\ new.epoch = db.epoch
        /\ new.rows = [db.rows EXCEPT ![s] = t] /\ new \in Database
    BY <1>1, <1>2, <2>1, <2>2 DEF Database, Tables
  <2>4. /\ new.rows[s] = t /\ \A z \in Streams : z # s => new.rows[z] = db.rows[z]
    BY <1>1, <1>2, <2>3 DEF Tables
  <2>. HIDE DEF new
  <2>. QED BY <1>1, <1>2, <1>6, <2>3, <2>4
<1>7. Done
  BY <1>1, <1>3, <1>4, <1>5, <1>6
<1>. HIDE DEF new
<1>8. ASSUME NEW z \in Streams
      PROVE  /\ new.cursor[z] = IF Sets(w, "cursor", z) THEN w.value ELSE db.cursor[z]
             /\ new.epoch[z] = IF Sets(w, "epoch", z) THEN w.value ELSE db.epoch[z]
  BY <1>7 DEF Sets
<1>. HIDE DEF Keys
<1>9. ASSUME NEW z \in Streams, NEW id \in Ids
      PROVE  Wrote(w, z, id, db.rows[z][id], new.rows[z][id])
  BY <1>1, <1>7 DEF Sets, WritesRows, Wrote
<1>10. ASSUME NEW z \in Streams, ~Sets(w, "delete", z), ~WritesRows(w, z)
       PROVE  new.rows[z] = db.rows[z]
  BY <1>1, <1>7, <1>10 DEF Sets, WritesRows
<1>. HIDE DEF Lines
<1>. QED BY <1>7, <1>8, <1>9, <1>10 DEF new

-----------------------------------------------------------------------------
(* Lists of statements.                                                    *)

LEMMA ListIsSeq ==
  ASSUME NEW W, NEW n \in Nat, NEW f \in [1 .. n -> W]
  PROVE  f \in Seq(W) /\ Len(f) = n
  BY LenProperties, IsASeq

\* The order the streams sync in names each of them once.
LEMMA OrderIsList ==
  /\ Len(Order) \in Nat /\ DOMAIN Order = 1 .. Len(Order)
  /\ \A i \in DOMAIN Order : Order[i] \in Streams
  /\ \A s \in Streams : \E i \in DOMAIN Order : Order[i] = s
  /\ \A i, j \in DOMAIN Order : Order[i] = Order[j] => i = j
  /\ 1 \in DOMAIN Order
<1>1. Order \in Seq(Streams) /\ Order # <<>>
  BY StreamsAssumption
<1>2. Len(Order) # 0 BY <1>1, EmptySeq
<1>3. IsInjective(Order) BY StreamsAssumption
<1>. QED BY <1>1, <1>2, <1>3, LenProperties, ElementOfSeq DEF Streams, Range, IsInjective

\* Where the statements about each stream are in the list.
Placed(flat, lists, s, at) ==
  /\ \A k \in DOMAIN lists[s] : at + k \in DOMAIN flat /\ flat[at + k] = lists[s][k]
  /\ \A m \in DOMAIN flat :
       flat[m].stream = s => m - at \in DOMAIN lists[s] /\ flat[m] = lists[s][m - at]

\* The streams' statements, in the order the streams sync in: each stream's
\* are there, together, and nothing else of that stream is.
LEMMA InOrderPlaces ==
  ASSUME NEW W, NEW lists \in [Streams -> Seq(W)],
         \A s \in Streams : \A k \in DOMAIN lists[s] : lists[s][k].stream = s
  PROVE  /\ InOrder(lists) \in Seq(W)
         /\ \A s \in Streams : \E at \in Nat : Placed(InOrder(lists), lists, s, at)
<1>. DEFINE parts == [i \in DOMAIN Order |-> lists[Order[i]]]
            flat == InOrder(lists)
            n == Len(parts)
<1>1. parts \in Seq(Seq(W)) /\ n = Len(Order) /\ DOMAIN parts = 1 .. n /\ n \in Nat
  BY OrderIsList, ListIsSeq
<1>2. flat = Seqs!FlattenSeq(parts)
  BY DEF InOrder
<1>. HIDE DEF flat
<1>3. flat \in Seq(W) /\ \E at \in [1 .. n -> Nat] : Laid(flat, parts, n, at)
  BY <1>1, <1>2, FlattenParts
<1>4. PICK at \in [1 .. n -> Nat] : Laid(flat, parts, n, at)
  BY <1>3
<1>5. \A i \in 1 .. n : Order[i] \in Streams /\ parts[i] = lists[Order[i]] /\ at[i] \in Nat
  BY <1>1, OrderIsList
<1>. HIDE DEF parts, n
<1>6. ASSUME NEW m \in DOMAIN flat
      PROVE  \E i \in 1 .. n : /\ m - at[i] \in DOMAIN lists[Order[i]]
                               /\ flat[m] = lists[Order[i]][m - at[i]]
                               /\ flat[m].stream = Order[i]
  <2>1. PICK i \in 1 .. n : m - at[i] \in DOMAIN parts[i]
    BY <1>4 DEF Laid
  <2>2. at[i] + (m - at[i]) \in DOMAIN flat /\ flat[at[i] + (m - at[i])] = parts[i][m - at[i]]
    BY <1>4, <2>1 DEF Laid
  <2>3. m \in Nat /\ at[i] \in Nat BY <1>3, <1>5, LenProperties
  <2>4. at[i] + (m - at[i]) = m BY <2>3
  <2>5. m - at[i] \in DOMAIN lists[Order[i]] /\ flat[m] = lists[Order[i]][m - at[i]]
    BY <1>5, <2>1, <2>2, <2>4
  <2>. QED BY <1>5, <2>5
<1>7. ASSUME NEW s \in Streams PROVE \E b \in Nat : Placed(flat, lists, s, b)
  <2>1. PICK i \in 1 .. n : Order[i] = s
    BY <1>1, OrderIsList
  <2>2. \A k \in DOMAIN lists[s] : at[i] + k \in DOMAIN flat /\ flat[at[i] + k] = lists[s][k]
    BY <1>4, <1>5, <2>1 DEF Laid
  <2>3. ASSUME NEW m \in DOMAIN flat, flat[m].stream = s
        PROVE  m - at[i] \in DOMAIN lists[s] /\ flat[m] = lists[s][m - at[i]]
    <3>1. PICK j \in 1 .. n : /\ m - at[j] \in DOMAIN lists[Order[j]]
                              /\ flat[m] = lists[Order[j]][m - at[j]]
                              /\ flat[m].stream = Order[j]
      BY <1>6
    <3>2. j = i BY <1>1, <2>1, <2>3, <3>1, OrderIsList
    <3>. QED BY <2>1, <3>1, <3>2
  <2>4. Placed(flat, lists, s, at[i]) BY <2>2, <2>3 DEF Placed
  <2>. QED BY <1>5, <2>4
<1>. QED BY <1>3, <1>7 DEF flat

\* Lists of none, one and two.
LEMMA TwoOfThem ==
  ASSUME NEW W, NEW a \in W, NEW b \in W
  PROVE  /\ <<>> \in Seq(W) /\ DOMAIN <<>> = {} /\ <<a>> \in Seq(W) /\ DOMAIN <<a>> = {1} /\ <<a>>[1] = a
         /\ <<a, b>> \in Seq(W) /\ DOMAIN <<a, b>> = {1, 2} /\ <<a, b>>[1] = a /\ <<a, b>>[2] = b
         /\ Len(<<a>>) = 1 /\ Len(<<a, b>>) = 2
  OBVIOUS

\* catchUpRowShapeEpoch resets a Cursor and then records the epoch.
LEMMA CatchUpResets ==
  ASSUME NEW db \in Database
  PROVE  /\ InOrder(CatchUp(db)) \in Seq(Statements)
         /\ \A m \in DOMAIN InOrder(CatchUp(db)) :
              /\ \/ InOrder(CatchUp(db))[m].op = "cursor" /\ InOrder(CatchUp(db))[m].value = 0
                 \/ /\ InOrder(CatchUp(db))[m].op = "epoch"
                    /\ m - 1 \in DOMAIN InOrder(CatchUp(db)) /\ m - 1 < m
                    /\ Sets(InOrder(CatchUp(db))[m - 1], "cursor", InOrder(CatchUp(db))[m].stream)
<1>. DEFINE lists == CatchUp(db)
            flat == InOrder(lists)
<1>1. ASSUME NEW s \in Streams
      PROVE  /\ lists[s] \in Seq(Statements)
             /\ \A k \in DOMAIN lists[s] : /\ lists[s][k].stream = s
                                           /\ k \in {1, 2} /\ {1, 2} \subseteq DOMAIN lists[s]
                                           /\ k = 1 => lists[s][k].op = "cursor" /\ lists[s][k].value = 0
                                           /\ k = 2 => lists[s][k].op = "epoch"
  <2>. DEFINE c == Key("cursor", s, 0)
              e == Key("epoch", s, 1)
  <2>1. /\ c \in Statements /\ e \in Statements /\ c.stream = s /\ e.stream = s /\ c.op = "cursor"
        /\ c.value = 0 /\ e.op = "epoch"
    BY KeyIsStatement
  <2>2. lists[s] = IF s \in Behind(db) THEN <<c, e>> ELSE <<>>
    BY DEF CatchUp
  <2>. HIDE DEF c, e, lists
  <2>3. /\ <<>> \in Seq(Statements) /\ DOMAIN <<>> = {}
        /\ <<c, e>> \in Seq(Statements) /\ DOMAIN <<c, e>> = {1, 2} /\ <<c, e>>[1] = c /\ <<c, e>>[2] = e
    BY <2>1, TwoOfThem
  <2>. QED BY <2>1, <2>2, <2>3
<1>2. lists \in [Streams -> Seq(Statements)]
  BY <1>1 DEF CatchUp
<1>. HIDE DEF lists
<1>3. /\ flat \in Seq(Statements)
      /\ \A s \in Streams : \E at \in Nat : Placed(flat, lists, s, at)
  BY <1>1, <1>2, InOrderPlaces
<1>. HIDE DEF flat
<1>4. ASSUME NEW m \in DOMAIN flat
      PROVE  \/ flat[m].op = "cursor" /\ flat[m].value = 0
             \/ /\ flat[m].op = "epoch" /\ m - 1 \in DOMAIN flat /\ m - 1 < m
                /\ Sets(flat[m - 1], "cursor", flat[m].stream)
  <2>1. flat[m] \in Statements /\ m \in Nat BY <1>3, ElementOfSeq, LenProperties
  <2>2. flat[m].stream \in Streams BY <2>1, StatementFields
  <2>. DEFINE s == flat[m].stream
  <2>3. PICK at \in Nat : Placed(flat, lists, s, at) BY <1>3, <2>2
  <2>4. m - at \in DOMAIN lists[s] /\ flat[m] = lists[s][m - at] BY <2>3 DEF Placed
  <2>. HIDE DEF s
  <2>5. s \in Streams BY <2>2 DEF s
  <2>6. CASE m - at = 1 BY <1>1, <2>4, <2>5, <2>6
  <2>7. CASE m - at = 2
    <3>1. 1 \in DOMAIN lists[s] BY <1>1, <2>4, <2>5
    <3>2. at + 1 \in DOMAIN flat /\ flat[at + 1] = lists[s][1] BY <2>3, <3>1 DEF Placed
    <3>3. at + 1 = m - 1 /\ m - 1 < m BY <2>1, <2>7
    <3>4. /\ lists[s][1].op = "cursor" /\ lists[s][1].stream = s /\ flat[m].op = "epoch"
      BY <1>1, <2>4, <2>5, <2>7, <3>1
    <3>5. Sets(flat[m - 1], "cursor", s) BY <3>2, <3>3, <3>4 DEF Sets
    <3>. QED BY <3>2, <3>3, <3>4, <3>5 DEF s
  <2>. QED BY <1>1, <2>4, <2>5, <2>6, <2>7
<1>. QED BY <1>3, <1>4 DEF flat, lists

\* resetCursorsAndEpochs resets the Cursor and then the epoch of every stream.
LEMMA ResetAllResets ==
  /\ ResetAll \in Seq(Statements)
  /\ \A m \in DOMAIN ResetAll :
       /\ ResetAll[m].op \in {"cursor", "epoch"} /\ ResetAll[m].value = 0
       /\ ResetAll[m].op = "cursor" =>
            m + 1 \in DOMAIN ResetAll /\ Sets(ResetAll[m + 1], "epoch", ResetAll[m].stream)
  /\ \A s \in Streams : \E m \in DOMAIN ResetAll : Sets(ResetAll[m], "cursor", s)
<1>. DEFINE lists == [s \in Streams |-> <<Key("cursor", s, 0), Key("epoch", s, 0)>>]
            flat == InOrder(lists)
<1>1. ASSUME NEW s \in Streams
      PROVE  /\ lists[s] \in Seq(Statements) /\ DOMAIN lists[s] = {1, 2}
             /\ \A k \in DOMAIN lists[s] : lists[s][k].stream = s /\ lists[s][k].value = 0
             /\ lists[s][1].op = "cursor" /\ lists[s][2].op = "epoch"
  <2>. DEFINE c == Key("cursor", s, 0)
              e == Key("epoch", s, 0)
  <2>1. /\ c \in Statements /\ e \in Statements /\ c.stream = s /\ e.stream = s /\ c.op = "cursor"
        /\ c.value = 0 /\ e.value = 0 /\ e.op = "epoch"
    BY KeyIsStatement
  <2>2. lists[s] = <<c, e>>
    OBVIOUS
  <2>. HIDE DEF c, e, lists
  <2>3. <<c, e>> \in Seq(Statements) /\ DOMAIN <<c, e>> = {1, 2} /\ <<c, e>>[1] = c /\ <<c, e>>[2] = e
    BY <2>1, TwoOfThem
  <2>. QED BY <2>1, <2>2, <2>3
<1>2. lists \in [Streams -> Seq(Statements)] /\ ResetAll = flat
  BY <1>1 DEF ResetAll
<1>. HIDE DEF lists
<1>3. /\ flat \in Seq(Statements)
      /\ \A s \in Streams : \E at \in Nat : Placed(flat, lists, s, at)
  BY <1>1, <1>2, InOrderPlaces
<1>. HIDE DEF flat
<1>4. ASSUME NEW m \in DOMAIN flat
      PROVE  /\ flat[m].op \in {"cursor", "epoch"} /\ flat[m].value = 0
             /\ flat[m].op = "cursor" => m + 1 \in DOMAIN flat /\ Sets(flat[m + 1], "epoch", flat[m].stream)
  <2>1. flat[m] \in Statements /\ m \in Nat BY <1>3, ElementOfSeq, LenProperties
  <2>2. flat[m].stream \in Streams BY <2>1, StatementFields
  <2>. DEFINE s == flat[m].stream
  <2>3. PICK at \in Nat : Placed(flat, lists, s, at) BY <1>3, <2>2
  <2>4. m - at \in DOMAIN lists[s] /\ flat[m] = lists[s][m - at] BY <2>3 DEF Placed
  <2>. HIDE DEF s
  <2>5. s \in Streams BY <2>2 DEF s
  <2>6. CASE m - at = 1
    <3>1. 2 \in DOMAIN lists[s] BY <1>1, <2>5
    <3>2. at + 2 \in DOMAIN flat /\ flat[at + 2] = lists[s][2] BY <2>3, <3>1 DEF Placed
    <3>3. at + 2 = m + 1 BY <2>1, <2>6
    <3>4. flat[m].op = "cursor" /\ flat[m].value = 0 /\ lists[s][2].op = "epoch" /\ lists[s][2].stream = s
      BY <1>1, <2>4, <2>5, <2>6, <3>1
    <3>5. Sets(flat[m + 1], "epoch", s) BY <3>2, <3>3, <3>4 DEF Sets
    <3>. QED BY <3>2, <3>3, <3>4, <3>5 DEF s
  <2>7. CASE m - at = 2 BY <1>1, <2>4, <2>5, <2>7
  <2>. QED BY <1>1, <2>4, <2>5, <2>6, <2>7
<1>5. ASSUME NEW s \in Streams PROVE \E m \in DOMAIN flat : Sets(flat[m], "cursor", s)
  <2>1. PICK at \in Nat : Placed(flat, lists, s, at) BY <1>3
  <2>2. 1 \in DOMAIN lists[s] /\ lists[s][1].op = "cursor" /\ lists[s][1].stream = s BY <1>1
  <2>. QED BY <2>1, <2>2 DEF Placed, Sets
<1>. QED BY <1>2, <1>3, <1>4, <1>5

\* What the statements applying an answer are, in their order: the acknowledged
\* rows, the page, the Cursor.
Applied(todo, s, since, page, acked) ==
  /\ \A k \in DOMAIN todo :
       /\ todo[k].stream = s
       /\ \/ WritesRows(todo[k], s) /\ \A id \in Held(todo[k].table) : todo[k].table[id] = acked[id]
          \/ /\ Sets(todo[k], "pull", s) \/ Sets(todo[k], "write", s)
             /\ todo[k].table = page
          \/ Sets(todo[k], "cursor", s) /\ todo[k].value \in Last(page, since)
  /\ Held(page) # {} =>
       \E p \in DOMAIN todo :
         /\ Sets(todo[p], "pull", s) \/ Sets(todo[p], "write", s)
         /\ todo[p].table = page
         /\ \A k \in DOMAIN todo :
              /\ k > p => Sets(todo[k], "cursor", s)
              /\ Sets(todo[k], "cursor", s) => k > p

\* The statements that store the acknowledgements of a stream.
LEMMA AcksApply ==
  ASSUME NEW r \in Run, NEW s \in Streams
  PROVE  LET acks == Seqs!SetToSeq(Held(r.acked[s]))
             one(id) == Rows("ack", s, Only(r.acked[s], {id}), Only(r.push[s], {id}))
             list == IF s \in AppendOnly
                       THEN IF acks = <<>> THEN <<>> ELSE <<Rows("write", s, r.acked[s], EmptyTable)>>
                       ELSE [i \in DOMAIN acks |-> one(acks[i])]
         IN  /\ list \in Seq(Statements)
             /\ \A k \in DOMAIN list :
                  /\ list[k].stream = s /\ WritesRows(list[k], s) /\ list[k].op # "cursor"
                  /\ \A id \in Held(list[k].table) : list[k].table[id] = r.acked[s][id]
<1>. DEFINE acks == Seqs!SetToSeq(Held(r.acked[s]))
            one(id) == Rows("ack", s, Only(r.acked[s], {id}), Only(r.push[s], {id}))
            many == [i \in DOMAIN acks |-> one(acks[i])]
            whole == Rows("write", s, r.acked[s], EmptyTable)
            Good(list) ==
             /\ list \in Seq(Statements)
             /\ \A k \in DOMAIN list :
                  /\ list[k].stream = s /\ WritesRows(list[k], s) /\ list[k].op # "cursor"
                  /\ \A id \in Held(list[k].table) : list[k].table[id] = r.acked[s][id]
<1>1. r.acked[s] \in Table /\ r.push[s] \in Table
  BY RunFields DEF Tables
<1>2. acks \in Seq(Held(r.acked[s]))
  <2>1. IsFiniteSet(Held(r.acked[s])) BY CountIsNat DEF Held
  <2>. QED BY <2>1, SetAsSeq
<1>3. Good(<<>>) /\ Good(<<whole>>)
  <2>1. whole \in Statements /\ whole.stream = s /\ whole.op = "write" /\ whole.table = r.acked[s]
    BY <1>1, EmptyTableIsTable, RowsIsStatement
  <2>. HIDE DEF whole
  <2>2. /\ <<>> \in Seq(Statements) /\ DOMAIN <<>> = {} /\ <<whole>> \in Seq(Statements)
        /\ DOMAIN <<whole>> = {1} /\ <<whole>>[1] = whole
    BY <2>1, TwoOfThem
  <2>. QED BY <2>1, <2>2 DEF WritesRows, Sets
<1>4. Good(many)
  <2>1. Len(acks) \in Nat /\ DOMAIN acks = 1 .. Len(acks) /\ \A i \in DOMAIN acks : acks[i] \in Held(r.acked[s])
    BY <1>2, LenProperties, ElementOfSeq
  <2>2. ASSUME NEW id \in Held(r.acked[s])
        PROVE  /\ one(id) \in Statements /\ one(id).stream = s /\ one(id).op = "ack"
               /\ \A x \in Held(one(id).table) : one(id).table[x] = r.acked[s][x]
    <3>. DEFINE t == Only(r.acked[s], {id})
                p == Only(r.push[s], {id})
    <3>1. t \in Table /\ p \in Table /\ \A x \in Held(t) : t[x] = r.acked[s][x]
      BY <1>1, OnlyIsTable
    <3>2. one(id) = Rows("ack", s, t, p) OBVIOUS
    <3>. HIDE DEF t, p, one
    <3>. QED BY <3>1, <3>2, RowsIsStatement
  <2>. HIDE DEF acks, one
  <2>3. \A k \in DOMAIN many : many[k] = one(acks[k]) /\ acks[k] \in Held(r.acked[s])
    BY <2>1
  <2>4. many \in [1 .. Len(acks) -> Statements] /\ DOMAIN many = DOMAIN acks
    BY <2>1, <2>2
  <2>5. many \in Seq(Statements) BY <2>1, <2>4, ListIsSeq
  <2>. HIDE DEF many
  <2>. QED BY <2>2, <2>3, <2>5 DEF WritesRows, Sets
<1>. HIDE DEF Good, many, whole
<1>5. Good(IF s \in AppendOnly THEN IF acks = <<>> THEN <<>> ELSE <<whole>> ELSE many)
  BY <1>3, <1>4
<1>. QED BY <1>5 DEF Good, many, whole

\* A page leads to some Cursor.
LEMMA LastExists ==
  ASSUME NEW t \in Table, NEW floor \in Nat
  PROVE  \E n \in Last(t, floor) : TRUE
<1>1. IsFiniteSet(Held(t)) BY CountIsNat DEF Held
<1>. DEFINE n == Cardinality(Held(t))
<1>2. n \in Nat /\ \E g \in Bijection(1 .. n, Held(t)) : TRUE
  BY <1>1, FS_CardinalityType DEF ExistsBijection
<1>3. PICK g : g \in [1 .. n -> Held(t)] /\ \A id \in Held(t) : \E i \in 1 .. n : g[i] = id
  BY <1>2 DEF Bijection, Surjection
<1>. HIDE DEF n
<1>. DEFINE S == {k \in Nat : k <= n => \E m \in Nat : \A i \in 1 .. k : t[g[i]].seq <= m}
<1>4. 0 \in S OBVIOUS
<1>5. ASSUME NEW k \in Nat, k \in S PROVE k + 1 \in S
  <2>. SUFFICES ASSUME k + 1 <= n PROVE \E m \in Nat : \A i \in 1 .. k + 1 : t[g[i]].seq <= m
    OBVIOUS
  <2>1. PICK m \in Nat : \A i \in 1 .. k : t[g[i]].seq <= m BY <1>2, <1>5
  <2>2. g[k + 1] \in Held(t) BY <1>2, <1>3
  <2>. DEFINE x == t[g[k + 1]].seq
              both == m + x
  <2>3. x \in Nat BY <2>2, HeldRow
  <2>4. \A i \in 1 .. k : t[g[i]].seq \in Nat
    <3>1. \A i \in 1 .. k : i \in 1 .. n BY <1>2
    <3>. QED BY <1>3, <3>1, HeldRow
  <2>5. both \in Nat /\ m <= both /\ x <= both BY <2>3
  <2>6. \A i \in 1 .. k + 1 : i \in 1 .. k \/ i = k + 1 OBVIOUS
  <2>7. \A i \in 1 .. k + 1 : t[g[i]].seq <= both
    BY <2>1, <2>3, <2>4, <2>5, <2>6
  <2>. QED BY <2>5, <2>7
<1>. HIDE DEF S
<1>6. n \in S BY <1>2, <1>4, <1>5, Induction
<1>. DEFINE U == {m \in Nat : \A id \in Held(t) : t[id].seq <= m}
<1>7. U \in SUBSET Nat /\ U # {}
  <2>1. PICK m \in Nat : \A i \in 1 .. n : t[g[i]].seq <= m BY <1>2, <1>6 DEF S
  <2>2. m \in U BY <1>3, <2>1
  <2>. QED BY <2>2
<1>8. PICK m \in U : \A y \in U : m <= y BY <1>7, Smallest
<1>9. CASE Held(t) = {}
  <2>1. floor \in Last(t, floor) BY <1>9 DEF Last
  <2>. QED BY <2>1
<1>10. CASE Held(t) # {}
  <2>1. \A id \in Held(t) : t[id].seq \in Nat /\ t[id].seq <= m BY <1>8, HeldRow
  <2>2. \E id \in Held(t) : t[id].seq = m
    <3>. SUFFICES ASSUME \A id \in Held(t) : t[id].seq # m PROVE FALSE OBVIOUS
    <3>1. \A id \in Held(t) : t[id].seq < m BY <1>8, <2>1
    <3>2. m # 0 BY <1>10, <2>1, <3>1
    <3>3. m - 1 \in U BY <1>8, <2>1, <3>1, <3>2
    <3>. QED BY <1>8, <3>3
  <2>3. m \in Last(t, floor) BY <1>8, <2>2 DEF Last
  <2>. QED BY <2>3
<1>. QED BY <1>9, <1>10

\* What a stream's answer becomes: acknowledgements, then the page, then the
\* Cursor.
LEMMA ApplyIsApplied ==
  ASSUME NEW r \in Run, NEW s \in Streams
  PROVE  /\ Apply(r, s) \in Seq(Statements)
         /\ Applied(Apply(r, s), s, r.since[s], r.page[s], r.acked[s])
<1>. DEFINE acks == Seqs!SetToSeq(Held(r.acked[s]))
            one(id) == Rows("ack", s, Only(r.acked[s], {id}), Only(r.push[s], {id}))
            next == CHOOSE n \in Last(r.page[s], r.since[s]) : TRUE
            A == IF s \in AppendOnly
                   THEN IF acks = <<>> THEN <<>> ELSE <<Rows("write", s, r.acked[s], EmptyTable)>>
                   ELSE [i \in DOMAIN acks |-> one(acks[i])]
            pull == Rows(IF s \in AppendOnly THEN "write" ELSE "pull", s, r.page[s], EmptyTable)
            move == Key("cursor", s, next)
            P == IF Held(r.page[s]) = {} THEN <<>> ELSE <<pull>>
            C == IF next > r.since[s] THEN <<move>> ELSE <<>>
            AP == A \o P
            all == AP \o C
<1>1. r.page[s] \in Table /\ r.since[s] \in Nat
  BY RunFields DEF Tables
<1>2. /\ A \in Seq(Statements)
      /\ \A k \in DOMAIN A :
           /\ A[k].stream = s /\ WritesRows(A[k], s) /\ A[k].op # "cursor"
           /\ \A id \in Held(A[k].table) : A[k].table[id] = r.acked[s][id]
  BY AcksApply
<1>3. /\ pull \in Statements /\ pull.stream = s /\ pull.op \in {"write", "pull"} /\ pull.table = r.page[s]
  BY <1>1, EmptyTableIsTable, RowsIsStatement
<1>4. /\ next \in Last(r.page[s], r.since[s]) /\ move \in Statements
      /\ move.op = "cursor" /\ move.stream = s /\ move.value = next
  <2>1. next \in Last(r.page[s], r.since[s]) BY <1>1, LastExists
  <2>2. next \in Nat BY <1>1, <2>1, LastIsNat
  <2>. HIDE DEF next
  <2>. QED BY <2>1, <2>2, KeyIsStatement
<1>5. Apply(r, s) = all
  BY DEF Apply
<1>. HIDE DEF acks, one, next, A, pull, move
<1>6. /\ P \in Seq(Statements) /\ C \in Seq(Statements)
      /\ \A k \in DOMAIN P : k = 1 /\ P[k] = pull
      /\ \A k \in DOMAIN C : k = 1 /\ C[k] = move
      /\ Held(r.page[s]) # {} => 1 \in DOMAIN P
  <2>1. /\ <<>> \in Seq(Statements) /\ DOMAIN <<>> = {}
        /\ <<pull>> \in Seq(Statements) /\ DOMAIN <<pull>> = {1} /\ <<pull>>[1] = pull
        /\ <<move>> \in Seq(Statements) /\ DOMAIN <<move>> = {1} /\ <<move>>[1] = move
    BY <1>3, <1>4, TwoOfThem
  <2>. QED BY <2>1
<1>. HIDE DEF P, C
<1>7. AP \in Seq(Statements) /\ Joined(AP, A, P)
  BY <1>2, <1>6, ConcatAt
<1>. HIDE DEF AP
<1>8. all \in Seq(Statements) /\ Joined(all, AP, C)
  BY <1>6, <1>7, ConcatAt
<1>. HIDE DEF all
<1>9. ASSUME NEW k \in DOMAIN all
      PROVE  \/ k \in DOMAIN A /\ all[k] = A[k] /\ k <= Len(A)
             \/ k = Len(A) + 1 /\ k <= Len(AP) /\ all[k] = pull
             \/ k = Len(AP) + 1 /\ all[k] = move
  <2>1. CASE k \in DOMAIN AP
    <3>1. all[k] = AP[k] BY <1>8, <2>1 DEF Joined
    <3>2. CASE k \in DOMAIN A BY <1>7, <3>1, <3>2 DEF Joined
    <3>3. CASE k > Len(A) /\ k - Len(A) \in DOMAIN P
      <4>1. k - Len(A) = 1 /\ P[1] = pull BY <1>6, <3>3
      <4>2. k \in Nat /\ Len(A) \in Nat /\ k <= Len(AP) BY <1>7, <1>8, <2>1 DEF Joined
      <4>3. k = Len(A) + 1 BY <4>1, <4>2
      <4>4. AP[Len(A) + 1] = pull BY <1>7, <3>3, <4>1 DEF Joined
      <4>. QED BY <3>1, <4>2, <4>3, <4>4
    <3>. QED BY <1>7, <2>1, <3>2, <3>3 DEF Joined
  <2>2. CASE k > Len(AP) /\ k - Len(AP) \in DOMAIN C
    <3>1. k - Len(AP) = 1 /\ C[1] = move BY <1>6, <2>2
    <3>2. k \in Nat /\ Len(AP) \in Nat BY <1>8, LenProperties DEF Joined
    <3>3. k = Len(AP) + 1 BY <3>1, <3>2
    <3>4. all[Len(AP) + 1] = move BY <1>8, <2>2, <3>1 DEF Joined
    <3>. QED BY <3>3, <3>4
  <2>. QED BY <1>8, <2>1, <2>2 DEF Joined
<1>10. ASSUME NEW k \in DOMAIN all
       PROVE  /\ all[k].stream = s
              /\ \/ WritesRows(all[k], s) /\ \A id \in Held(all[k].table) : all[k].table[id] = r.acked[s][id]
                 \/ /\ Sets(all[k], "pull", s) \/ Sets(all[k], "write", s)
                    /\ all[k].table = r.page[s]
                 \/ Sets(all[k], "cursor", s) /\ all[k].value \in Last(r.page[s], r.since[s])
  BY <1>2, <1>3, <1>4, <1>9 DEF Sets
<1>11. ASSUME Held(r.page[s]) # {}
       PROVE  \E p \in DOMAIN all :
                /\ Sets(all[p], "pull", s) \/ Sets(all[p], "write", s)
                /\ all[p].table = r.page[s]
                /\ \A k \in DOMAIN all :
                     /\ k > p => Sets(all[k], "cursor", s)
                     /\ Sets(all[k], "cursor", s) => k > p
  <2>. DEFINE p == Len(A) + 1
  <2>1. p \in DOMAIN AP /\ AP[p] = pull /\ Len(AP) = Len(A) + Len(P)
    BY <1>6, <1>7, <1>11 DEF Joined
  <2>2. p \in DOMAIN all /\ all[p] = pull
    BY <1>8, <2>1 DEF Joined
  <2>3. Len(P) = 1 /\ Len(A) \in Nat /\ Len(AP) \in Nat
    <3>1. DOMAIN P = 1 .. Len(P) /\ Len(P) \in Nat BY <1>6, LenProperties
    <3>2. Len(P) \in DOMAIN P BY <1>6, <1>11, <3>1
    <3>. QED BY <1>2, <1>6, <1>7, <3>2, LenProperties
  <2>4. ASSUME NEW k \in DOMAIN all
        PROVE  (k > p => Sets(all[k], "cursor", s)) /\ (Sets(all[k], "cursor", s) => k > p)
    <3>1. k \in Nat BY <1>8, LenProperties
    <3>2. Len(AP) = p BY <2>1, <2>3
    <3>. QED BY <1>2, <1>3, <1>4, <1>9, <2>3, <3>1, <3>2 DEF Sets
  <2>. HIDE DEF p
  <2>. QED BY <1>3, <2>2, <2>4 DEF Sets
<1>12. Applied(all, s, r.since[s], r.page[s], r.acked[s])
  BY <1>10, <1>11 DEF Applied
<1>. QED BY <1>5, <1>8, <1>12

\* A statement for each of some rows of a table.
Listed(list, op, s, table, ids) ==
  /\ list \in Seq(Statements)
  /\ \A k \in DOMAIN list :
       /\ list[k].op = op /\ list[k].stream = s
       /\ \A id \in Held(list[k].table) : id \in ids /\ list[k].table[id] = table[id]
  /\ \A id \in ids : \E k \in DOMAIN list : id \in Held(list[k].table)

\* One statement for each row names every one of the rows.
LEMMA RowsAreListed ==
  ASSUME NEW op \in {"write", "delete"}, NEW s \in Streams, NEW table \in Table,
         NEW ids \in SUBSET Held(table)
  PROVE  Listed([i \in DOMAIN Seqs!SetToSeq(ids) |->
                  Rows(op, s, Only(table, {Seqs!SetToSeq(ids)[i]}), EmptyTable)], op, s, table, ids)
<1>. DEFINE ordered == Seqs!SetToSeq(ids)
            one(id) == Rows(op, s, Only(table, {id}), EmptyTable)
            list == [i \in DOMAIN ordered |-> one(ordered[i])]
<1>1. ordered \in Seq(ids) /\ \A x \in ids : \E k \in DOMAIN ordered : ordered[k] = x
  <2>1. IsFiniteSet(ids) BY CountIsNat DEF Held
  <2>. QED BY <2>1, SetAsSeq
<1>2. Len(ordered) \in Nat /\ DOMAIN ordered = 1 .. Len(ordered) /\ \A i \in DOMAIN ordered : ordered[i] \in ids
  BY <1>1, LenProperties, ElementOfSeq
<1>3. ASSUME NEW id \in ids
      PROVE  /\ one(id) \in Statements /\ one(id).stream = s /\ one(id).op = op
             /\ Held(one(id).table) = {id} /\ one(id).table[id] = table[id]
  <2>. DEFINE t == Only(table, {id})
  <2>1. t \in Table /\ Held(t) = {id} /\ t[id] = table[id]
    BY OnlyIsTable
  <2>2. one(id) = Rows(op, s, t, EmptyTable) OBVIOUS
  <2>. HIDE DEF t, one
  <2>. QED BY <2>1, <2>2, RowsIsStatement, EmptyTableIsTable
<1>. HIDE DEF ordered, one
<1>4. DOMAIN list = DOMAIN ordered /\ \A k \in DOMAIN list : list[k] = one(ordered[k]) /\ ordered[k] \in ids
  BY <1>2
<1>5. list \in [1 .. Len(ordered) -> Statements]
  BY <1>2, <1>3
<1>6. list \in Seq(Statements) BY <1>2, <1>5, ListIsSeq
<1>. HIDE DEF list
<1>7. ASSUME NEW k \in DOMAIN list
      PROVE  /\ list[k].op = op /\ list[k].stream = s
             /\ \A id \in Held(list[k].table) : id \in ids /\ list[k].table[id] = table[id]
  BY <1>3, <1>4
<1>8. ASSUME NEW id \in ids PROVE \E k \in DOMAIN list : id \in Held(list[k].table)
  BY <1>1, <1>3, <1>4
<1>9. Listed(list, op, s, table, ids)
  BY <1>6, <1>7, <1>8 DEF Listed
<1>. QED BY <1>9 DEF list, one, ordered

\* The same of the writes of a Restore or a Merge.
LEMMA WritesAreListed ==
  ASSUME NEW s \in Streams, NEW table \in Table, NEW ids \in SUBSET Held(table)
  PROVE  Listed(Writes(s, table, ids), "write", s, table, ids)
  BY RowsAreListed DEF Writes

\* restoreTable writes the rows the file has otherwise and deletes those it
\* does not have.
LEMMA RestoreTablePlan ==
  ASSUME NEW db \in Database, NEW backup \in Database, NEW s \in Streams
  PROVE  LET list == RestoreTable(db, backup, s)
         IN  /\ list \in Seq(Statements)
             /\ \A k \in DOMAIN list :
                  /\ list[k].stream = s /\ list[k].op \in {"write", "delete"}
                  /\ \A id \in Held(list[k].table) :
                       IF list[k].op = "write" THEN list[k].table[id] = backup.rows[s][id]
                                               ELSE backup.rows[s][id] = NoRow
             /\ \A id \in Ids :
                  \/ backup.rows[s][id] = NoRow /\ db.rows[s][id] = NoRow
                  \/ backup.rows[s][id] # NoRow /\ SameRow(db.rows[s][id], backup.rows[s][id])
                  \/ \E k \in DOMAIN list : id \in Held(list[k].table)
<1>. DEFINE old == db.rows[s]
            new == backup.rows[s]
            back == {id \in Held(new) : ~SameRow(old[id], new[id])}
            gone == Held(old) \ Held(new)
            W == Writes(s, new, back)
            D == [i \in DOMAIN Seqs!SetToSeq(gone) |->
                   Rows("delete", s, Only(old, {Seqs!SetToSeq(gone)[i]}), EmptyTable)]
            list == W \o D
<1>1. old \in Table /\ new \in Table BY DatabaseFields
<1>2. Listed(W, "write", s, new, back) BY <1>1, WritesAreListed
<1>3. Listed(D, "delete", s, old, gone) BY <1>1, RowsAreListed
<1>4. RestoreTable(db, backup, s) = list BY DEF RestoreTable
<1>. HIDE DEF W, D
<1>5. list \in Seq(Statements) /\ Joined(list, W, D)
  BY <1>2, <1>3, ConcatAt DEF Listed
<1>. HIDE DEF list
<1>6. ASSUME NEW k \in DOMAIN list
      PROVE  /\ list[k].stream = s
             /\ \/ /\ list[k].op = "write"
                   /\ \A id \in Held(list[k].table) : list[k].table[id] = new[id]
                \/ /\ list[k].op = "delete"
                   /\ \A id \in Held(list[k].table) : id \in gone
  <2>1. CASE k \in DOMAIN W
    <3>1. list[k] = W[k] BY <1>5, <2>1 DEF Joined
    <3>. QED BY <1>2, <2>1, <3>1 DEF Listed
  <2>2. CASE k > Len(W) /\ k - Len(W) \in DOMAIN D
    <3>1. k \in Nat /\ Len(W) \in Nat BY <1>5, LenProperties DEF Joined
    <3>2. Len(W) + (k - Len(W)) = k BY <3>1
    <3>3. list[k] = D[k - Len(W)] BY <1>5, <2>2, <3>2 DEF Joined
    <3>. QED BY <1>3, <2>2, <3>3 DEF Listed
  <2>. QED BY <1>5, <2>1, <2>2 DEF Joined
<1>7. \A id \in gone : new[id] = NoRow
  BY DEF Held
<1>8. ASSUME NEW id \in Ids, ~(new[id] = NoRow /\ old[id] = NoRow),
             ~(new[id] # NoRow /\ SameRow(old[id], new[id]))
      PROVE  \E k \in DOMAIN list : id \in Held(list[k].table)
  <2>1. CASE new[id] = NoRow
    <3>1. id \in gone BY <1>8, <2>1 DEF Held
    <3>2. PICK k \in DOMAIN D : id \in Held(D[k].table) BY <1>3, <3>1 DEF Listed
    <3>3. Len(W) + k \in DOMAIN list /\ list[Len(W) + k] = D[k] BY <1>5 DEF Joined
    <3>. QED BY <3>2, <3>3
  <2>2. CASE new[id] # NoRow
    <3>1. id \in back BY <1>8, <2>2 DEF Held
    <3>2. PICK k \in DOMAIN W : id \in Held(W[k].table) BY <1>2, <3>1 DEF Listed
    <3>3. k \in DOMAIN list /\ list[k] = W[k] BY <1>5 DEF Joined
    <3>. QED BY <3>2, <3>3
  <2>. QED BY <2>1, <2>2
<1>. QED BY <1>4, <1>5, <1>6, <1>7, <1>8

\* A row of the file as a Merge writes it.
AsPending(backup) == [backup EXCEPT !.seq = Pending]

\* mergeTable writes what wins, as a local edit.
LEMMA MergeTablePlan ==
  ASSUME NEW db \in Database, NEW backup \in Database, NEW s \in Streams
  PROVE  LET list == MergeTable(db, backup, s)
             merged(id) == AsPending(backup.rows[s][id])
             wins(id) == backup.rows[s][id] # NoRow /\ Merges(s, db.rows[s][id], merged(id))
         IN  /\ list \in Seq(Statements)
             /\ \A k \in DOMAIN list :
                  /\ list[k].stream = s /\ list[k].op = "write"
                  /\ \A id \in Held(list[k].table) : /\ wins(id) /\ list[k].table[id] = merged(id)
                                                     /\ merged(id).seq = Pending
             /\ \A id \in Ids : wins(id) => \E k \in DOMAIN list : id \in Held(list[k].table)
<1>. DEFINE old == db.rows[s]
            new == backup.rows[s]
            merged(id) == AsPending(new[id])
            unsynced == [id \in Ids |-> IF new[id] = NoRow THEN NoRow ELSE merged(id)]
            ids == {id \in Held(unsynced) : Merges(s, old[id], unsynced[id])}
            list == Writes(s, unsynced, ids)
<1>1. old \in Table /\ new \in Table BY DatabaseFields
<1>2. ASSUME NEW id \in Ids, new[id] # NoRow
      PROVE  merged(id) \in Row /\ merged(id) # NoRow /\ merged(id).seq = Pending
  <2>1. new[id] \in Row BY <1>1, <1>2 DEF Table, Maybe
  <2>2. merged(id) \in Row /\ merged(id).seq = Pending BY <2>1 DEF Row, Pending, AsPending
  <2>. QED BY <2>2, NoRowIsNoRow
<1>. HIDE DEF merged
<1>3. unsynced \in Table /\ \A id \in Ids : unsynced[id] = IF new[id] = NoRow THEN NoRow ELSE merged(id)
  BY <1>2 DEF Table, Maybe
<1>4. MergeTable(db, backup, s) = list BY DEF MergeTable, merged, AsPending
<1>. HIDE DEF unsynced
<1>5. Listed(list, "write", s, unsynced, ids) BY <1>3, WritesAreListed
<1>. HIDE DEF list
<1>6. \A id \in Ids : id \in ids <=> (new[id] # NoRow /\ Merges(s, old[id], merged(id)))
  BY <1>2, <1>3 DEF Held
<1>. HIDE DEF ids
<1>7. ASSUME NEW k \in DOMAIN list, NEW id \in Held(list[k].table)
      PROVE  id \in Ids /\ id \in ids /\ list[k].table[id] = merged(id) /\ merged(id).seq = Pending
  <2>1. id \in Ids BY DEF Held
  <2>2. id \in ids /\ list[k].table[id] = unsynced[id] BY <1>5 DEF Listed
  <2>. QED BY <1>2, <1>3, <1>6, <2>1, <2>2
<1>. QED BY <1>4, <1>5, <1>6, <1>7 DEF Listed, merged

\* restoreKv writes keys of kv as the file has them.
LEMMA RestoreKvPlan ==
  ASSUME NEW db \in Database, NEW backup \in Database
  PROVE  /\ RestoreKv(db, backup) \in Seq(Statements)
         /\ \A k \in DOMAIN RestoreKv(db, backup) :
              /\ RestoreKv(db, backup)[k].op \in {"cursor", "epoch"}
              /\ RestoreKv(db, backup)[k].op = "cursor" =>
                   RestoreKv(db, backup)[k].value = backup.cursor[RestoreKv(db, backup)[k].stream]
<1>. DEFINE C(s) == IF backup.cursor[s] = db.cursor[s] THEN <<>> ELSE <<Key("cursor", s, backup.cursor[s])>>
            E(s) == IF backup.epoch[s] = db.epoch[s] THEN <<>> ELSE <<Key("epoch", s, backup.epoch[s])>>
            lists == [s \in Streams |-> C(s) \o E(s)]
            flat == InOrder(lists)
<1>1. ASSUME NEW s \in Streams
      PROVE  /\ lists[s] \in Seq(Statements)
             /\ \A k \in DOMAIN lists[s] : /\ lists[s][k].stream = s /\ lists[s][k].op \in {"cursor", "epoch"}
                                           /\ lists[s][k].op = "cursor" => lists[s][k].value = backup.cursor[s]
  <2>. DEFINE c == Key("cursor", s, backup.cursor[s])
              e == Key("epoch", s, backup.epoch[s])
              cs == C(s)
              es == E(s)
              all == cs \o es
  <2>0. backup.cursor[s] \in Nat /\ backup.epoch[s] \in {0, 1} /\ backup.epoch[s] \in Nat
    BY DatabaseFields
  <2>1. /\ c \in Statements /\ e \in Statements /\ c.stream = s /\ e.stream = s /\ c.op = "cursor"
        /\ c.value = backup.cursor[s] /\ e.op = "epoch"
    BY <2>0, KeyIsStatement
  <2>2. /\ <<>> \in Seq(Statements) /\ DOMAIN <<>> = {}
        /\ <<c>> \in Seq(Statements) /\ DOMAIN <<c>> = {1} /\ <<c>>[1] = c
        /\ <<e>> \in Seq(Statements) /\ DOMAIN <<e>> = {1} /\ <<e>>[1] = e
    BY <2>1, TwoOfThem
  <2>3. lists[s] = all OBVIOUS
  <2>4. (cs = <<>> \/ cs = <<c>>) /\ (es = <<>> \/ es = <<e>>) OBVIOUS
  <2>. HIDE DEF c, e, cs, es
  <2>5. cs \in Seq(Statements) /\ es \in Seq(Statements) BY <2>2, <2>4
  <2>6. all \in Seq(Statements) /\ Joined(all, cs, es) BY <2>5, ConcatAt
  <2>7. \A k \in DOMAIN cs : cs[k] = c BY <2>2, <2>4
  <2>8. \A k \in DOMAIN es : es[k] = e BY <2>2, <2>4
  <2>. HIDE DEF all
  <2>9. ASSUME NEW k \in DOMAIN all PROVE all[k] = c \/ all[k] = e
    <3>1. CASE k \in DOMAIN cs BY <2>6, <2>7, <3>1 DEF Joined
    <3>2. CASE k > Len(cs) /\ k - Len(cs) \in DOMAIN es
      <4>1. k \in Nat /\ Len(cs) \in Nat BY <2>6, LenProperties DEF Joined
      <4>2. Len(cs) + (k - Len(cs)) = k BY <4>1
      <4>. QED BY <2>6, <2>8, <3>2, <4>2 DEF Joined
    <3>. QED BY <2>6, <3>1, <3>2 DEF Joined
  <2>. HIDE DEF lists
  <2>. QED BY <2>1, <2>3, <2>6, <2>9
<1>2. lists \in [Streams -> Seq(Statements)] /\ RestoreKv(db, backup) = flat
  BY <1>1 DEF RestoreKv
<1>. HIDE DEF lists
<1>3. /\ flat \in Seq(Statements)
      /\ \A s \in Streams : \E at \in Nat : Placed(flat, lists, s, at)
  BY <1>1, <1>2, InOrderPlaces
<1>. HIDE DEF flat
<1>4. ASSUME NEW m \in DOMAIN flat
      PROVE  /\ flat[m].op \in {"cursor", "epoch"}
             /\ flat[m].op = "cursor" => flat[m].value = backup.cursor[flat[m].stream]
  <2>1. flat[m].stream \in Streams BY <1>3, ElementOfSeq, StatementFields
  <2>2. PICK at \in Nat : Placed(flat, lists, flat[m].stream, at) BY <1>3, <2>1
  <2>. QED BY <1>1, <2>1, <2>2 DEF Placed
<1>. QED BY <1>2, <1>3, <1>4

\* Every table is read, and nothing but tables.
LEMMA ReadAllReads ==
  /\ ReadAll \in Seq(Reads)
  /\ \A k \in DOMAIN ReadAll : ReadAll[k].op = "read"
  /\ \A s \in Streams : \E k \in DOMAIN ReadAll : ReadAll[k] = ReadTable(s)
<1>1. TableOrder \in Seq(Streams \cup {Kv}) /\ Range(TableOrder) = Streams \cup {Kv}
  BY BackupsAssumption
<1>2. Len(TableOrder) \in Nat /\ DOMAIN TableOrder = 1 .. Len(TableOrder)
      /\ \A i \in DOMAIN TableOrder : TableOrder[i] \in Streams \cup {Kv}
  BY <1>1, LenProperties, ElementOfSeq
<1>3. DOMAIN ReadAll = DOMAIN TableOrder /\ \A i \in DOMAIN ReadAll : ReadAll[i] = ReadTable(TableOrder[i])
  BY DEF ReadAll
<1>4. \A i \in DOMAIN ReadAll : ReadAll[i] \in Reads /\ ReadAll[i].op = "read"
  BY <1>2, <1>3 DEF ReadTable, Reads
<1>5. ReadAll \in [1 .. Len(TableOrder) -> Reads]
  BY <1>2, <1>4 DEF ReadAll
<1>6. ReadAll \in Seq(Reads) BY <1>2, <1>5, ListIsSeq
<1>7. \A s \in Streams : \E k \in DOMAIN ReadAll : ReadAll[k] = ReadTable(s)
  BY <1>1, <1>3 DEF Range
<1>. QED BY <1>4, <1>6, <1>7

\* The type invariant of the state sync() works on.
SyncTypes ==
  /\ rows \in Tables /\ store \in [Devices -> Database] /\ minted \subseteq Streams \X Ids
  /\ clock \in [Devices -> Nat] /\ run \in [Devices -> Run] /\ bound \in Bound

\* The type invariant of the state the jobs add.
JobTypes ==
  /\ job \in [Devices -> Job] /\ file \in Database \cup {NoFile}
  /\ saved \in [Devices -> Database] /\ torn \in [Devices -> SUBSET Streams]

\* Together they are the type invariant.
LEMMA TypesTogether == TypeOK <=> SyncTypes /\ JobTypes
  BY DEF TypeOK, SyncTypes, JobTypes

\* The same after a step.
LEMMA TypesTogetherNext == TypeOK' <=> SyncTypes' /\ JobTypes'
  BY TypesTogether, PTL

\* What a bound holds, part by part.
LEMMA BoundFields ==
  ASSUME bound \in Bound
  PROVE  /\ bound.devices \subseteq Devices /\ bound.online \subseteq Devices
         /\ bound.streams \subseteq Streams /\ bound.ids \subseteq Ids /\ bound.bodies \subseteq Bodies
         /\ bound.shared \in BOOLEAN /\ bound.clock \in [Devices -> Nat] /\ bound.fails \in Nat
         /\ bound.jobs \in [Devices -> SUBSET {"backup", "restore", "merge"}]
  BY DEF Bound

\* A failure uses up one of those a run may have.
LEMMA FailsLeft ==
  ASSUME bound \in Bound, bound.fails > 0, bound' = [bound EXCEPT !.fails = @ - 1]
  PROVE  bound' \in Bound
  BY DEF Bound

\* The number of pending rows is a number.
LEMMA TotalIsNat ==
  ASSUME NEW db \in Database
  PROVE  PendingTotal(db) \in Nat
<1>1. IsFiniteSet(Streams)
  <2>1. Order \in Surjection(1 .. Len(Order), Streams) /\ IsFiniteSet(1 .. Len(Order))
    <3>1. DOMAIN Order = 1 .. Len(Order) /\ Len(Order) \in Nat /\ Order \in Seq(Streams)
      BY OrderIsList, StreamsAssumption
    <3>2. Order \in [1 .. Len(Order) -> Streams] BY <3>1, LenProperties
    <3>3. \A s \in Streams : \E i \in 1 .. Len(Order) : Order[i] = s BY <3>1, OrderIsList
    <3>. QED BY <3>1, <3>2, <3>3, FS_Interval DEF Surjection
  <2>. QED BY <2>1, FS_Surjection
<1>2. IsFiniteSet(Streams \X Ids)
  BY <1>1, StreamsAssumption, FS_Product
<1>3. IsFiniteSet({row \in Streams \X Ids : row[2] \in PendingRows(db, row[1])})
  BY <1>2, FS_Subset
<1>. QED BY <1>3, FS_CardinalityType DEF PendingTotal

\* What the user writes is a pending row.
LEMMA UserWrites ==
  ASSUME SyncTypes, NEW d \in Devices, Create(d) \/ Change(d)
  PROVE  /\ \E s \in Streams, id \in Ids, row \in Row : row.seq = Pending /\ UserWrite(d, s, id, row)
         /\ minted' \subseteq Streams \X Ids
<1>. USE DEF SyncTypes
<1>1. CASE Create(d)
  <2>1. PICK s \in bound.streams, id \in bound.ids, body \in bound.bodies, now \in 1 .. bound.clock[d] :
          minted' = minted \cup {<<s, id>>} /\ UserWrite(d, s, id, Captured(body, now))
    BY <1>1 DEF Create
  <2>2. s \in Streams /\ id \in Ids /\ body \in Bodies /\ now \in Nat
    BY BoundFields
  <2>3. Captured(body, now) \in Row /\ Captured(body, now).seq = Pending
    BY <2>2 DEF Captured, Row, Pending
  <2>. QED BY <2>1, <2>2, <2>3
<1>2. CASE Change(d)
  <2>1. PICK s \in bound.streams \ AppendOnly, id \in bound.ids, now \in 1 .. bound.clock[d] :
          LET old == store[d].rows[s][id]
          IN  /\ old # NoRow
              /\ ~old.deleted
              /\ \/ \E body \in bound.bodies : UserWrite(d, s, id, Edited(old, body, now))
                 \/ UserWrite(d, s, id, Removed(old, now))
              /\ UNCHANGED minted
    BY <1>2 DEF Change
  <2>. DEFINE old == store[d].rows[s][id]
  <2>2. s \in Streams /\ id \in Ids /\ now \in Nat
    BY BoundFields
  <2>3. old \in Row /\ ~old.deleted
    BY <2>1, <2>2, DatabaseFields DEF Maybe
  <2>. HIDE DEF old
  <2>4. ASSUME NEW body \in bound.bodies
        PROVE  Edited(old, body, now) \in Row /\ Edited(old, body, now).seq = Pending
    <3>1. body \in Bodies BY BoundFields
    <3>. QED BY <2>2, <2>3, <3>1 DEF Edited, Row, Pending
  <2>5. Removed(old, now) \in Row /\ Removed(old, now).seq = Pending
    BY <2>2, <2>3 DEF Removed, Row, Pending
  <2>6. \/ \E body \in bound.bodies : UserWrite(d, s, id, Edited(old, body, now))
        \/ UserWrite(d, s, id, Removed(old, now))
    BY <2>1 DEF old
  <2>. QED BY <2>1, <2>2, <2>4, <2>5, <2>6
<1>. QED BY <1>1, <1>2

\* An edit changes one row and nothing else of its Device's database.
LEMMA UserWriteTyped ==
  ASSUME SyncTypes, NEW d \in Devices, NEW s \in Streams, NEW id \in Ids, NEW row \in Row,
         UserWrite(d, s, id, row)
  PROVE  /\ store' \in [Devices -> Database] /\ clock' \in [Devices -> Nat]
         /\ store'[d] \in Database
         /\ store'[d].cursor = store[d].cursor /\ store'[d].epoch = store[d].epoch
         /\ store'[d].rows[s][id] = row
         /\ \A z \in Streams, x \in Ids : ~(z = s /\ x = id) => store'[d].rows[z][x] = store[d].rows[z][x]
<1>. DEFINE new == [store[d] EXCEPT !.rows[s][id] = row]
            t == [store[d].rows[s] EXCEPT ![id] = row]
            R == [store[d].rows EXCEPT ![s] = t]
<1>1. store[d] \in Database /\ store[d].rows \in Tables /\ store[d].rows[s] \in Table
  BY DatabaseFields DEF SyncTypes
<1>2. t \in Table /\ t[id] = row /\ \A x \in Ids : x # id => t[x] = store[d].rows[s][x]
  BY <1>1 DEF Table, Maybe
<1>3. store' = [store EXCEPT ![d].rows[s][id] = row] /\ clock' = [clock EXCEPT ![d] = row.upd] /\ row.upd \in Nat
  BY DEF UserWrite, Row
<1>4. store' = [store EXCEPT ![d] = new] BY <1>3
<1>5. new = [store[d] EXCEPT !.rows = R] OBVIOUS
<1>. HIDE DEF t
<1>6. R \in Tables /\ R[s] = t /\ \A z \in Streams : z # s => R[z] = store[d].rows[z]
  BY <1>1, <1>2 DEF Tables
<1>. HIDE DEF R
<1>7. new \in Database /\ new.rows = R /\ new.cursor = store[d].cursor /\ new.epoch = store[d].epoch
  BY <1>1, <1>5, <1>6 DEF Database
<1>. HIDE DEF new
<1>8. store'[d] = new /\ store' \in [Devices -> Database]
  BY <1>4, <1>7 DEF SyncTypes
<1>. QED BY <1>2, <1>3, <1>6, <1>7, <1>8 DEF SyncTypes

\* The one request a run has open, at the Server.
LEMMA CommitTyped ==
  ASSUME SyncTypes, NEW d \in Devices, RunFits(d), Commit(d)
  PROVE  /\ SyncTypes' /\ UNCHANGED store
         /\ \E s \in Streams :
              /\ \A z \in Streams \ {s} : rows'[z] = rows[z]
              /\ \A id \in Ids : \/ rows'[s][id] = rows[s][id]
                                 \/ /\ rows'[s][id] # NoRow
                                    /\ \A old \in Held(rows[s]) : rows'[s][id].seq > rows[s][old].seq
                                    /\ rows'[s][id].seq \in Nat /\ rows'[s][id].seq > 0
              /\ run'[d] = [run[d] EXCEPT !.acked[s] = Only(rows'[s], Held(run[d].push[s]))]
              /\ run'[d].acked[s] = Only(rows'[s], Held(run[d].push[s]))
              /\ \A z \in Streams \ {s} : run'[d].acked[z] = run[d].acked[z]
<1>. DEFINE s == Order[run[d].at]
            push == run[d].push[s]
            changed == {id \in Held(push) : Inserts(s, rows[s][id], push[id])}
<1>1. s \in Streams /\ rows[s] \in Table /\ push \in Table /\ run[d] \in Run /\ run[d].acked \in Tables
  <2>1. run[d].pc = "server" BY DEF Commit
  <2>2. run[d].at \in DOMAIN Order BY <2>1 DEF RunFits
  <2>3. s \in Streams BY <2>2, OrderIsList
  <2>. HIDE DEF s
  <2>. QED BY <2>3, RunFields DEF SyncTypes, Tables
<1>2. PICK last \in Last(rows[s], 0) : \E seqs \in Bijection(changed, (last + 1) .. (last + Cardinality(changed))) :
        rows' = [rows EXCEPT ![s] = [id \in Ids |-> IF id \in changed THEN Stored(push[id], seqs[id]) ELSE @[id]]]
  BY DEF Commit
<1>20. PICK seqs \in Bijection(changed, (last + 1) .. (last + Cardinality(changed))) :
        rows' = [rows EXCEPT ![s] = [id \in Ids |-> IF id \in changed THEN Stored(push[id], seqs[id]) ELSE @[id]]]
  BY <1>2
<1>3. /\ run' = [run EXCEPT ![d].acked[s] = Only(rows'[s], Held(push))]
      /\ UNCHANGED <<store, minted, clock, bound>>
  BY DEF Commit
<1>. HIDE DEF s
<1>4. last \in Nat /\ \A id \in Held(rows[s]) : rows[s][id].seq <= last /\ rows[s][id].seq \in Nat
  BY <1>1, LastIsNat, HeldRow
<1>5. changed \in SUBSET Ids /\ Cardinality(changed) \in Nat
  <2>1. changed \in SUBSET Ids BY DEF Held
  <2>. QED BY <2>1, CountIsNat
<1>6. \A id \in changed : seqs[id] \in Nat /\ seqs[id] > last
  BY <1>4, <1>5 DEF Bijection, Injection
<1>7. \A id \in changed : id \in Held(push) /\ push[id] \in Row
  BY <1>1, HeldRow
<1>. HIDE DEF changed
<1>8. \A id \in changed : /\ Stored(push[id], seqs[id]) \in Row /\ Stored(push[id], seqs[id]) # NoRow
                          /\ Stored(push[id], seqs[id]).seq = seqs[id]
  BY <1>6, <1>7, StoredIsRow, NoRowIsNoRow
<1>. DEFINE t == [id \in Ids |-> IF id \in changed THEN Stored(push[id], seqs[id]) ELSE rows[s][id]]
<1>9. t \in Table /\ rows' = [rows EXCEPT ![s] = t]
  BY <1>1, <1>20, <1>8 DEF Table, Maybe
<1>10. \A id \in Ids : \/ t[id] = rows[s][id]
                       \/ /\ t[id] # NoRow
                          /\ \A old \in Held(rows[s]) : t[id].seq > rows[s][old].seq
                          /\ t[id].seq \in Nat /\ t[id].seq > 0
  <2>. SUFFICES ASSUME NEW id \in changed, id \in Ids
                PROVE  /\ t[id] # NoRow /\ \A old \in Held(rows[s]) : t[id].seq > rows[s][old].seq
                       /\ t[id].seq \in Nat /\ t[id].seq > 0
    OBVIOUS
  <2>1. t[id] = Stored(push[id], seqs[id]) OBVIOUS
  <2>2. t[id].seq = seqs[id] /\ t[id] # NoRow BY <1>8, <2>1
  <2>. QED BY <1>4, <1>6, <2>2
<1>. HIDE DEF t
<1>11. rows' \in Tables /\ rows'[s] = t /\ \A z \in Streams \ {s} : rows'[z] = rows[z]
  BY <1>1, <1>9 DEF SyncTypes, Tables
<1>. DEFINE a == Only(rows'[s], Held(push))
            A == [run[d].acked EXCEPT ![s] = a]
            new == [run[d] EXCEPT !.acked = A]
<1>12. a \in Table BY <1>9, <1>11, OnlyIsTable
<1>13. run' = [run EXCEPT ![d] = new] /\ new = [run[d] EXCEPT !.acked[s] = a] BY <1>3
<1>. HIDE DEF a
<1>14. A \in Tables /\ A[s] = a /\ \A z \in Streams \ {s} : A[z] = run[d].acked[z]
  BY <1>1, <1>12 DEF Tables
<1>. HIDE DEF A
<1>15. new \in Run /\ new.acked = A
  BY <1>1, <1>14 DEF Run
<1>. HIDE DEF new
<1>16. run'[d] = new /\ run' \in [Devices -> Run]
  BY <1>13, <1>15 DEF SyncTypes
<1>17. SyncTypes' BY <1>3, <1>11, <1>16 DEF SyncTypes
<1>18. run'[d] = [run[d] EXCEPT !.acked[s] = a] /\ run'[d].acked[s] = a
       /\ \A z \in Streams \ {s} : run'[d].acked[z] = run[d].acked[z]
  BY <1>13, <1>14, <1>15, <1>16
<1>19. UNCHANGED store BY <1>3
<1>. QED BY <1>1, <1>10, <1>11, <1>17, <1>18, <1>19 DEF a

\* Some of what a run holds is what it starts and ends with.
LEMMA IdleFields ==
  ASSUME NEW pc \in {"idle", "loop", "apply"}, NEW todo \in Seq(Statements), NEW again \in BOOLEAN, NEW stalledAt \in Nat
  PROVE  /\ [Idle EXCEPT !.pc = pc, !.todo = todo] \in Run
         /\ [Idle EXCEPT !.pc = pc, !.stalledAt = stalledAt] \in Run
         /\ [Idle EXCEPT !.pc = pc, !.todo = todo, !.again = again, !.stalledAt = stalledAt] \in Run
  BY NothingIsTyped DEF Run, Idle

\* A step of one Device's run leaves the other Devices' alone.
LEMMA RunTyped ==
  ASSUME SyncTypes, NEW d \in Devices, NEW r \in Run, run' = [run EXCEPT ![d] = r]
  PROVE  run' \in [Devices -> Run] /\ run'[d] = r /\ \A e \in Devices \ {d} : run'[e] = run[e]
  BY DEF SyncTypes

\* A step on one Device's database leaves the other Devices' alone.
LEMMA StoreTyped ==
  ASSUME SyncTypes, NEW d \in Devices, NEW db \in Database, store' = [store EXCEPT ![d] = db]
  PROVE  store' \in [Devices -> Database] /\ store'[d] = db /\ \A e \in Devices \ {d} : store'[e] = store[e]
  BY DEF SyncTypes

\* A statement of sync(): it executes the first of those due and drops it.
LEMMA StatementTyped ==
  ASSUME SyncTypes, NEW d \in Devices, Statement(d)
  PROVE  /\ SyncTypes'
         /\ run[d].todo # <<>> /\ run[d].todo \in Seq(Statements) /\ Head(run[d].todo) \in Statements
         /\ store'[d] = Execute(store[d], Head(run[d].todo))
         /\ run'[d] = [run[d] EXCEPT !.todo = Tail(@)] /\ run'[d].todo = Tail(run[d].todo)
         /\ run'[d].pc = run[d].pc /\ run'[d].since = run[d].since /\ run'[d].page = run[d].page
         /\ run'[d].at = run[d].at
<1>1. run[d] \in Run /\ store[d] \in Database /\ run[d].todo \in Seq(Statements)
  BY RunFields DEF SyncTypes
<1>2. run[d].todo # <<>> /\ UNCHANGED <<rows, minted, clock, bound>>
  BY DEF Statement
<1>3. Head(run[d].todo) \in Statements /\ Tail(run[d].todo) \in Seq(Statements)
  BY <1>1, <1>2, TailAt
<1>. DEFINE db == Execute(store[d], Head(run[d].todo))
            r == [run[d] EXCEPT !.todo = Tail(@)]
<1>4. store' = [store EXCEPT ![d] = db] /\ run' = [run EXCEPT ![d] = r]
  BY DEF Statement
<1>5. db \in Database BY <1>1, <1>3, ExecuteWrites
<1>6. /\ r \in Run /\ r.todo = Tail(run[d].todo) /\ r.pc = run[d].pc /\ r.since = run[d].since
      /\ r.page = run[d].page /\ r.at = run[d].at
  BY <1>1, <1>3 DEF Run
<1>. HIDE DEF db, r
<1>7. store' \in [Devices -> Database] /\ store'[d] = db BY <1>4, <1>5, StoreTyped
<1>8. run' \in [Devices -> Run] /\ run'[d] = r BY <1>4, <1>6, RunTyped
<1>9. SyncTypes' BY <1>2, <1>7, <1>8 DEF SyncTypes
<1>. QED BY <1>1, <1>2, <1>3, <1>6, <1>7, <1>8, <1>9 DEF db, r

\* The start of a run: the Cursors of the streams behind their epoch are to
\* be reset.
LEMMA StartSyncTyped ==
  ASSUME SyncTypes, NEW d \in Devices, StartSync(d)
  PROVE  /\ SyncTypes' /\ UNCHANGED <<rows, store>>
         /\ run'[d] = [Idle EXCEPT !.pc = "loop", !.todo = InOrder(CatchUp(store[d]))]
         /\ run'[d].todo = InOrder(CatchUp(store[d])) /\ run'[d].pc = "loop"
         /\ run'[d].page = NoTables /\ run'[d].since = [s \in Streams |-> 0]
<1>. DEFINE todo == InOrder(CatchUp(store[d]))
            r == [Idle EXCEPT !.pc = "loop", !.todo = todo]
<1>1. todo \in Seq(Statements) BY CatchUpResets DEF SyncTypes
<1>2. run' = [run EXCEPT ![d] = r] /\ UNCHANGED <<rows, store, minted, clock, bound>> BY DEF StartSync
<1>. HIDE DEF todo
<1>3. r \in Run /\ r.todo = todo /\ r.pc = "loop" /\ r.page = NoTables /\ r.since = [s \in Streams |-> 0]
  BY <1>1, IdleFields DEF Idle
<1>. HIDE DEF r
<1>4. run' \in [Devices -> Run] /\ run'[d] = r BY <1>2, <1>3, RunTyped
<1>. QED BY <1>2, <1>3, <1>4 DEF SyncTypes, todo, r

\* The steps that end a run or take it back to the top of the loop.
LEMMA RunEndsTyped ==
  ASSUME SyncTypes, NEW d \in Devices, GiveUp(d) \/ EndIteration(d) \/ Fail(d)
  PROVE  /\ SyncTypes' /\ UNCHANGED <<rows, store>>
         /\ run'[d].todo = <<>> /\ run'[d].pc \in {"idle", "loop"}
         /\ run'[d].page = NoTables /\ run'[d].since = [s \in Streams |-> 0]
<1>1. run[d].stalledAt \in Nat BY RunFields DEF SyncTypes
<1>. DEFINE again == [Idle EXCEPT !.pc = "loop", !.stalledAt = run[d].stalledAt]
<1>2. again \in Run BY <1>1, IdleFields, EmptySeq
<1>3. Idle \in Run BY NothingIsTyped
<1>4. \E r \in {Idle, again} : run' = [run EXCEPT ![d] = r]
  <2>1. CASE run' = [run EXCEPT ![d] = Idle] BY <2>1
  <2>2. CASE EndIteration(d)
    <3>1. run' = [run EXCEPT ![d] = IF run[d].again THEN again ELSE Idle] BY <2>2 DEF EndIteration
    <3>. HIDE DEF again
    <3>. QED BY <3>1
  <2>. QED BY <2>1, <2>2 DEF GiveUp, Fail
<1>5. /\ again.todo = <<>> /\ again.pc \in {"idle", "loop"} /\ again.page = NoTables
      /\ again.since = [s \in Streams |-> 0]
      /\ Idle.todo = <<>> /\ Idle.pc \in {"idle", "loop"} /\ Idle.page = NoTables
      /\ Idle.since = [s \in Streams |-> 0]
  BY DEF Idle
<1>. HIDE DEF again
<1>6. PICK r \in {Idle, again} : run' = [run EXCEPT ![d] = r] BY <1>4
<1>7. r \in Run BY <1>2, <1>3
<1>8. run' \in [Devices -> Run] /\ run'[d] = r BY <1>6, <1>7, RunTyped
<1>9. UNCHANGED <<rows, store, minted, clock>> BY DEF GiveUp, EndIteration, Fail
<1>10. bound' \in Bound
  <2>1. bound \in Bound BY DEF SyncTypes
  <2>2. bound' = bound \/ (bound.fails > 0 /\ bound' = [bound EXCEPT !.fails = @ - 1])
    BY DEF GiveUp, EndIteration, Fail
  <2>. QED BY <2>1, <2>2, FailsLeft
<1>11. SyncTypes' BY <1>8, <1>9, <1>10 DEF SyncTypes
<1>. QED BY <1>5, <1>8, <1>9, <1>11

\* A push: the run sends what it holds from the Cursors of the Device.
LEMMA PushTyped ==
  ASSUME SyncTypes, NEW d \in Devices, Push(d)
  PROVE  /\ SyncTypes' /\ UNCHANGED <<rows, store>>
         /\ run'[d].todo = <<>> /\ run'[d].pc = "server" /\ run'[d].at = 1
         /\ run'[d].since = store[d].cursor /\ run'[d].page = NoTables /\ run'[d].acked = NoTables
<1>. DEFINE db == store[d]
            batches(s) == {ids \in SUBSET PendingRows(db, s) :
              \/ ids = PendingRows(db, s) /\ Cardinality(ids) <= BatchSize
              \/ Cardinality(ids) = BatchSize}
            again == \E s \in Streams : Cardinality(PendingRows(db, s)) > BatchSize
            total == PendingTotal(db)
            Req(push) == [Idle EXCEPT !.pc = "server", !.push = push, !.since = db.cursor,
                                      !.total = total, !.again = again]
<1>1. PICK batch \in [Streams -> UNION {batches(s) : s \in Streams}] :
        run' = [run EXCEPT ![d] = Req([s \in Streams |-> Only(db.rows[s], batch[s])])]
  BY DEF Push
<1>2. UNCHANGED <<rows, store, minted, clock, bound>> BY DEF Push
<1>. DEFINE push == [s \in Streams |-> Only(db.rows[s], batch[s])]
            r == Req(push)
<1>3. db \in Database /\ db.cursor \in [Streams -> Nat] BY DatabaseFields DEF SyncTypes
<1>4. push \in Tables
  <2>1. \A s \in Streams : db.rows[s] \in Table BY <1>3, DatabaseFields
  <2>. QED BY <2>1, OnlyIsTable DEF Tables
<1>5. total \in Nat /\ again \in BOOLEAN BY <1>3, TotalIsNat
<1>. HIDE DEF push, total, again
<1>6. /\ r \in Run /\ r.todo = <<>> /\ r.pc = "server" /\ r.at = 1
      /\ r.since = store[d].cursor /\ r.page = NoTables /\ r.acked = NoTables
  BY <1>3, <1>4, <1>5, NothingIsTyped DEF Run, Idle
<1>7. run' = [run EXCEPT ![d] = r] BY <1>1 DEF push, total, again
<1>. HIDE DEF r
<1>8. run' \in [Devices -> Run] /\ run'[d] = r BY <1>6, <1>7, RunTyped
<1>9. SyncTypes' BY <1>2, <1>8 DEF SyncTypes
<1>. QED BY <1>2, <1>6, <1>8, <1>9

\* What a run has of the answer after one more stream is read.
Answered(d) ==
  LET s == Order[run[d].at]
  IN  [run[d] EXCEPT !.page[s] = Only(rows[s], Page(rows[s], run[d].since[s], BatchSize)), !.at = @ + 1]

\* One stream of the Server's answer: its page, read in one go.
LEMMA AnsweredTyped ==
  ASSUME SyncTypes, NEW d \in Devices, RunFits(d), run[d].pc = "server"
  PROVE  /\ Answered(d) \in Run /\ Answered(d).pc = "server" /\ Answered(d).todo = run[d].todo
         /\ Answered(d).at = run[d].at + 1
         /\ Answered(d).since = run[d].since /\ Answered(d).acked = run[d].acked
         /\ \A s \in Streams :
              Answered(d).page[s] = IF s = Order[run[d].at]
                                      THEN Only(rows[s], Page(rows[s], run[d].since[s], BatchSize))
                                      ELSE run[d].page[s]
<1>. DEFINE s == Order[run[d].at]
            p == Only(rows[s], Page(rows[s], run[d].since[s], BatchSize))
            P == [run[d].page EXCEPT ![s] = p]
<1>1. s \in Streams BY OrderIsList DEF RunFits
<1>2. run[d] \in Run /\ rows[s] \in Table /\ run[d].page \in Tables /\ run[d].at \in Nat
  BY <1>1, RunFields DEF SyncTypes, Tables
<1>3. p \in Table BY <1>2, OnlyIsTable
<1>4. Answered(d) = [run[d] EXCEPT !.page = P, !.at = run[d].at + 1] BY DEF Answered
<1>5. P \in Tables /\ \A z \in Streams : P[z] = IF z = s THEN p ELSE run[d].page[z]
  BY <1>1, <1>2, <1>3 DEF Tables
<1>. HIDE DEF P
<1>. HIDE DEF s, p
<1>. DEFINE next == run[d].at + 1
            new == [run[d] EXCEPT !.page = P, !.at = next]
<1>6. next \in Nat BY <1>2
<1>. HIDE DEF next
<1>7. new \in Run BY <1>2, <1>5, <1>6 DEF Run
<1>8. /\ new.pc = "server" /\ new.todo = run[d].todo /\ new.at = next
      /\ new.since = run[d].since /\ new.acked = run[d].acked /\ new.page = P
  BY <1>2 DEF Run
<1>9. Answered(d) = new BY <1>4 DEF next
<1>. HIDE DEF new
<1>. QED BY <1>5, <1>7, <1>8, <1>9 DEF s, p, next

\* A read of the Server: another stream of the answer, or the last and the
\* statements it becomes.
LEMMA ReadTyped ==
  ASSUME SyncTypes, NEW d \in Devices, RunFits(d), Read(d)
  PROVE  /\ SyncTypes' /\ UNCHANGED <<rows, store>> /\ run[d].pc = "server"
         /\ \/ run'[d] = Answered(d) /\ run[d].at < Len(Order)
            \/ /\ run'[d].pc = "apply"
               /\ run'[d].todo = InOrder([z \in Streams |-> Apply(Answered(d), z)])
               /\ run'[d].page = NoTables /\ run'[d].since = [s \in Streams |-> 0]
<1>. DEFINE r == Answered(d)
            lists == [z \in Streams |-> Apply(r, z)]
            todo == InOrder(lists)
            again == r.again \/ Full(r)
            stalledAt == IF Full(r) THEN 0 ELSE r.total
            done == [Idle EXCEPT !.pc = "apply", !.todo = todo, !.again = again, !.stalledAt = stalledAt]
<1>1. run[d].pc = "server" /\ UNCHANGED <<rows, store, minted, clock, bound>>
  BY DEF Read
<1>2. run' = [run EXCEPT ![d] = IF run[d].at < Len(Order) THEN r ELSE done]
  BY DEF Read, Answered
<1>3. r \in Run BY <1>1, AnsweredTyped
<1>. HIDE DEF r
<1>4. todo \in Seq(Statements)
  <2>1. \A z \in Streams : /\ lists[z] = Apply(r, z) /\ lists[z] \in Seq(Statements)
                           /\ \A k \in DOMAIN lists[z] : lists[z][k].stream = z
    BY <1>3, ApplyIsApplied DEF Applied
  <2>2. lists \in [Streams -> Seq(Statements)] BY <2>1
  <2>. HIDE DEF lists
  <2>. QED BY <2>1, <2>2, InOrderPlaces
<1>5. again \in BOOLEAN /\ stalledAt \in Nat
  BY <1>3, RunFields DEF Full
<1>. HIDE DEF todo, again, stalledAt
<1>6. /\ done \in Run /\ done.todo = todo /\ done.pc = "apply" /\ done.page = NoTables
      /\ done.since = [s \in Streams |-> 0]
  BY <1>4, <1>5, IdleFields DEF Idle
<1>. HIDE DEF done
<1>7. PICK new \in {r, done} : /\ run' = [run EXCEPT ![d] = new]
                               /\ new = done \/ (new = r /\ run[d].at < Len(Order))
  BY <1>2
<1>8. new \in Run /\ run' = [run EXCEPT ![d] = new] BY <1>3, <1>6, <1>7
<1>9. run' \in [Devices -> Run] /\ run'[d] = new BY <1>8, RunTyped
<1>10. SyncTypes' BY <1>1, <1>9 DEF SyncTypes
<1>. QED BY <1>1, <1>6, <1>7, <1>9, <1>10 DEF r, todo

\* A step of one Device's job leaves the other Devices' alone.
LEMMA JobTyped ==
  ASSUME JobTypes, NEW d \in Devices, NEW j \in Job, job' = [job EXCEPT ![d] = j]
  PROVE  job' \in [Devices -> Job] /\ job'[d] = j /\ \A e \in Devices \ {d} : job'[e] = job[e]
  BY DEF JobTypes

\* What Sync and the user do leaves the job what it is, but for alone.
LEMMA BesideTyped ==
  ASSUME JobTypes, NEW d \in Devices, NEW step, Beside(d, step)
  PROVE  /\ JobTypes' /\ UNCHANGED <<file, saved, torn>>
         /\ job'[d].kind = job[d].kind /\ job'[d].todo = job[d].todo /\ job'[d].open = job[d].open
         /\ job'[d].copy = job[d].copy
         /\ job'[d].alone => job[d].alone /\ store'[d] = store[d]
         /\ \A e \in Devices \ {d} : job'[e] = job[e]
<1>. DEFINE alone == job[d].alone /\ store'[d] = store[d]
            j == [job[d] EXCEPT !.alone = alone]
<1>1. job[d] \in Job BY DEF JobTypes
<1>2. alone \in BOOLEAN OBVIOUS
<1>3. job' = [job EXCEPT ![d] = j] /\ UNCHANGED <<file, saved, torn>> BY DEF Beside
<1>4. alone => job[d].alone /\ store'[d] = store[d] OBVIOUS
<1>. HIDE DEF alone
<1>5. /\ j \in Job /\ j.kind = job[d].kind /\ j.todo = job[d].todo /\ j.open = job[d].open
      /\ j.copy = job[d].copy /\ j.alone = alone
  BY <1>1, <1>2 DEF Job
<1>. HIDE DEF j
<1>6. job' \in [Devices -> Job] /\ job'[d] = j /\ \A e \in Devices \ {d} : job'[e] = job[e]
  BY <1>3, <1>5, JobTyped
<1>7. JobTypes' BY <1>3, <1>6 DEF JobTypes
<1>. QED BY <1>3, <1>4, <1>5, <1>6, <1>7

\* A job starts.
LEMMA StartTyped ==
  ASSUME TypeOK, NEW d \in Devices, NEW kind \in {"backup", "restore", "merge"},
         NEW todo \in Seq(Statements \cup Reads), NEW copy \in Database, Start(d, kind, todo, copy)
  PROVE  /\ job' \in [Devices -> Job] /\ bound' \in Bound
         /\ job[d].kind = "none"
         /\ job'[d] = [kind |-> kind, todo |-> todo, open |-> kind # "backup", copy |-> copy, alone |-> TRUE]
         /\ job'[d].kind = kind /\ job'[d].todo = todo /\ job'[d].open = (kind # "backup")
         /\ job'[d].copy = copy
         /\ \A e \in Devices \ {d} : job'[e] = job[e]
<1>. DEFINE j == [kind |-> kind, todo |-> todo, open |-> kind # "backup", copy |-> copy, alone |-> TRUE]
            jobs == [bound.jobs EXCEPT ![d] = @ \ {kind}]
<1>1. JobTypes /\ bound \in Bound BY DEF TypeOK, JobTypes
<1>2. /\ job[d].kind = "none" /\ job' = [job EXCEPT ![d] = j]
      /\ bound' = [bound EXCEPT !.jobs = jobs]
  BY DEF Start
<1>3. j \in Job /\ j.kind = kind /\ j.todo = todo /\ j.open = (kind # "backup") /\ j.copy = copy
  BY DEF Job, Reads
<1>. HIDE DEF j
<1>4. job' \in [Devices -> Job] /\ job'[d] = j /\ \A e \in Devices \ {d} : job'[e] = job[e]
  BY <1>1, <1>2, <1>3, JobTyped
<1>5. jobs \in [Devices -> SUBSET {"backup", "restore", "merge"}] BY <1>1, BoundFields
<1>. HIDE DEF jobs
<1>6. bound' \in Bound BY <1>1, <1>2, <1>5 DEF Bound
<1>. QED BY <1>2, <1>3, <1>4, <1>6 DEF j

\* The type invariant after a step of a job, from its parts.
LEMMA TypesStay ==
  ASSUME TypeOK, UNCHANGED <<rows, minted, clock>>, bound' \in Bound, store' \in [Devices -> Database],
         run' \in [Devices -> Run], job' \in [Devices -> Job], file' \in Database \cup {NoFile},
         saved' \in [Devices -> Database], torn' \in [Devices -> SUBSET Streams]
  PROVE  TypeOK'
  BY DEF TypeOK

\* A Backup starts with every table to read.
LEMMA StartBackupTyped ==
  ASSUME TypeOK, NEW d \in Devices, StartBackup(d)
  PROVE  /\ TypeOK' /\ UNCHANGED <<rows, store, run, file, saved, torn>> /\ job[d].kind = "none"
         /\ job'[d].kind = "backup" /\ job'[d].todo = ReadAll /\ job'[d].open = FALSE
         /\ job'[d].copy = NewDatabase
         /\ \A e \in Devices \ {d} : job'[e] = job[e]
<1>1. ReadAll \in Seq(Statements \cup Reads) BY ReadAllReads
<1>2. NewDatabase \in Database BY NothingIsTyped
<1>3. Start(d, "backup", ReadAll, NewDatabase) /\ UNCHANGED <<rows, store, minted, clock, run, file, saved, torn>>
  BY DEF StartBackup
<1>4. /\ job' \in [Devices -> Job] /\ bound' \in Bound /\ job[d].kind = "none"
      /\ job'[d].kind = "backup" /\ job'[d].todo = ReadAll /\ job'[d].open = ("backup" # "backup")
      /\ job'[d].copy = NewDatabase
      /\ \A e \in Devices \ {d} : job'[e] = job[e]
  BY <1>1, <1>2, <1>3, StartTyped
<1>5. TypeOK' BY <1>3, <1>4, TypesStay DEF TypeOK
<1>. QED BY <1>3, <1>4, <1>5

\* A Restore or Merge begins: what BEGIN keeps is the Device's database as it
\* is.
LEMMA BeginTyped ==
  ASSUME TypeOK, NEW d \in Devices, NEW kind \in {"restore", "merge"}, Begin(d, kind)
  PROVE  /\ TypeOK' /\ UNCHANGED <<rows, store, run, file, torn>> /\ job[d].kind = "none"
         /\ file # NoFile /\ file \in Database
         /\ job'[d].kind = kind /\ job'[d].open = TRUE /\ job'[d].copy = file
         /\ job'[d].todo = (ReadAll \o IF kind = "restore" THEN ResetAll ELSE <<>>)
         /\ saved'[d] = store[d]
         /\ \A e \in Devices \ {d} : job'[e] = job[e] /\ saved'[e] = saved[e]
<1>. DEFINE last == IF kind = "restore" THEN ResetAll ELSE <<>>
            todo == ReadAll \o last
<1>1. last \in Seq(Statements \cup Reads) /\ ReadAll \in Seq(Statements \cup Reads)
  BY ReadAllReads, ResetAllResets, EmptySeq
<1>. HIDE DEF last
<1>2. todo \in Seq(Statements \cup Reads) BY <1>1, ConcatAt
<1>3. /\ file # NoFile /\ Start(d, kind, todo, file) /\ saved' = [saved EXCEPT ![d] = store[d]]
      /\ UNCHANGED <<rows, store, minted, clock, run, file, torn>>
  BY DEF Begin, last
<1>. HIDE DEF todo
<1>4. file \in Database BY <1>3 DEF TypeOK
<1>. DEFINE j == [kind |-> kind, todo |-> todo, open |-> kind # "backup", copy |-> file, alone |-> TRUE]
<1>5. /\ job' \in [Devices -> Job] /\ bound' \in Bound /\ job[d].kind = "none"
      /\ job'[d].kind = kind /\ job'[d].todo = todo /\ job'[d].open = TRUE
      /\ job'[d].copy = file
      /\ \A e \in Devices \ {d} : job'[e] = job[e]
  <2>. DEFINE jobs == [bound.jobs EXCEPT ![d] = @ \ {kind}]
  <2>1. /\ job[d].kind = "none" /\ job' = [job EXCEPT ![d] = j]
        /\ bound' = [bound EXCEPT !.jobs = jobs]
    BY <1>3 DEF Start
  <2>2. jobs \in [Devices -> SUBSET {"backup", "restore", "merge"}] BY BoundFields DEF TypeOK
  <2>. HIDE DEF jobs
  <2>3. bound' \in Bound BY <2>1, <2>2 DEF Bound, TypeOK
  <2>4. j \in Job /\ j.kind = kind /\ j.open = TRUE /\ j.copy = file
    BY <1>2, <1>4 DEF Job, Reads
  <2>5. j.todo = todo OBVIOUS
  <2>. HIDE DEF j
  <2>6. job' \in [Devices -> Job] /\ job'[d] = j /\ \A e \in Devices \ {d} : job'[e] = job[e]
    BY <2>1, <2>4, JobTyped DEF TypeOK, JobTypes
  <2>. QED BY <2>1, <2>3, <2>4, <2>5, <2>6
<1>6. saved' \in [Devices -> Database] /\ saved'[d] = store[d] /\ \A e \in Devices \ {d} : saved'[e] = saved[e]
  BY <1>3 DEF TypeOK
<1>7. TypeOK' BY <1>3, <1>5, <1>6, TypesStay DEF TypeOK
<1>. QED BY <1>3, <1>4, <1>5, <1>6, <1>7 DEF todo, last

\* The next element of a job's todo.
LEMMA NextOfJob ==
  ASSUME TypeOK, NEW d \in Devices, NEW op \in {"read", "write"}, NextIs(d, op)
  PROVE  /\ job[d].todo # <<>> /\ job[d].todo \in Seq(Statements \cup Reads) /\ job[d] \in Job
         /\ Tail(job[d].todo) \in Seq(Statements \cup Reads)
         /\ op = "read" => Head(job[d].todo) \in Reads /\ Head(job[d].todo).op = "read"
                           /\ Head(job[d].todo).name \in Streams \cup {Kv}
                           /\ Head(job[d].todo) = ReadTable(Head(job[d].todo).name)
         /\ op = "write" => Head(job[d].todo) \in Statements /\ Head(job[d].todo).op # "read"
<1>1. job[d].todo # <<>> /\ (Head(job[d].todo).op = "read") = (op = "read") BY DEF NextIs
<1>2. job[d] \in Job /\ job[d].todo \in Seq(Statements \cup Reads) BY DeviceFields
<1>3. Head(job[d].todo) \in Statements \cup Reads /\ Tail(job[d].todo) \in Seq(Statements \cup Reads)
  BY <1>1, <1>2, TailAt
<1>4. Head(job[d].todo) \in Reads \/ (Head(job[d].todo) \in Statements /\ Head(job[d].todo).op # "read")
  BY <1>3, StatementFields
<1>5. ASSUME NEW w \in Reads PROVE w.op = "read" /\ w.name \in Streams \cup {Kv} /\ w = ReadTable(w.name)
  BY DEF Reads, ReadTable
<1>. QED BY <1>1, <1>2, <1>3, <1>4, <1>5

\* A Backup reads a table.
LEMMA DumpTyped ==
  ASSUME TypeOK, NEW d \in Devices, Dump(d)
  PROVE  /\ TypeOK' /\ UNCHANGED <<rows, store, run, file, saved, torn>>
         /\ job[d].kind = "backup" /\ job[d].todo # <<>> /\ job[d].todo \in Seq(Statements \cup Reads)
         /\ Head(job[d].todo).op = "read"
         /\ job'[d].kind = "backup" /\ job'[d].todo = Tail(job[d].todo) /\ job'[d].open = job[d].open
         /\ job'[d].copy.cursor \in {job[d].copy.cursor, store[d].cursor}
         /\ \A e \in Devices \ {d} : job'[e] = job[e]
<1>. DEFINE name == Head(job[d].todo).name
            db == store[d]
            copy == IF name = Kv THEN [job[d].copy EXCEPT !.cursor = db.cursor, !.epoch = db.epoch]
                                 ELSE [job[d].copy EXCEPT !.rows[name] = db.rows[name]]
            j == [job[d] EXCEPT !.todo = Tail(job[d].todo), !.copy = copy]
<1>1. job[d].kind = "backup" /\ NextIs(d, "read") /\ UNCHANGED <<syncVars, file, saved, torn>>
  BY DEF Dump
<1>2. /\ job[d].todo # <<>> /\ job[d].todo \in Seq(Statements \cup Reads) /\ job[d] \in Job
      /\ Tail(job[d].todo) \in Seq(Statements \cup Reads)
      /\ Head(job[d].todo).op = "read" /\ name \in Streams \cup {Kv}
  BY <1>1, NextOfJob
<1>3. job' = [job EXCEPT ![d] = j] BY DEF Dump
<1>. HIDE DEF name
<1>4. job[d].copy \in Database /\ db \in Database BY DeviceFields, JobFields
<1>5. copy \in Database /\ copy.cursor \in {job[d].copy.cursor, db.cursor}
  <2>1. CASE name = Kv
    <3>1. db.cursor \in [Streams -> Nat] /\ db.epoch \in [Streams -> {0, 1}] BY <1>4, DatabaseFields
    <3>2. copy = [job[d].copy EXCEPT !.cursor = db.cursor, !.epoch = db.epoch] BY <2>1
    <3>. QED BY <1>4, <3>1, <3>2 DEF Database
  <2>2. CASE name # Kv
    <3>. DEFINE R == [job[d].copy.rows EXCEPT ![name] = db.rows[name]]
    <3>1. name \in Streams BY <1>2, <2>2
    <3>2. db.rows[name] \in Table /\ job[d].copy.rows \in Tables BY <1>4, <3>1, DatabaseFields
    <3>3. R \in Tables BY <3>1, <3>2 DEF Tables
    <3>4. copy = [job[d].copy EXCEPT !.rows = R] BY <2>2
    <3>. HIDE DEF R
    <3>. QED BY <1>4, <3>3, <3>4 DEF Database
  <2>. QED BY <2>1, <2>2
<1>. HIDE DEF copy
<1>6. /\ j \in Job /\ j.kind = job[d].kind /\ j.todo = Tail(job[d].todo) /\ j.open = job[d].open
      /\ j.copy = copy
  BY <1>2, <1>5 DEF Job, Reads
<1>. HIDE DEF j
<1>7. job' \in [Devices -> Job] /\ job'[d] = j /\ \A e \in Devices \ {d} : job'[e] = job[e]
  BY <1>3, <1>6, JobTyped DEF TypeOK, JobTypes
<1>8. TypeOK' BY <1>1, <1>7, TypesStay DEF TypeOK, syncVars
<1>. QED BY <1>1, <1>2, <1>5, <1>6, <1>7, <1>8 DEF syncVars

\* A job whose todo is another.
LEMMA TodoTyped ==
  ASSUME TypeOK, NEW d \in Devices, NEW todo \in Seq(Statements \cup Reads),
         job' = [job EXCEPT ![d].todo = todo]
  PROVE  /\ job' \in [Devices -> Job] /\ job'[d] = [job[d] EXCEPT !.todo = todo]
         /\ job'[d].kind = job[d].kind /\ job'[d].open = job[d].open
         /\ job'[d].copy = job[d].copy /\ job'[d].alone = job[d].alone
         /\ \A e \in Devices \ {d} : job'[e] = job[e]
<1>. DEFINE j == [job[d] EXCEPT !.todo = todo]
<1>1. job[d] \in Job BY DeviceFields
<1>2. /\ j \in Job /\ j.kind = job[d].kind /\ j.open = job[d].open
      /\ j.copy = job[d].copy /\ j.alone = job[d].alone
  BY <1>1 DEF Job, Reads
<1>3. job' = [job EXCEPT ![d] = j] OBVIOUS
<1>. HIDE DEF j
<1>4. job' \in [Devices -> Job] /\ job'[d] = j /\ \A e \in Devices \ {d} : job'[e] = job[e]
  BY <1>2, <1>3, JobTyped DEF TypeOK, JobTypes
<1>. QED BY <1>2, <1>4 DEF j

\* What is planned for the table that is read next.
PlanOf(kind, name, db, backup) ==
  IF kind = "merge" THEN IF name = Kv THEN <<>> ELSE MergeTable(db, backup, name)
                    ELSE IF name = Kv THEN RestoreKv(db, backup) ELSE RestoreTable(db, backup, name)

\* The statements the job's next read becomes.
Planned(d) == PlanOf(job[d].kind, Head(job[d].todo).name, store[d], job[d].copy)

\* They are statements.
LEMMA PlannedTyped ==
  ASSUME TypeOK, NEW d \in Devices, NextIs(d, "read")
  PROVE  Planned(d) \in Seq(Statements) /\ Planned(d) \in Seq(Statements \cup Reads)
<1>. DEFINE name == Head(job[d].todo).name
            db == store[d]
            backup == job[d].copy
<1>1. name \in Streams \cup {Kv} BY NextOfJob
<1>2. db \in Database /\ backup \in Database BY DeviceFields, JobFields
<1>3. <<>> \in Seq(Statements) /\ RestoreKv(db, backup) \in Seq(Statements) BY <1>2, RestoreKvPlan, EmptySeq
<1>4. ASSUME name # Kv
      PROVE  MergeTable(db, backup, name) \in Seq(Statements) /\ RestoreTable(db, backup, name) \in Seq(Statements)
  <2>1. name \in Streams BY <1>1, <1>4
  <2>. HIDE DEF name, db, backup
  <2>. QED BY <1>2, <2>1, MergeTablePlan, RestoreTablePlan
<1>5. Planned(d) = IF job[d].kind = "merge"
                     THEN IF name = Kv THEN <<>> ELSE MergeTable(db, backup, name)
                     ELSE IF name = Kv THEN RestoreKv(db, backup) ELSE RestoreTable(db, backup, name)
  BY DEF Planned, PlanOf
<1>. HIDE DEF name, db, backup
<1>6. Planned(d) \in Seq(Statements) BY <1>3, <1>4, <1>5
<1>. QED BY <1>6

\* A Restore or Merge reads a table: the statements it plans come before what
\* is left.
LEMMA PlanTyped ==
  ASSUME TypeOK, NEW d \in Devices, Plan(d)
  PROVE  /\ TypeOK' /\ UNCHANGED <<rows, store, run, file, saved, torn>>
         /\ NextIs(d, "read") /\ job[d].open
         /\ job'[d] = [job[d] EXCEPT !.todo = Planned(d) \o Tail(job[d].todo)]
         /\ job'[d].todo = Planned(d) \o Tail(job[d].todo)
         /\ job'[d].kind = job[d].kind /\ job'[d].open = job[d].open
         /\ job'[d].copy = job[d].copy /\ job'[d].alone = job[d].alone
         /\ \A e \in Devices \ {d} : job'[e] = job[e]
<1>. DEFINE todo == Planned(d) \o Tail(job[d].todo)
<1>1. job[d].open /\ NextIs(d, "read") /\ UNCHANGED <<syncVars, file, saved, torn>>
  BY DEF Plan
<1>2. job' = [job EXCEPT ![d].todo = todo] BY DEF Plan, Planned, PlanOf
<1>3. todo \in Seq(Statements \cup Reads)
  <2>1. Tail(job[d].todo) \in Seq(Statements \cup Reads) BY <1>1, NextOfJob
  <2>2. Planned(d) \in Seq(Statements \cup Reads) BY <1>1, PlannedTyped
  <2>. QED BY <2>1, <2>2, ConcatAt
<1>. HIDE DEF todo
<1>4. /\ job' \in [Devices -> Job] /\ job'[d] = [job[d] EXCEPT !.todo = todo]
      /\ job'[d].kind = job[d].kind /\ job'[d].open = job[d].open
      /\ job'[d].copy = job[d].copy /\ job'[d].alone = job[d].alone
      /\ \A e \in Devices \ {d} : job'[e] = job[e]
  BY <1>2, <1>3, TodoTyped
<1>5. job'[d].todo = todo
  <2>1. job[d] \in Job BY DeviceFields
  <2>. QED BY <1>4, <2>1 DEF Job
<1>6. TypeOK' BY <1>1, <1>4, TypesStay DEF TypeOK, syncVars
<1>. QED BY <1>1, <1>4, <1>5, <1>6 DEF syncVars, todo

\* A statement of a Restore or Merge: it executes the first of those due and
\* drops it.
LEMMA JobStatementTyped ==
  ASSUME TypeOK, NEW d \in Devices, JobStatement(d)
  PROVE  /\ TypeOK' /\ UNCHANGED <<rows, run, file, saved>>
         /\ NextIs(d, "write") /\ job[d].open
         /\ store'[d] = Execute(store[d], Head(job[d].todo))
         /\ torn'[d] = IF /\ Head(job[d].todo).op = "cursor"
                          /\ run[d].pc # "idle" /\ Head(job[d].todo).stream \notin Bumped
                         THEN torn[d] \cup {Head(job[d].todo).stream} ELSE torn[d]
         /\ job'[d].todo = Tail(job[d].todo)
         /\ job'[d].kind = job[d].kind /\ job'[d].open = job[d].open
         /\ job'[d].copy = job[d].copy /\ job'[d].alone = job[d].alone
         /\ \A e \in Devices \ {d} : job'[e] = job[e] /\ store'[e] = store[e] /\ torn'[e] = torn[e]
<1>. DEFINE w == Head(job[d].todo)
            db == Execute(store[d], w)
            todo == Tail(job[d].todo)
            T == IF w.op = "cursor" /\ run[d].pc # "idle" /\ w.stream \notin Bumped
                   THEN torn[d] \cup {w.stream} ELSE torn[d]
<1>1. /\ job[d].open /\ NextIs(d, "write") /\ UNCHANGED <<rows, minted, clock, run, bound, file, saved>>
      /\ store' = [store EXCEPT ![d] = db] /\ torn' = [torn EXCEPT ![d] = T]
      /\ job' = [job EXCEPT ![d].todo = todo]
  BY DEF JobStatement
<1>2. w \in Statements /\ todo \in Seq(Statements \cup Reads) BY <1>1, NextOfJob
<1>. HIDE DEF w, todo
<1>3. store[d] \in Database /\ torn[d] \in SUBSET Streams /\ job[d] \in Job BY DeviceFields
<1>4. db \in Database BY <1>2, <1>3, ExecuteWrites
<1>5. T \in SUBSET Streams BY <1>2, <1>3, StatementFields
<1>. HIDE DEF db, T
<1>6. /\ job' \in [Devices -> Job] /\ job'[d] = [job[d] EXCEPT !.todo = todo]
      /\ job'[d].kind = job[d].kind /\ job'[d].open = job[d].open
      /\ job'[d].copy = job[d].copy /\ job'[d].alone = job[d].alone
      /\ \A e \in Devices \ {d} : job'[e] = job[e]
  BY <1>1, <1>2, TodoTyped
<1>7. job'[d].todo = todo BY <1>3, <1>6 DEF Job
<1>8. store' \in [Devices -> Database] /\ store'[d] = db /\ \A e \in Devices \ {d} : store'[e] = store[e]
  BY <1>1, <1>4 DEF TypeOK
<1>9. torn' \in [Devices -> SUBSET Streams] /\ torn'[d] = T /\ \A e \in Devices \ {d} : torn'[e] = torn[e]
  BY <1>1, <1>5 DEF TypeOK
<1>10. TypeOK' BY <1>1, <1>6, <1>8, <1>9, TypesStay DEF TypeOK
<1>. QED BY <1>1, <1>6, <1>7, <1>8, <1>9, <1>10 DEF db, T, w, todo

\* A Backup ends: its copy is the file.
LEMMA FinishBackupTyped ==
  ASSUME TypeOK, NEW d \in Devices, FinishBackup(d)
  PROVE  /\ TypeOK' /\ UNCHANGED <<rows, store, run, saved, torn>>
         /\ job[d].kind = "backup" /\ job[d].todo = <<>> /\ file' = job[d].copy
         /\ job'[d] = None /\ \A e \in Devices \ {d} : job'[e] = job[e]
<1>1. /\ job[d].kind = "backup" /\ job[d].todo = <<>> /\ file' = job[d].copy
      /\ job' = [job EXCEPT ![d] = None] /\ UNCHANGED <<syncVars, saved, torn>>
  BY DEF FinishBackup
<1>2. job[d].copy \in Database BY DeviceFields, JobFields
<1>3. job' \in [Devices -> Job] /\ job'[d] = None /\ \A e \in Devices \ {d} : job'[e] = job[e]
  BY <1>1, NoneIsJob, JobTyped DEF TypeOK, JobTypes
<1>4. TypeOK' BY <1>1, <1>2, <1>3, TypesStay DEF TypeOK, syncVars
<1>. QED BY <1>1, <1>3, <1>4 DEF syncVars

\* A Restore or Merge commits.
LEMMA CommitJobTyped ==
  ASSUME TypeOK, NEW d \in Devices, CommitJob(d)
  PROVE  /\ TypeOK' /\ UNCHANGED <<rows, store, run, file, saved, torn>>
         /\ job[d].open /\ job[d].todo = <<>>
         /\ job'[d].todo = job[d].todo /\ job'[d].kind = job[d].kind /\ job'[d].open = FALSE
         /\ job'[d].copy = job[d].copy /\ job'[d].alone = job[d].alone
         /\ \A e \in Devices \ {d} : job'[e] = job[e]
<1>. DEFINE j == [job[d] EXCEPT !.open = FALSE]
<1>1. /\ job[d].open /\ job[d].todo = <<>> /\ job' = [job EXCEPT ![d] = j]
      /\ UNCHANGED <<syncVars, file, saved, torn>>
  BY DEF CommitJob
<1>2. job[d] \in Job BY DeviceFields
<1>3. /\ j \in Job /\ j.kind = job[d].kind /\ j.todo = job[d].todo /\ j.open = FALSE
      /\ j.copy = job[d].copy /\ j.alone = job[d].alone
  BY <1>2 DEF Job
<1>. HIDE DEF j
<1>4. job' \in [Devices -> Job] /\ job'[d] = j /\ \A e \in Devices \ {d} : job'[e] = job[e]
  BY <1>1, <1>3, JobTyped DEF TypeOK, JobTypes
<1>5. TypeOK' BY <1>1, <1>4, TypesStay DEF TypeOK, syncVars
<1>. QED BY <1>1, <1>3, <1>4, <1>5 DEF syncVars

\* What a closed app leaves behind.
LEMMA DurableIsDatabase ==
  ASSUME TypeOK, NEW d \in Devices
  PROVE  Durable(d) \in Database
  BY DeviceFields DEF Durable

\* The steps that end a job.
LEMMA JobEndsTyped ==
  ASSUME TypeOK, NEW d \in Devices, Reload(d) \/ FailJob(d) \/ Crash(d)
  PROVE  /\ TypeOK' /\ UNCHANGED <<rows, file, saved>> /\ job'[d] = None
         /\ run'[d] \in {Idle, run[d]}
         /\ Reload(d) => /\ job[d].kind \in {"restore", "merge"} /\ ~job[d].open /\ run'[d] = Idle
                         /\ torn' = torn /\ store' = store
         /\ FailJob(d) => /\ job[d].kind \in {"restore", "merge"} /\ run' = run
                          /\ torn'[d] = IF job[d].open /\ run[d].pc # "idle" THEN Streams ELSE torn[d]
                          /\ store'[d] = Durable(d)
         /\ Crash(d) => run'[d] = Idle /\ torn' = torn /\ store'[d] = Durable(d)
         /\ \A e \in Devices \ {d} : /\ job'[e] = job[e] /\ store'[e] = store[e] /\ torn'[e] = torn[e]
                                     /\ run'[e] = run[e]
<1>1. job' = [job EXCEPT ![d] = None] BY DEF Reload, FailJob, Crash
<1>2. job' \in [Devices -> Job] /\ job'[d] = None /\ \A e \in Devices \ {d} : job'[e] = job[e]
  BY <1>1, NoneIsJob, JobTyped DEF TypeOK, JobTypes
<1>3. PICK r \in {Idle, run[d]} : run' = [run EXCEPT ![d] = r]
  <2>1. run = [run EXCEPT ![d] = run[d]] BY DEF TypeOK
  <2>. QED BY <2>1 DEF Reload, FailJob, Crash
<1>4. r \in Run BY <1>3, DeviceFields, NothingIsTyped
<1>5. run' \in [Devices -> Run] /\ run'[d] = r /\ \A e \in Devices \ {d} : run'[e] = run[e]
  BY <1>3, <1>4 DEF TypeOK
<1>6. PICK db \in {store[d], Durable(d)} : store' = [store EXCEPT ![d] = db]
  <2>1. store = [store EXCEPT ![d] = store[d]] BY DEF TypeOK
  <2>. QED BY <2>1 DEF Reload, FailJob, Crash
<1>7. db \in Database BY <1>6, DeviceFields, DurableIsDatabase
<1>8. store' \in [Devices -> Database] /\ store'[d] = db /\ \A e \in Devices \ {d} : store'[e] = store[e]
  BY <1>6, <1>7 DEF TypeOK
<1>9. PICK T \in {torn[d], Streams} : torn' = [torn EXCEPT ![d] = T]
  <2>1. torn = [torn EXCEPT ![d] = torn[d]] BY DEF TypeOK
  <2>. QED BY <2>1 DEF Reload, FailJob, Crash
<1>10. torn' \in [Devices -> SUBSET Streams] /\ torn'[d] = T /\ \A e \in Devices \ {d} : torn'[e] = torn[e]
  BY <1>9, DeviceFields DEF TypeOK
<1>11. bound' \in Bound
  <2>1. bound \in Bound BY DEF TypeOK
  <2>2. bound' = bound \/ (bound.fails > 0 /\ bound' = [bound EXCEPT !.fails = @ - 1])
    BY DEF Reload, FailJob, Crash
  <2>. QED BY <2>1, <2>2, FailsLeft
<1>12. UNCHANGED <<rows, minted, clock, file, saved>> BY DEF Reload, FailJob, Crash
<1>13. TypeOK' BY <1>2, <1>5, <1>8, <1>10, <1>11, <1>12, TypesStay DEF TypeOK
<1>14. Reload(d) => /\ job[d].kind \in {"restore", "merge"} /\ ~job[d].open /\ run'[d] = Idle
                    /\ torn' = torn /\ store' = store
  BY DEF Reload, TypeOK
<1>15. FailJob(d) => /\ job[d].kind \in {"restore", "merge"} /\ run' = run
                     /\ torn'[d] = IF job[d].open /\ run[d].pc # "idle" THEN Streams ELSE torn[d]
                     /\ store'[d] = Durable(d)
  BY DEF FailJob, TypeOK
<1>16. Crash(d) => run'[d] = Idle /\ torn' = torn /\ store'[d] = Durable(d)
  BY DEF Crash, TypeOK
<1>. QED BY <1>2, <1>3, <1>5, <1>8, <1>10, <1>12, <1>13, <1>14, <1>15, <1>16

-----------------------------------------------------------------------------
(* The predicates of one stream, of tables and lists rather than of the    *)
(* state: t is the Server's table, l the Device's, n the position the next *)
(* run reads from, c the Cursor.                                           *)

InTable(t, n) == n = 0 \/ \E id \in Held(t) : n <= t[id].seq

\* Has, of any two tables.
HasIn(t, l, id) == id \in Held(l) /\ (l[id].seq = Pending \/ l[id] = t[id])

\* Covers, of any two tables and a place in the log.
CoversIn(t, l, n) == \A id \in Held(t) : t[id].seq <= n => HasIn(t, l, id)

\* Beyond, of any table.
BeyondIn(t, id, n) == id \in Held(t) /\ t[id].seq > n

\* AnswerIsWhole, of any table and answer.
AnswerIn(t, c, since, page, acked) ==
  /\ since = c
  /\ \A next \in Last(page, since) :
       /\ \A id \in Held(t) : t[id].seq <= next => t[id].seq <= since \/ page[id] = t[id]
       /\ \A id \in Held(page) : page[id] = t[id] \/ BeyondIn(t, id, next)
       /\ \A id \in Held(acked) :
            \/ acked[id] = t[id]
            \/ BeyondIn(t, id, since) /\ (page[id] = t[id] \/ BeyondIn(t, id, next))

\* Brings, of any table.
BringsIn(t, todo, j, l, s, id) ==
  \E k \in DOMAIN todo :
    /\ j < k /\ k < l
    /\ Sets(todo[k], "pull", s) \/ Sets(todo[k], "write", s)
    /\ todo[k].table[id] = t[id]

\* What StatementsAreWhole says of the Cursors, of any table and statements.
CursorsIn(t, l, todo, s) ==
  \A m \in DOMAIN todo : Sets(todo[m], "cursor", s) =>
    \A id \in Held(t) : t[id].seq <= todo[m].value => HasIn(t, l, id) \/ BringsIn(t, todo, 0, m, s, id)

\* A row the Server has moved on: beyond the Cursor, and every Cursor to come
\* leaves it beyond or comes after the row.
FreshAfter(t, c, todo, j, s, id) ==
  /\ BeyondIn(t, id, c)
  /\ \A m \in DOMAIN todo : Sets(todo[m], "cursor", s) =>
       BeyondIn(t, id, todo[m].value) \/ BringsIn(t, todo, j, m, s, id)

\* What StatementsAreWhole says of the rows, of any table and statements.
WritesIn(t, c, todo, s) ==
  \A j \in DOMAIN todo : WritesRows(todo[j], s) =>
    \A id \in Held(todo[j].table) : todo[j].table[id] = t[id] \/ FreshAfter(t, c, todo, j, s, id)

\* Tracked, of any table, database and run.
TrackedIn(t, l, n, c, r, s) ==
  /\ CoversIn(t, l, n)
  /\ r.pc = "server" => AnswerIn(t, c, r.since[s], r.page[s], r.acked[s])
  /\ r.pc = "apply" => CursorsIn(t, l, r.todo, s) /\ WritesIn(t, c, r.todo, s)

\* HasIn is Has of the present state.
LEMMA HasSame ==
  ASSUME NEW db, NEW s, NEW id
  PROVE  Has(db, s, id) <=> HasIn(rows[s], db.rows[s], id)
  BY DEF Has, HasIn, PendingRows

\* CoversIn is Covers of the present state.
LEMMA CoversSame ==
  ASSUME NEW db, NEW s
  PROVE  Covers(db, s) <=> CoversIn(rows[s], db.rows[s], Position(db, s))
  BY HasSame DEF Covers, CoversIn

\* The same of every Device's database.
LEMMA CoversOfStore == \A d, s : Covers(store[d], s) <=> CoversIn(rows[s], store[d].rows[s], Position(store[d], s))
  BY DEF Covers, CoversIn, Has, HasIn, PendingRows

\* The same of what every Device's BEGIN keeps.
LEMMA CoversOfSaved == \A d, s : Covers(saved[d], s) <=> CoversIn(rows[s], saved[d].rows[s], Position(saved[d], s))
  BY DEF Covers, CoversIn, Has, HasIn, PendingRows

\* TrackedIn is Tracked of the present state.
LEMMA TrackedSame ==
  ASSUME NEW d \in Devices, NEW s \in Streams
  PROVE  Tracked(d, s) <=> TrackedIn(rows[s], store[d].rows[s], Position(store[d], s),
                                     store[d].cursor[s], run[d], s)
<1>. DEFINE t == rows[s]
            l == store[d].rows[s]
            todo == run[d].todo
            c == store[d].cursor[s]
<1>1. Covers(store[d], s) <=> CoversIn(t, l, Position(store[d], s))
  BY CoversOfStore
<1>2. AnswerIsWhole(d, s) <=> AnswerIn(t, c, run[d].since[s], run[d].page[s], run[d].acked[s])
  BY DEF AnswerIsWhole, AnswerIn, Beyond, BeyondIn
<1>3. \A id : Has(store[d], s, id) <=> HasIn(t, l, id)
  BY DEF Has, HasIn, PendingRows
<1>4. \A j, m, id : Brings(todo, j, m, s, id) <=> BringsIn(t, todo, j, m, s, id)
  BY DEF Brings, BringsIn
<1>5. \A id, n : Beyond(s, id, n) <=> BeyondIn(t, id, n)
  BY DEF Beyond, BeyondIn
<1>6. StatementsAreWhole(d, s) <=> CursorsIn(t, l, todo, s) /\ WritesIn(t, c, todo, s)
  <2>1. (\A m \in DOMAIN todo : Sets(todo[m], "cursor", s) =>
           \A id \in Held(t) : t[id].seq <= todo[m].value =>
               Has(store[d], s, id) \/ Brings(todo, 0, m, s, id)) <=> CursorsIn(t, l, todo, s)
    BY <1>3, <1>4, Zenon DEF CursorsIn
  <2>2. \A j, id : FreshAfter(t, c, todo, j, s, id) <=>
             /\ Beyond(s, id, c)
             /\ \A m \in DOMAIN todo : Sets(todo[m], "cursor", s) =>
                  Beyond(s, id, todo[m].value) \/ Brings(todo, j, m, s, id)
    BY <1>4, <1>5, Zenon DEF FreshAfter
  <2>3. (\A j \in DOMAIN todo : WritesRows(todo[j], s) =>
           \A id \in Held(todo[j].table) :
             \/ todo[j].table[id] = t[id]
             \/ /\ Beyond(s, id, c)
                /\ \A m \in DOMAIN todo : Sets(todo[m], "cursor", s) =>
                     Beyond(s, id, todo[m].value) \/ Brings(todo, j, m, s, id)) <=> WritesIn(t, c, todo, s)
    BY <2>2, Zenon DEF WritesIn
  <2>4. StatementsAreWhole(d, s) <=>
          /\ \A m \in DOMAIN todo : Sets(todo[m], "cursor", s) =>
               \A id \in Held(t) : t[id].seq <= todo[m].value =>
                   Has(store[d], s, id) \/ Brings(todo, 0, m, s, id)
          /\ \A j \in DOMAIN todo : WritesRows(todo[j], s) =>
               \A id \in Held(todo[j].table) :
                 \/ todo[j].table[id] = t[id]
                 \/ /\ Beyond(s, id, c)
                    /\ \A m \in DOMAIN todo : Sets(todo[m], "cursor", s) =>
                         Beyond(s, id, todo[m].value) \/ Brings(todo, j, m, s, id)
    BY Zenon DEF StatementsAreWhole
  <2>. QED BY <2>1, <2>3, <2>4, Zenon
<1>. HIDE DEF t, l, todo, c
<1>7. TrackedIn(rows[s], store[d].rows[s], Position(store[d], s), store[d].cursor[s], run[d], s) <=>
        /\ CoversIn(t, l, Position(store[d], s))
        /\ run[d].pc = "server" => AnswerIn(t, c, run[d].since[s], run[d].page[s], run[d].acked[s])
        /\ run[d].pc = "apply" => CursorsIn(t, l, todo, s) /\ WritesIn(t, c, todo, s)
  BY Zenon DEF TrackedIn, t, l, c, todo
<1>. QED BY <1>1, <1>2, <1>6, <1>7, Zenon DEF Tracked

\* The same of every Device and stream.
TrackedEverywhere ==
  \A d \in Devices, s \in Streams :
    Tracked(d, s) <=> TrackedIn(rows[s], store[d].rows[s], Position(store[d], s),
                                store[d].cursor[s], run[d], s)

\* It holds in every state.
LEMMA TrackedAlways == TrackedEverywhere
  BY TrackedSame DEF TrackedEverywhere

\* So it holds after a step.
LEMMA TrackedAlwaysNext == TrackedEverywhere'
  BY TrackedAlways, PTL

\* TrackedIn is Tracked of the state after a step.
LEMMA TrackedSameNext ==
  ASSUME NEW d \in Devices, NEW s \in Streams
  PROVE  Tracked(d, s)' <=> TrackedIn(rows'[s], store'[d].rows[s], Position(store'[d], s),
                                      store'[d].cursor[s], run'[d], s)
  BY TrackedAlwaysNext DEF TrackedEverywhere

\* The Server has written: each row as it was, or with a seq beyond all others.
MovedTo(t, u) ==
  \A id \in Ids : \/ u[id] = t[id]
                  \/ /\ u[id] # NoRow
                     /\ \A old \in Held(t) : u[id].seq > t[old].seq
                     /\ u[id].seq \in Nat /\ u[id].seq > 0

\* What lies within the log stays within it as the log moves, and a row that
\* changed is beyond it.
LEMMA StaysInTable ==
  ASSUME NEW t \in Table, NEW u \in Table, MovedTo(t, u), NEW n \in Nat, InTable(t, n)
  PROVE  /\ InTable(u, n)
         /\ \A id \in Ids : u[id] = t[id] \/ (id \in Held(u) /\ u[id].seq > n)
<1>1. CASE n = 0
  BY <1>1 DEF InTable, MovedTo, Held
<1>2. CASE n # 0
  <2>1. PICK old \in Held(t) : n <= t[old].seq BY <1>2 DEF InTable
  <2>2. old \in Ids /\ t[old] # NoRow /\ t[old].seq \in Nat BY HeldRow
  <2>3. \A id \in Ids : u[id] = t[id] \/ (id \in Held(u) /\ u[id].seq > n)
    <3>. SUFFICES ASSUME NEW id \in Ids, u[id] # t[id] PROVE id \in Held(u) /\ u[id].seq > n OBVIOUS
    <3>1. u[id] # NoRow /\ u[id].seq > t[old].seq /\ u[id].seq \in Nat BY <2>1 DEF MovedTo
    <3>. QED BY <2>1, <2>2, <3>1 DEF Held
  <2>4. \E id \in Held(u) : n <= u[id].seq
    <3>1. CASE u[old] = t[old] BY <2>1, <2>2, <3>1 DEF Held
    <3>2. CASE u[old] # t[old]
      <4>1. old \in Held(u) /\ u[old].seq > n BY <2>2, <2>3, <3>2
      <4>2. u[old].seq \in Nat BY <4>1, HeldRow
      <4>. QED BY <4>1, <4>2
    <3>. QED BY <3>1, <3>2
  <2>. QED BY <2>3, <2>4 DEF InTable
<1>. QED BY <1>1, <1>2

\* What covers the log up to a place still does after the log has moved.
LEMMA CoversMoves ==
  ASSUME NEW t \in Table, NEW u \in Table, MovedTo(t, u), NEW l \in Table, NEW n \in Nat,
         InTable(t, n), CoversIn(t, l, n)
  PROVE  CoversIn(u, l, n)
<1>. SUFFICES ASSUME NEW id \in Held(u), u[id].seq <= n PROVE HasIn(u, l, id)
  BY DEF CoversIn
<1>1. id \in Ids /\ u[id].seq \in Nat BY HeldRow
<1>2. u[id] = t[id] BY <1>1, StaysInTable
<1>3. id \in Held(t) BY <1>1, <1>2 DEF Held
<1>. QED BY <1>2, <1>3 DEF CoversIn, HasIn

\* Being beyond a point the log has reached stays true.
LEMMA BeyondMoves ==
  ASSUME NEW t \in Table, NEW u \in Table, MovedTo(t, u), NEW n \in Nat, InTable(t, n), NEW id \in Ids
  PROVE  /\ BeyondIn(t, id, n) => BeyondIn(u, id, n)
         /\ u[id] = t[id] \/ BeyondIn(u, id, n)
  BY StaysInTable DEF BeyondIn, Held

\* An answer stays whole as the log moves.
LEMMA AnswerMoves ==
  ASSUME NEW t \in Table, NEW u \in Table, MovedTo(t, u), NEW c, NEW since \in Nat, NEW page \in Table,
         NEW acked \in Table, NEW more \in Table,
         InTable(t, since), \A id \in Held(page) : InTable(t, page[id].seq),
         \A id \in Ids : more[id] = acked[id] \/ more[id] = NoRow \/ more[id] = u[id],
         AnswerIn(t, c, since, page, acked)
  PROVE  AnswerIn(u, c, since, page, more)
<1>1. since = c BY DEF AnswerIn
<1>2. ASSUME NEW next \in Last(page, since)
      PROVE  /\ \A id \in Held(u) : u[id].seq <= next => u[id].seq <= since \/ page[id] = u[id]
             /\ \A id \in Held(page) : page[id] = u[id] \/ BeyondIn(u, id, next)
             /\ \A id \in Held(more) :
                  \/ more[id] = u[id]
                  \/ BeyondIn(u, id, since) /\ (page[id] = u[id] \/ BeyondIn(u, id, next))
  <2>1. next \in Nat /\ InTable(t, next)
    <3>1. next \in Nat /\ (next = since \/ \E id \in Held(page) : next = page[id].seq) BY LastIsNat
    <3>. QED BY <3>1
  <2>2. /\ \A id \in Held(t) : t[id].seq <= next => t[id].seq <= since \/ page[id] = t[id]
        /\ \A id \in Held(page) : page[id] = t[id] \/ BeyondIn(t, id, next)
        /\ \A id \in Held(acked) :
             \/ acked[id] = t[id]
             \/ BeyondIn(t, id, since) /\ (page[id] = t[id] \/ BeyondIn(t, id, next))
    BY DEF AnswerIn
  <2>3. \A id \in Ids : /\ BeyondIn(t, id, next) => BeyondIn(u, id, next)
                        /\ u[id] = t[id] \/ BeyondIn(u, id, next)
                        /\ BeyondIn(t, id, since) => BeyondIn(u, id, since)
                        /\ u[id] = t[id] \/ BeyondIn(u, id, since)
    BY <2>1, BeyondMoves
  <2>4. ASSUME NEW id \in Held(u), u[id].seq <= next PROVE u[id].seq <= since \/ page[id] = u[id]
    <3>1. id \in Ids /\ u[id].seq \in Nat BY HeldRow
    <3>2. ~BeyondIn(u, id, next) BY <2>1, <2>4, <3>1 DEF BeyondIn
    <3>3. u[id] = t[id] /\ id \in Held(t) BY <2>3, <3>1, <3>2 DEF Held
    <3>. QED BY <2>2, <2>4, <3>3
  <2>5. ASSUME NEW id \in Held(page) PROVE page[id] = u[id] \/ BeyondIn(u, id, next)
    <3>1. id \in Ids BY DEF Held
    <3>. QED BY <2>2, <2>3, <3>1
  <2>6. ASSUME NEW id \in Held(more)
        PROVE  \/ more[id] = u[id]
               \/ BeyondIn(u, id, since) /\ (page[id] = u[id] \/ BeyondIn(u, id, next))
    <3>1. id \in Ids /\ more[id] # NoRow BY DEF Held
    <3>2. CASE more[id] = acked[id]
      <4>1. id \in Held(acked) BY <3>1, <3>2 DEF Held
      <4>. QED BY <2>2, <2>3, <3>1, <3>2, <4>1
    <3>. QED BY <3>1, <3>2
  <2>. QED BY <2>4, <2>5, <2>6
<1>. QED BY <1>1, <1>2 DEF AnswerIn

\* So do the statements it became.
LEMMA WholeMoves ==
  ASSUME NEW t \in Table, NEW u \in Table, MovedTo(t, u), NEW l \in Table, NEW c \in Nat, NEW s,
         NEW todo \in Seq(Statements), InTable(t, c),
         \A m \in DOMAIN todo : Sets(todo[m], "cursor", s) => InTable(t, todo[m].value),
         CursorsIn(t, l, todo, s), WritesIn(t, c, todo, s)
  PROVE  CursorsIn(u, l, todo, s) /\ WritesIn(u, c, todo, s)
<1>1. \A m \in DOMAIN todo : todo[m].value \in Nat /\ todo[m].table \in Table
  BY ElementOfSeq, StatementFields
<1>2. ASSUME NEW m \in DOMAIN todo, Sets(todo[m], "cursor", s), NEW id \in Ids
      PROVE  /\ BeyondIn(t, id, todo[m].value) => BeyondIn(u, id, todo[m].value)
             /\ u[id] = t[id] \/ BeyondIn(u, id, todo[m].value)
  <2>1. InTable(t, todo[m].value) /\ todo[m].value \in Nat BY <1>1, <1>2
  <2>. QED BY <2>1, BeyondMoves
<1>3. ASSUME NEW j, NEW m, NEW id, u[id] = t[id]
      PROVE  /\ BringsIn(t, todo, j, m, s, id) => BringsIn(u, todo, j, m, s, id)
             /\ HasIn(t, l, id) => HasIn(u, l, id)
  BY <1>3 DEF BringsIn, HasIn
<1>4. CursorsIn(u, l, todo, s)
  <2>. SUFFICES ASSUME NEW m \in DOMAIN todo, Sets(todo[m], "cursor", s), NEW id \in Held(u), u[id].seq <= todo[m].value
                PROVE  HasIn(u, l, id) \/ BringsIn(u, todo, 0, m, s, id)
    BY DEF CursorsIn
  <2>1. id \in Ids /\ u[id].seq \in Nat BY HeldRow
  <2>2. ~BeyondIn(u, id, todo[m].value) BY <1>1, <2>1 DEF BeyondIn
  <2>3. u[id] = t[id] /\ id \in Held(t) BY <1>2, <2>1, <2>2 DEF Held
  <2>4. HasIn(t, l, id) \/ BringsIn(t, todo, 0, m, s, id) BY <2>3 DEF CursorsIn
  <2>. QED BY <1>3, <2>3, <2>4
<1>5. WritesIn(u, c, todo, s)
  <2>. SUFFICES ASSUME NEW j \in DOMAIN todo, WritesRows(todo[j], s), NEW id \in Held(todo[j].table),
                       todo[j].table[id] # u[id]
                PROVE  FreshAfter(u, c, todo, j, s, id)
    BY DEF WritesIn
  <2>1. id \in Ids BY DEF Held
  <2>2. todo[j].table[id] = t[id] \/ FreshAfter(t, c, todo, j, s, id) BY DEF WritesIn
  <2>3. (BeyondIn(t, id, c) => BeyondIn(u, id, c)) /\ (u[id] = t[id] \/ BeyondIn(u, id, c))
    BY <2>1, BeyondMoves
  <2>4. BeyondIn(u, id, c) BY <2>2, <2>3 DEF FreshAfter
  <2>5. ASSUME NEW m \in DOMAIN todo, Sets(todo[m], "cursor", s)
        PROVE  BeyondIn(u, id, todo[m].value) \/ BringsIn(u, todo, j, m, s, id)
    <3>1. CASE u[id] # t[id] BY <1>2, <2>1, <2>5, <3>1
    <3>2. CASE u[id] = t[id]
      <4>1. BeyondIn(t, id, todo[m].value) \/ BringsIn(t, todo, j, m, s, id)
        BY <2>2, <2>5, <3>2 DEF FreshAfter
      <4>. QED BY <1>2, <1>3, <2>1, <2>5, <3>2, <4>1
    <3>. QED BY <3>1, <3>2
  <2>. QED BY <2>4, <2>5 DEF FreshAfter
<1>. QED BY <1>4, <1>5

-----------------------------------------------------------------------------
(* A write of pending rows.                                                *)

PendingChange(l, k) == \A id \in Ids : k[id] = l[id] \/ (k[id] # NoRow /\ k[id].seq = Pending)

\* A change the Server has yet to see hides no row that is missing.
LEMMA HasAfterChange ==
  ASSUME NEW t, NEW l, NEW k, PendingChange(l, k), NEW id, HasIn(t, l, id)
  PROVE  HasIn(t, k, id)
  BY DEF HasIn, PendingChange, Held

\* An edit of the user leaves what sync() knows of a stream intact.
LEMMA TrackedAfterChange ==
  ASSUME NEW t, NEW l, NEW k, PendingChange(l, k), NEW n, NEW c, NEW r, NEW s,
         TrackedIn(t, l, n, c, r, s)
  PROVE  TrackedIn(t, k, n, c, r, s)
<1>1. CoversIn(t, k, n)
  BY HasAfterChange DEF TrackedIn, CoversIn
<1>2. ASSUME r.pc = "apply" PROVE CursorsIn(t, k, r.todo, s)
  <2>1. CursorsIn(t, l, r.todo, s) BY <1>2 DEF TrackedIn
  <2>. QED BY <2>1, HasAfterChange DEF CursorsIn
<1>. QED BY <1>1, <1>2 DEF TrackedIn

\* What a list of statements brings later is what its tail brings.
LEMMA BringsTail ==
  ASSUME NEW todo \in Seq(Statements), todo # <<>>, NEW t, NEW s, NEW id, NEW j \in Nat, NEW m \in Nat,
         BringsIn(t, todo, j + 1, m + 1, s, id)
  PROVE  BringsIn(t, Tail(todo), j, m, s, id)
<1>1. PICK k \in DOMAIN todo : /\ j + 1 < k /\ k < m + 1
                               /\ Sets(todo[k], "pull", s) \/ Sets(todo[k], "write", s)
                               /\ todo[k].table[id] = t[id]
  BY DEF BringsIn
<1>2. k \in Nat \ {0} /\ (k > 1 => k - 1 \in DOMAIN Tail(todo) /\ Tail(todo)[k - 1] = todo[k])
  BY TailAt
<1>3. k > 1 /\ j < k - 1 /\ k - 1 < m BY <1>1, <1>2
<1>. DEFINE i == k - 1
<1>4. i \in DOMAIN Tail(todo) /\ Tail(todo)[i] = todo[k] /\ j < i /\ i < m BY <1>2, <1>3
<1>. HIDE DEF i
<1>. QED BY <1>1, <1>4 DEF BringsIn

\* What is brought at the head, or else by the tail.
LEMMA BringsHead ==
  ASSUME NEW todo \in Seq(Statements), todo # <<>>, NEW t, NEW s, NEW id, NEW m \in Nat,
         BringsIn(t, todo, 0, m + 1, s, id)
  PROVE  \/ BringsIn(t, Tail(todo), 0, m, s, id)
         \/ /\ Sets(Head(todo), "pull", s) \/ Sets(Head(todo), "write", s)
            /\ Head(todo).table[id] = t[id]
<1>1. PICK k \in DOMAIN todo : /\ 0 < k /\ k < m + 1
                               /\ Sets(todo[k], "pull", s) \/ Sets(todo[k], "write", s)
                               /\ todo[k].table[id] = t[id]
  BY DEF BringsIn
<1>2. k \in Nat \ {0} /\ Head(todo) = todo[1] BY TailAt
<1>3. CASE k = 1 BY <1>1, <1>2, <1>3
<1>4. CASE k # 1
  <2>1. 0 + 1 < k BY <1>2, <1>4
  <2>2. BringsIn(t, todo, 0 + 1, m + 1, s, id) BY <1>1, <2>1 DEF BringsIn
  <2>. QED BY <2>2, BringsTail
<1>. QED BY <1>3, <1>4

\* Nothing comes before the first statement.
LEMMA BringsNothing ==
  ASSUME NEW todo \in Seq(Statements), NEW t, NEW s, NEW id, NEW j \in Nat
  PROVE  ~BringsIn(t, todo, j, 1, s, id)
<1>1. \A k \in DOMAIN todo : k \in Nat BY LenProperties
<1>. QED BY <1>1 DEF BringsIn

\* A row that was behind when its statement came up is behind in what is left.
LEMMA FreshTail ==
  ASSUME NEW todo \in Seq(Statements), todo # <<>>, NEW t, NEW s, NEW id, NEW c, NEW d, NEW j \in Nat,
         FreshAfter(t, c, todo, j + 1, s, id),
         d = IF Sets(Head(todo), "cursor", s) THEN Head(todo).value ELSE c
  PROVE  FreshAfter(t, d, Tail(todo), j, s, id)
<1>1. /\ 1 \in DOMAIN todo /\ Head(todo) = todo[1]
      /\ \A m \in DOMAIN Tail(todo) : m \in Nat /\ m + 1 \in DOMAIN todo /\ Tail(todo)[m] = todo[m + 1]
  BY TailAt
<1>2. BeyondIn(t, id, d)
  <2>1. CASE Sets(Head(todo), "cursor", s)
    <3>1. j + 1 \in Nat OBVIOUS
    <3>2. BeyondIn(t, id, todo[1].value) \/ BringsIn(t, todo, j + 1, 1, s, id)
      BY <1>1, <2>1 DEF FreshAfter
    <3>3. ~BringsIn(t, todo, j + 1, 1, s, id) BY <3>1, BringsNothing
    <3>. QED BY <1>1, <2>1, <3>2, <3>3
  <2>2. CASE ~Sets(Head(todo), "cursor", s) BY <2>2 DEF FreshAfter
  <2>. QED BY <2>1, <2>2
<1>3. ASSUME NEW m \in DOMAIN Tail(todo), Sets(Tail(todo)[m], "cursor", s)
      PROVE  BeyondIn(t, id, Tail(todo)[m].value) \/ BringsIn(t, Tail(todo), j, m, s, id)
  <2>1. m \in Nat /\ m + 1 \in DOMAIN todo /\ Tail(todo)[m] = todo[m + 1] BY <1>1
  <2>2. BeyondIn(t, id, todo[m + 1].value) \/ BringsIn(t, todo, j + 1, m + 1, s, id)
    BY <1>3, <2>1 DEF FreshAfter
  <2>. QED BY <2>1, <2>2, BringsTail
<1>. QED BY <1>2, <1>3 DEF FreshAfter

\* The run's next statement: what it covered stays covered, and what is left
\* does what the whole did.
LEMMA TailIsWhole ==
  ASSUME NEW t \in Table, NEW l \in Table, NEW k \in Table, NEW c \in Nat, NEW d \in Nat, NEW s \in Streams,
         NEW todo \in Seq(Statements), todo # <<>>,
         Head(todo).op # "delete",
         \A id \in Ids : Wrote(Head(todo), s, id, l[id], k[id]),
         d = IF Sets(Head(todo), "cursor", s) THEN Head(todo).value ELSE c,
         CoversIn(t, l, c), CursorsIn(t, l, todo, s), WritesIn(t, c, todo, s)
  PROVE  CoversIn(t, k, d) /\ CursorsIn(t, k, Tail(todo), s) /\ WritesIn(t, d, Tail(todo), s)
<1>. DEFINE w == Head(todo)
<1>1. /\ 1 \in DOMAIN todo /\ w = todo[1] /\ w \in Statements /\ Tail(todo) \in Seq(Statements)
      /\ \A m \in DOMAIN Tail(todo) : m \in Nat /\ m + 1 \in DOMAIN todo /\ Tail(todo)[m] = todo[m + 1]
  BY TailAt
<1>2. w.table \in Table BY <1>1, StatementFields
<1>3. ASSUME NEW id \in Ids
      PROVE  \/ k[id] = l[id] /\ ~(WritesRows(w, s) /\ id \in Held(w.table) /\ Lands(w, id, l[id]))
             \/ WritesRows(w, s) /\ id \in Held(w.table) /\ k[id] = w.table[id]
  BY DEF Wrote, Sets
<1>. HIDE DEF w
\* A row somebody still needs is kept, or brought by what is left.
<1>4. ASSUME NEW id \in Held(t), HasIn(t, l, id)
      PROVE  HasIn(t, k, id) \/ (WritesRows(w, s) /\ FreshAfter(t, c, todo, 1, s, id))
  <2>1. id \in Ids /\ t[id] # NoRow BY DEF Held
  <2>2. CASE k[id] = l[id] BY <1>4, <2>1, <2>2 DEF HasIn, Held
  <2>3. CASE WritesRows(w, s) /\ id \in Held(w.table) /\ k[id] = w.table[id]
    <3>1. w.table[id] = t[id] \/ FreshAfter(t, c, todo, 1, s, id)
      BY <1>1, <2>3 DEF WritesIn
    <3>2. w.table[id] = t[id] => HasIn(t, k, id) BY <2>1, <2>3 DEF HasIn, Held
    <3>. QED BY <2>3, <3>1, <3>2
  <2>. QED BY <1>3, <2>1, <2>2, <2>3
<1>5. ASSUME NEW m \in DOMAIN Tail(todo), Sets(Tail(todo)[m], "cursor", s),
             NEW id \in Held(t), t[id].seq <= Tail(todo)[m].value
      PROVE  HasIn(t, k, id) \/ BringsIn(t, Tail(todo), 0, m, s, id)
  <2>1. m \in Nat /\ m + 1 \in DOMAIN todo /\ Tail(todo)[m] = todo[m + 1] BY <1>1
  <2>2. id \in Ids /\ t[id] # NoRow /\ t[id].seq \in Nat BY HeldRow
  <2>3. HasIn(t, l, id) \/ BringsIn(t, todo, 0, m + 1, s, id)
    BY <1>5, <2>1 DEF CursorsIn
  <2>4. CASE HasIn(t, l, id)
    <3>. SUFFICES ASSUME FreshAfter(t, c, todo, 1, s, id) PROVE BringsIn(t, Tail(todo), 0, m, s, id)
      BY <1>4, <2>4
    <3>1. BeyondIn(t, id, todo[m + 1].value) \/ BringsIn(t, todo, 1, m + 1, s, id)
      BY <1>5, <2>1 DEF FreshAfter
    <3>2. todo[m + 1].value \in Nat BY <2>1, ElementOfSeq, StatementFields
    <3>3. ~BeyondIn(t, id, todo[m + 1].value) BY <1>5, <2>1, <2>2, <3>2 DEF BeyondIn
    <3>4. 0 + 1 = 1 /\ 0 \in Nat OBVIOUS
    <3>5. BringsIn(t, todo, 0 + 1, m + 1, s, id) BY <3>1, <3>3, <3>4
    <3>. QED BY <2>1, <3>4, <3>5, BringsTail
  <2>5. CASE BringsIn(t, todo, 0, m + 1, s, id)
    <3>. SUFFICES ASSUME Sets(w, "pull", s) \/ Sets(w, "write", s), w.table[id] = t[id]
                  PROVE  HasIn(t, k, id)
      BY <2>1, <2>5, BringsHead DEF w
    <3>1. id \in Held(w.table) /\ WritesRows(w, s) BY <2>2 DEF Held, WritesRows
    <3>2. CASE k[id] = w.table[id] BY <2>2, <3>2 DEF HasIn, Held
    <3>3. CASE k[id] = l[id] /\ ~Lands(w, id, l[id])
      <4>1. w.op = "pull" BY <3>3 DEF Lands, Sets
      <4>2. ~PullApplies(l[id], w.table[id]) BY <3>3, <4>1 DEF Lands
      <4>3. l[id] # NoRow /\ l[id].seq = Pending BY <4>2 DEF PullApplies
      <4>. QED BY <2>2, <3>3, <4>3 DEF HasIn, Held
    <3>. QED BY <1>3, <2>2, <3>1, <3>2, <3>3
  <2>. QED BY <2>3, <2>4, <2>5
<1>6. CursorsIn(t, k, Tail(todo), s) BY <1>5 DEF CursorsIn
<1>7. WritesIn(t, d, Tail(todo), s)
  <2>. SUFFICES ASSUME NEW j \in DOMAIN Tail(todo), WritesRows(Tail(todo)[j], s),
                       NEW id \in Held(Tail(todo)[j].table), Tail(todo)[j].table[id] # t[id]
                PROVE  FreshAfter(t, d, Tail(todo), j, s, id)
    BY DEF WritesIn
  <2>1. j \in Nat /\ j + 1 \in DOMAIN todo /\ Tail(todo)[j] = todo[j + 1] BY <1>1
  <2>2. FreshAfter(t, c, todo, j + 1, s, id) BY <2>1 DEF WritesIn
  <2>. QED BY <2>1, <2>2, FreshTail
<1>8. CoversIn(t, k, d)
  <2>. SUFFICES ASSUME NEW id \in Held(t), t[id].seq <= d PROVE HasIn(t, k, id)
    BY DEF CoversIn
  <2>1. id \in Ids /\ t[id].seq \in Nat BY HeldRow
  <2>2. CASE Sets(w, "cursor", s)
    <3>1. d = todo[1].value BY <1>1, <2>2 DEF w
    <3>2. HasIn(t, l, id) \/ BringsIn(t, todo, 0, 1, s, id) BY <1>1, <2>2, <3>1 DEF CursorsIn
    <3>3. HasIn(t, l, id) BY <3>2, BringsNothing
    <3>4. ~WritesRows(w, s) BY <2>2 DEF WritesRows, Sets
    <3>. QED BY <1>4, <3>3, <3>4
  <2>3. CASE ~Sets(w, "cursor", s)
    <3>1. d = c BY <2>3 DEF w
    <3>2. HasIn(t, l, id) BY <3>1 DEF CoversIn
    <3>3. ~FreshAfter(t, c, todo, 1, s, id) BY <2>1, <3>1 DEF FreshAfter, BeyondIn
    <3>. QED BY <1>4, <3>2, <3>3
  <2>. QED BY <2>2, <2>3
<1>. QED BY <1>6, <1>7, <1>8

\* A Cursor read leaves out no row up to the last one it returns.
LEMMA PageSkipsNothing ==
  ASSUME NEW t \in Table, NEW since \in Nat, NEW size \in Nat \ {0}, NEW page,
         page = Only(t, Page(t, since, size)),
         NEW next \in Last(page, since), NEW id \in Held(t), t[id].seq <= next
  PROVE  t[id].seq <= since \/ page[id] = t[id]
<1>. DEFINE P == Page(t, since, size)
            Below(x) == {other \in Newer(t, since) : t[other].seq < t[x].seq}
<1>1. page \in Table /\ Held(page) = Held(t) \cap P /\ \A x \in Held(page) : page[x] = t[x]
  BY OnlyIsTable
<1>2. next \in Nat /\ (next = since \/ \E x \in Held(page) : next = page[x].seq)
  BY <1>1, LastIsNat
<1>3. id \in Ids /\ t[id].seq \in Nat BY HeldRow
<1>. SUFFICES ASSUME t[id].seq > since PROVE id \in P
  BY <1>1, <1>3 DEF Held
<1>4. PICK x \in Held(page) : next = page[x].seq BY <1>2, <1>3
<1>5. x \in P /\ x \in Held(t) /\ t[x].seq = next /\ t[x].seq \in Nat BY <1>1, <1>4, HeldRow
<1>6. Cardinality(Below(x)) < size BY <1>5 DEF Page
<1>7. Below(id) \subseteq Below(x) /\ Below(x) \in SUBSET Ids /\ Below(id) \in SUBSET Ids
  <2>1. \A other \in Newer(t, since) : other \in Held(t) /\ other \in Ids /\ t[other].seq \in Nat
    BY HeldRow DEF Newer
  <2>. QED BY <1>3, <1>5, <2>1
<1>8. Cardinality(Below(id)) <= Cardinality(Below(x)) /\ Cardinality(Below(x)) \in Nat /\ Cardinality(Below(id)) \in Nat
  BY <1>7, CountIsNat, FS_Subset
<1>9. Cardinality(Below(id)) < size BY <1>6, <1>8
<1>10. id \in Newer(t, since) BY DEF Newer
<1>. QED BY <1>9, <1>10 DEF Page

\* Reading the page of a stream makes its part of the answer whole.
LEMMA ReadAnswers ==
  ASSUME NEW t \in Table, NEW c, NEW since \in Nat, NEW size \in Nat \ {0}, NEW page, NEW old \in Table,
         NEW acked \in Table, page = Only(t, Page(t, since, size)), AnswerIn(t, c, since, old, acked)
  PROVE  AnswerIn(t, c, since, page, acked)
<1>1. page \in Table /\ \A id \in Held(page) : page[id] = t[id]
  BY OnlyIsTable
<1>2. since = c BY DEF AnswerIn
<1>3. \A id \in Held(acked) : acked[id] = t[id] \/ BeyondIn(t, id, since)
  <2>1. PICK next \in Last(old, since) : TRUE BY LastExists
  <2>. QED BY <2>1 DEF AnswerIn
<1>4. ASSUME NEW next \in Last(page, since)
      PROVE  /\ \A id \in Held(t) : t[id].seq <= next => t[id].seq <= since \/ page[id] = t[id]
             /\ \A id \in Held(page) : page[id] = t[id] \/ BeyondIn(t, id, next)
             /\ \A id \in Held(acked) :
                  \/ acked[id] = t[id]
                  \/ BeyondIn(t, id, since) /\ (page[id] = t[id] \/ BeyondIn(t, id, next))
  <2>0. next \in Nat BY <1>1, LastIsNat
  <2>1. \A id \in Held(t) : t[id].seq <= next => t[id].seq <= since \/ page[id] = t[id]
    BY PageSkipsNothing
  <2>2. ASSUME NEW id \in Held(acked), acked[id] # t[id]
        PROVE  BeyondIn(t, id, since) /\ (page[id] = t[id] \/ BeyondIn(t, id, next))
    <3>1. BeyondIn(t, id, since) BY <1>3, <2>2
    <3>2. id \in Held(t) /\ t[id].seq > since /\ t[id].seq \in Nat BY <3>1, HeldRow DEF BeyondIn
    <3>. QED BY <2>0, <2>1, <3>1, <3>2 DEF BeyondIn
  <2>. QED BY <1>1, <2>1, <2>2
<1>. QED BY <1>2, <1>4 DEF AnswerIn

\* The answer, as the statements that apply it.
LEMMA AnswerBecomes ==
  ASSUME NEW t \in Table, NEW l \in Table, NEW c \in Nat, NEW s \in Streams, NEW since \in Nat,
         NEW page \in Table, NEW acked \in Table, NEW list \in Seq(Statements), NEW flat \in Seq(Statements),
         NEW at \in Nat, NEW lists, lists[s] = list, Placed(flat, lists, s, at),
         Applied(list, s, since, page, acked), AnswerIn(t, c, since, page, acked), CoversIn(t, l, c)
  PROVE  CursorsIn(t, l, flat, s) /\ WritesIn(t, c, flat, s)
<1>1. /\ \A k \in DOMAIN list : k \in Nat \ {0} /\ at + k \in DOMAIN flat /\ flat[at + k] = list[k]
      /\ \A m \in DOMAIN flat : m \in Nat /\
           (flat[m].stream = s => m - at \in DOMAIN list /\ flat[m] = list[m - at])
  BY LenProperties DEF Placed
<1>2. since = c BY DEF AnswerIn
<1>3. \A x \in Held(page) : page[x].seq \in Nat /\ x \in Ids BY HeldRow
<1>4. ASSUME NEW m \in DOMAIN flat, Sets(flat[m], "cursor", s) PROVE flat[m].value \in Last(page, since)
  <2>1. m - at \in DOMAIN list /\ flat[m] = list[m - at] BY <1>1, <1>4 DEF Sets
  <2>. QED BY <1>4, <2>1 DEF Applied, WritesRows, Sets
<1>5. ASSUME NEW next \in Last(page, since)
      PROVE  /\ next \in Nat
             /\ \A id \in Held(t) : t[id].seq <= next => t[id].seq <= since \/ page[id] = t[id]
             /\ \A id \in Held(page) : page[id] = t[id] \/ BeyondIn(t, id, next)
             /\ \A id \in Held(acked) :
                  \/ acked[id] = t[id]
                  \/ BeyondIn(t, id, since) /\ (page[id] = t[id] \/ BeyondIn(t, id, next))
  BY LastIsNat DEF AnswerIn
\* The page comes after the acknowledged rows and before the Cursor.
<1>6. ASSUME NEW id \in Held(page), page[id] = t[id], NEW m \in DOMAIN flat, Sets(flat[m], "cursor", s)
      PROVE  /\ BringsIn(t, flat, 0, m, s, id)
             /\ \A j \in DOMAIN flat : WritesRows(flat[j], s) /\ flat[j].table[id] # t[id] =>
                  BringsIn(t, flat, j, m, s, id)
  <2>1. PICK p \in DOMAIN list :
          /\ Sets(list[p], "pull", s) \/ Sets(list[p], "write", s)
          /\ list[p].table = page
          /\ \A k \in DOMAIN list :
               /\ k > p => Sets(list[k], "cursor", s)
               /\ Sets(list[k], "cursor", s) => k > p
    BY <1>6 DEF Applied
  <2>. DEFINE q == at + p
  <2>2. q \in DOMAIN flat /\ flat[q] = list[p] /\ p \in Nat \ {0} BY <1>1
  <2>3. m - at \in DOMAIN list /\ flat[m] = list[m - at] /\ m \in Nat BY <1>1, <1>6 DEF Sets
  <2>4. m - at > p BY <1>6, <2>1, <2>3
  <2>5. q < m /\ 0 < q /\ q \in Nat BY <2>2, <2>3, <2>4
  <2>6. ASSUME NEW j \in DOMAIN flat, WritesRows(flat[j], s), flat[j].table[id] # t[id] PROVE j < q
    <3>1. j - at \in DOMAIN list /\ flat[j] = list[j - at] /\ j \in Nat BY <1>1, <2>6 DEF Sets, WritesRows
    <3>2. j - at # p BY <1>6, <2>1, <2>6, <3>1
    <3>3. ~Sets(list[j - at], "cursor", s) BY <2>6, <3>1 DEF Sets, WritesRows
    <3>4. ~(j - at > p) BY <2>1, <3>1, <3>3
    <3>. QED BY <2>2, <3>1, <3>2, <3>4
  <2>. HIDE DEF q
  <2>. QED BY <1>6, <2>1, <2>2, <2>5, <2>6 DEF BringsIn
<1>7. CursorsIn(t, l, flat, s)
  <2>. SUFFICES ASSUME NEW m \in DOMAIN flat, Sets(flat[m], "cursor", s), NEW id \in Held(t), t[id].seq <= flat[m].value
                PROVE  HasIn(t, l, id) \/ BringsIn(t, flat, 0, m, s, id)
    BY DEF CursorsIn
  <2>1. t[id].seq <= since \/ page[id] = t[id] BY <1>4, <1>5
  <2>2. CASE t[id].seq <= since BY <1>2, <2>2 DEF CoversIn
  <2>3. CASE page[id] = t[id]
    <3>1. id \in Held(page) BY <2>3 DEF Held
    <3>. QED BY <1>6, <2>3, <3>1
  <2>. QED BY <2>1, <2>2, <2>3
<1>8. WritesIn(t, c, flat, s)
  <2>. SUFFICES ASSUME NEW j \in DOMAIN flat, WritesRows(flat[j], s), NEW id \in Held(flat[j].table),
                       flat[j].table[id] # t[id]
                PROVE  FreshAfter(t, c, flat, j, s, id)
    BY DEF WritesIn
  <2>1. j - at \in DOMAIN list /\ flat[j] = list[j - at] BY <1>1 DEF Sets, WritesRows
  <2>2. flat[j].table[id] # NoRow /\ id \in Ids BY DEF Held
  <2>3. \/ \A x \in Held(flat[j].table) : flat[j].table[x] = acked[x]
        \/ flat[j].table = page
    BY <2>1 DEF Applied, Sets, WritesRows
  <2>4. CASE \A x \in Held(flat[j].table) : flat[j].table[x] = acked[x]
    <3>1. id \in Held(acked) /\ acked[id] # t[id] BY <2>2, <2>4 DEF Held
    <3>2. PICK next \in Last(page, since) : TRUE BY LastExists
    <3>3. BeyondIn(t, id, c) BY <1>2, <1>5, <3>1, <3>2
    <3>4. ASSUME NEW m \in DOMAIN flat, Sets(flat[m], "cursor", s)
          PROVE  BeyondIn(t, id, flat[m].value) \/ BringsIn(t, flat, j, m, s, id)
      <4>1. flat[m].value \in Last(page, since) BY <1>4, <3>4
      <4>2. page[id] = t[id] \/ BeyondIn(t, id, flat[m].value) BY <1>5, <3>1, <4>1
      <4>3. CASE page[id] = t[id]
        <5>1. id \in Held(page) BY <2>2, <3>3, <4>3 DEF BeyondIn, Held
        <5>. QED BY <1>6, <3>4, <4>3, <5>1
      <4>. QED BY <4>2, <4>3
    <3>. QED BY <3>3, <3>4 DEF FreshAfter
  <2>5. CASE flat[j].table = page
    <3>1. id \in Held(page) /\ page[id] # t[id] BY <2>5
    <3>2. ASSUME NEW next \in Last(page, since) PROVE BeyondIn(t, id, next) BY <1>5, <3>1, <3>2
    <3>3. PICK next \in Last(page, since) : TRUE BY LastExists
    <3>4. next \in Nat /\ \A x \in Held(page) : page[x].seq <= next BY LastIsNat
    <3>5. BeyondIn(t, id, c)
      <4>1. BeyondIn(t, id, next) /\ t[id].seq \in Nat BY <3>2, HeldRow DEF BeyondIn
      <4>2. CASE next >= since BY <1>2, <3>4, <4>1, <4>2 DEF BeyondIn
      <4>3. CASE next < since
        <5>1. \A x \in Held(page) : page[x].seq <= since BY <1>3, <3>4, <4>3
        <5>2. since \in Last(page, since) BY <5>1 DEF Last
        <5>. QED BY <1>2, <3>2, <5>2
      <4>. QED BY <3>4, <4>2, <4>3
    <3>6. \A m \in DOMAIN flat : Sets(flat[m], "cursor", s) => BeyondIn(t, id, flat[m].value)
      BY <1>4, <3>2
    <3>. QED BY <3>5, <3>6 DEF FreshAfter
  <2>. QED BY <2>3, <2>4, <2>5
<1>. QED BY <1>7, <1>8

-----------------------------------------------------------------------------
(* What a step leaves alone.                                               *)

\* The Server's tables, and what they can have become.
ServerMoves == \A s \in Streams : MovedTo(rows[s], rows'[s])

\* Doing nothing is one of the Server's moves.
LEMMA ServerStays ==
  ASSUME rows' = rows
  PROVE  ServerMoves
  BY DEF ServerMoves, MovedTo

\* What is within the Server's log stays within it.
LEMMA LogMoves ==
  ASSUME TypeOK, TypeOK', ServerMoves, NEW s \in Streams, NEW n \in Nat, InLog(s, n)
  PROVE  InTable(rows'[s], n)
<1>1. rows[s] \in Table /\ rows'[s] \in Table BY DEF TypeOK, Tables
<1>2. MovedTo(rows[s], rows'[s]) BY DEF ServerMoves
<1>3. InTable(rows[s], n) BY DEF InLog, InTable
<1>. QED BY <1>1, <1>2, <1>3, StaysInTable

\* A job that nobody else writes into, or that is not alone any more.
LEMMA JobSideStays ==
  ASSUME NEW d \in Devices, JobSide(d), saved'[d] = saved[d],
         job'[d].kind = job[d].kind, job'[d].todo = job[d].todo, job'[d].open = job[d].open,
         job'[d].copy = job[d].copy, job'[d].alone => job[d].alone /\ store'[d] = store[d]
  PROVE  JobSide(d)'
<1>1. JobFits(d)' BY DEF JobSide, JobFits
<1>2. ResetsComeLast(d)' BY DEF JobSide, ResetsComeLast
<1>3. ASSUME NEW s \in Streams PROVE RestoreFollowsFile(d, s)'
  <2>1. RestoreFollowsFile(d, s) BY DEF JobSide
  <2>2. CASE job'[d].alone BY <2>1, <2>2 DEF RestoreFollowsFile
  <2>3. CASE ~job'[d].alone BY <2>3 DEF RestoreFollowsFile
  <2>. QED BY <2>2, <2>3
<1>4. ASSUME NEW s \in Streams, NEW id \in Ids PROVE MergeFollowsRules(d, s, id)'
  <2>1. MergeFollowsRules(d, s, id) BY DEF JobSide
  <2>2. CASE job'[d].alone BY <2>1, <2>2 DEF MergeFollowsRules
  <2>3. CASE ~job'[d].alone BY <2>3 DEF MergeFollowsRules
  <2>. QED BY <2>2, <2>3
<1>. QED BY <1>1, <1>2, <1>3, <1>4 DEF JobSide

\* The Cursors stay within the log while the Device leaves them alone.
LEMMA CursorsStay ==
  ASSUME TypeOK, TypeOK', ServerMoves, NEW d \in Devices, NEW s \in Streams, CursorsInLog(d, s),
         store'[d].cursor[s] = store[d].cursor[s], saved'[d] = saved[d],
         job'[d].copy = job[d].copy, job'[d].todo = job[d].todo
  PROVE  CursorsInLog(d, s)'
<1>1. /\ store[d].cursor[s] \in Nat /\ saved[d].cursor[s] \in Nat /\ job[d].copy.cursor[s] \in Nat
  BY DeviceFields, DatabaseFields, JobFields
<1>2. /\ InTable(rows'[s], store[d].cursor[s]) /\ InTable(rows'[s], saved[d].cursor[s])
      /\ InTable(rows'[s], job[d].copy.cursor[s])
  BY <1>1, LogMoves DEF CursorsInLog
<1>3. ASSUME NEW k \in DOMAIN job[d].todo, Sets(job[d].todo[k], "cursor", s)
      PROVE  InTable(rows'[s], job[d].todo[k].value)
  <2>1. job[d].todo[k] \in Statements \cup Reads BY DeviceFields, ElementOfSeq
  <2>2. job[d].todo[k] \in Statements BY <1>3, <2>1 DEF Reads, Sets
  <2>3. job[d].todo[k].value \in Nat BY <2>2, StatementFields
  <2>4. InLog(s, job[d].todo[k].value) BY <1>3 DEF CursorsInLog
  <2>. QED BY <2>3, <2>4, LogMoves
<1>. QED BY <1>2, <1>3 DEF CursorsInLog, InLog, InTable

\* The invariant of a run outlives what others do.
LEMMA RunSideStays ==
  ASSUME TypeOK, TypeOK', ServerMoves, NEW d \in Devices, RunSide(d),
         run'[d].pc = run[d].pc, run'[d].todo = run[d].todo, run'[d].at = run[d].at,
         run'[d].since = run[d].since, run'[d].page = run[d].page
  PROVE  RunSide(d)'
<1>1. RunFits(d)' BY DEF RunSide, RunFits
<1>2. ASSUME NEW s \in Streams PROVE AnswerInLog(d, s)'
  <2>1. run[d].since[s] \in Nat /\ run[d].page[s] \in Table /\ run[d].todo \in Seq(Statements)
    BY DeviceFields, RunFields DEF Tables
  <2>2. InTable(rows'[s], run[d].since[s]) BY <2>1, LogMoves DEF RunSide, AnswerInLog
  <2>3. ASSUME NEW id \in Held(run[d].page[s]) PROVE InTable(rows'[s], run[d].page[s][id].seq)
    <3>1. run[d].page[s][id].seq \in Nat BY <2>1, HeldRow
    <3>2. InLog(s, run[d].page[s][id].seq) BY DEF RunSide, AnswerInLog
    <3>. QED BY <3>1, <3>2, LogMoves
  <2>4. ASSUME NEW k \in DOMAIN run[d].todo, Sets(run[d].todo[k], "cursor", s)
        PROVE  InTable(rows'[s], run[d].todo[k].value)
    <3>1. run[d].todo[k].value \in Nat BY <2>1, ElementOfSeq, StatementFields
    <3>2. InLog(s, run[d].todo[k].value) BY <2>4 DEF RunSide, AnswerInLog
    <3>. QED BY <3>1, <3>2, LogMoves
  <2>. QED BY <2>2, <2>3, <2>4 DEF AnswerInLog, InLog, InTable
<1>. QED BY <1>1, <1>2 DEF RunSide

\* Where the next run reads from is within the log.
LEMMA PositionInLog ==
  ASSUME TypeOK, NEW d \in Devices, NEW s \in Streams, CursorsInLog(d, s)
  PROVE  /\ Position(store[d], s) \in Nat /\ InTable(rows[s], Position(store[d], s))
         /\ Position(saved[d], s) \in Nat /\ InTable(rows[s], Position(saved[d], s))
<1>1. store[d].cursor[s] \in Nat /\ saved[d].cursor[s] \in Nat
  BY DeviceFields, DatabaseFields
<1>. QED BY <1>1 DEF Position, CursorsInLog, InLog, InTable

\* What a run holds of a stream outlives what the Server does.
LEMMA TrackedStays ==
  ASSUME TypeOK, TypeOK', ServerMoves, NEW d \in Devices, NEW s \in Streams, RunSide(d), CursorsInLog(d, s),
         store'[d] = store[d],
         run'[d].pc = run[d].pc, run'[d].todo = run[d].todo,
         run'[d].since = run[d].since, run'[d].page = run[d].page,
         \A id \in Ids : run'[d].acked[s][id] \in {run[d].acked[s][id], NoRow, rows'[s][id]},
         Tracked(d, s)
  PROVE  Tracked(d, s)'
<1>. DEFINE t == rows[s]
            u == rows'[s]
            l == store[d].rows[s]
            n == Position(store[d], s)
            c == store[d].cursor[s]
            since == run[d].since[s]
            page == run[d].page[s]
            acked == run[d].acked[s]
            more == run'[d].acked[s]
            todo == run[d].todo
<1>1. /\ t \in Table /\ u \in Table /\ l \in Table /\ c \in Nat /\ since \in Nat /\ page \in Table
      /\ acked \in Table /\ more \in Table /\ todo \in Seq(Statements)
  <2>1. t \in Table /\ u \in Table BY DEF TypeOK, Tables
  <2>2. store[d] \in Database /\ run[d] \in Run BY DeviceFields
  <2>3. run'[d] \in Run BY DEF TypeOK
  <2>. QED BY <2>1, <2>2, <2>3, DatabaseFields, RunFields DEF Tables
<1>2. n \in Nat /\ InTable(t, n) BY PositionInLog
<1>3. MovedTo(t, u) BY DEF ServerMoves
<1>4. /\ InTable(t, c) /\ InTable(t, since) /\ \A id \in Held(page) : InTable(t, page[id].seq)
      /\ \A m \in DOMAIN todo : Sets(todo[m], "cursor", s) => InTable(t, todo[m].value)
  BY DEF CursorsInLog, RunSide, AnswerInLog, InLog, InTable
<1>5. TrackedIn(t, l, n, c, run[d], s) BY TrackedSame
<1>6. \A id \in Ids : more[id] = acked[id] \/ more[id] = NoRow \/ more[id] = u[id] OBVIOUS
<1>7. run'[d].pc = run[d].pc /\ run'[d].todo = todo /\ run'[d].since[s] = since /\ run'[d].page[s] = page OBVIOUS
<1>8. Tracked(d, s)' <=> TrackedIn(u, l, n, c, run'[d], s) BY TrackedSameNext
<1>. HIDE DEF t, u, l, n, c, since, page, acked, more, todo
<1>9. CoversIn(u, l, n) BY <1>1, <1>2, <1>3, <1>5, CoversMoves DEF TrackedIn
<1>10. ASSUME run[d].pc = "server" PROVE AnswerIn(u, c, since, page, more)
  <2>1. AnswerIn(t, c, since, page, acked) BY <1>5, <1>10 DEF TrackedIn, since, page, acked
  <2>. QED BY <1>1, <1>3, <1>4, <1>6, <2>1, AnswerMoves
<1>11. ASSUME run[d].pc = "apply" PROVE CursorsIn(u, l, todo, s) /\ WritesIn(u, c, todo, s)
  <2>1. CursorsIn(t, l, todo, s) /\ WritesIn(t, c, todo, s) BY <1>5, <1>11 DEF TrackedIn, todo
  <2>. QED BY <1>1, <1>3, <1>4, <2>1, WholeMoves
<1>12. TrackedIn(u, l, n, c, run'[d], s)
  BY <1>7, <1>9, <1>10, <1>11 DEF TrackedIn, more
<1>. QED BY <1>8, <1>12

\* What BEGIN keeps goes on covering the log as the log moves.
LEMMA SavedStays ==
  ASSUME TypeOK, TypeOK', ServerMoves, NEW d \in Devices, NEW s \in Streams, CursorsInLog(d, s),
         saved'[d] = saved[d], Covers(saved[d], s)
  PROVE  Covers(saved[d], s)'
<1>. DEFINE t == rows[s]
            u == rows'[s]
            l == saved[d].rows[s]
            n == Position(saved[d], s)
<1>1. t \in Table /\ u \in Table /\ l \in Table
  <2>1. t \in Table /\ u \in Table BY DEF TypeOK, Tables
  <2>2. saved[d] \in Database BY DeviceFields
  <2>. QED BY <2>1, <2>2, DatabaseFields
<1>2. n \in Nat /\ InTable(t, n) BY PositionInLog
<1>3. MovedTo(t, u) BY DEF ServerMoves
<1>4. CoversIn(t, l, n) BY CoversOfSaved
<1>. HIDE DEF t, u, l, n
<1>5. CoversIn(u, l, n) BY <1>1, <1>2, <1>3, <1>4, CoversMoves
<1>6. \A id : Has(saved[d], s, id)' <=> HasIn(u, l, id) BY DEF Has, HasIn, PendingRows, u, l
<1>7. Position(saved[d], s)' = n BY DEF Position, Behind, n
<1>. QED BY <1>5, <1>6, <1>7 DEF Covers, CoversIn, u

\* A Device that does nothing while the Server's tables move.
LEMMA DeviceStays ==
  ASSUME TypeOK, TypeOK', ServerMoves, NEW d \in Devices, DeviceFits(d),
         store'[d] = store[d], saved'[d] = saved[d], torn'[d] = torn[d],
         job'[d].kind = job[d].kind, job'[d].todo = job[d].todo, job'[d].open = job[d].open,
         job'[d].copy = job[d].copy, job'[d].alone => job[d].alone,
         run'[d].pc = run[d].pc, run'[d].todo = run[d].todo, run'[d].at = run[d].at,
         run'[d].since = run[d].since, run'[d].page = run[d].page,
         \A s \in Streams, id \in Ids :
           run'[d].acked[s][id] \in {run[d].acked[s][id], NoRow, rows'[s][id]}
  PROVE  DeviceFits(d)'
<1>1. RunSide(d)' BY RunSideStays DEF DeviceFits
<1>2. JobSide(d)' BY JobSideStays DEF DeviceFits
<1>3. ASSUME NEW s \in Streams PROVE CursorsInLog(d, s)' BY CursorsStay DEF DeviceFits
<1>4. ASSUME NEW s \in Streams \ torn[d] PROVE StreamFits(d, s)'
  <2>1. StreamFits(d, s) /\ CursorsInLog(d, s) /\ RunSide(d) BY DEF DeviceFits
  <2>2. EpochFollowsCursor(d, s)' BY <2>1 DEF StreamFits, EpochFollowsCursor
  <2>3. ASSUME ~Restoring(d, s)', s \notin Behind(store'[d]) PROVE Tracked(d, s)'
    <3>1. ~Restoring(d, s) BY <2>3 DEF Restoring
    <3>2. s \notin Behind(store[d]) BY <2>3
    <3>3. Tracked(d, s) BY <2>1, <3>1, <3>2 DEF StreamFits
    <3>. QED BY <2>1, <3>3, TrackedStays
  <2>4. ASSUME job'[d].open PROVE Covers(saved[d], s)'
    <3>1. Covers(saved[d], s) BY <2>1, <2>4 DEF StreamFits
    <3>. QED BY <2>1, <3>1, SavedStays
  <2>. QED BY <2>2, <2>3, <2>4 DEF StreamFits
<1>. QED BY <1>1, <1>2, <1>3, <1>4 DEF DeviceFits

-----------------------------------------------------------------------------
(* What Sync and the user do beside a job.                                 *)

\* The rest of a Device is as it was.
BesideKept(d) ==
  /\ saved'[d] = saved[d] /\ torn'[d] = torn[d]
  /\ job'[d].kind = job[d].kind /\ job'[d].todo = job[d].todo /\ job'[d].open = job[d].open
  /\ job'[d].copy = job[d].copy
  /\ job'[d].alone => job[d].alone /\ store'[d] = store[d]

\* An edit leaves a stream tracked.
LEMMA ChangeTracked ==
  ASSUME NEW d \in Devices, NEW s \in Streams, UNCHANGED rows, run'[d] = run[d],
         store'[d].cursor = store[d].cursor, store'[d].epoch = store[d].epoch,
         PendingChange(store[d].rows[s], store'[d].rows[s]), Tracked(d, s)
  PROVE  Tracked(d, s)'
<1>. DEFINE n == Position(store[d], s)
            l == store[d].rows[s]
            k == store'[d].rows[s]
            t == rows[s]
            c == store[d].cursor[s]
            r == run[d]
<1>1. TrackedIn(t, l, n, c, r, s) BY TrackedSame
<1>2. Position(store'[d], s) = n BY DEF Position, Behind
<1>3. Tracked(d, s)' <=> TrackedIn(t, k, n, c, r, s) BY <1>2, TrackedSameNext
<1>4. PendingChange(l, k) OBVIOUS
<1>. HIDE DEF n, l, k, t, c, r
<1>. QED BY <1>1, <1>3, <1>4, TrackedAfterChange

\* The user writes a row.
LEMMA UserKeeps ==
  ASSUME TypeOK, TypeOK', NEW d \in Devices, DeviceFits(d), Create(d) \/ Change(d), BesideKept(d)
  PROVE  DeviceFits(d)'
<1>1. SyncTypes BY TypesTogether
<1>2. PICK s \in Streams, id \in Ids, row \in Row : row.seq = Pending /\ UserWrite(d, s, id, row)
  BY <1>1, UserWrites
<1>3. /\ store'[d].cursor = store[d].cursor /\ store'[d].epoch = store[d].epoch
      /\ store'[d].rows[s][id] = row
      /\ \A z \in Streams, x \in Ids : ~(z = s /\ x = id) => store'[d].rows[z][x] = store[d].rows[z][x]
  BY <1>1, <1>2, UserWriteTyped
<1>4. UNCHANGED <<rows, run>> BY <1>2 DEF UserWrite
<1>5. \A z \in Streams : PendingChange(store[d].rows[z], store'[d].rows[z])
  BY <1>2, <1>3, NoRowIsNoRow DEF PendingChange
<1>6. ServerMoves BY <1>4, ServerStays
<1>7. RunSide(d)' BY <1>4, <1>6, RunSideStays DEF DeviceFits
<1>8. JobSide(d)' BY JobSideStays DEF DeviceFits, BesideKept
<1>9. ASSUME NEW z \in Streams PROVE CursorsInLog(d, z)' BY <1>3, <1>6, CursorsStay DEF DeviceFits, BesideKept
<1>10. ASSUME NEW z \in Streams \ torn[d] PROVE StreamFits(d, z)'
  <2>1. StreamFits(d, z) /\ CursorsInLog(d, z) BY DEF DeviceFits
  <2>2. EpochFollowsCursor(d, z)' BY <1>3, <1>4, <2>1 DEF StreamFits, EpochFollowsCursor, BesideKept
  <2>3. ASSUME ~Restoring(d, z)', z \notin Behind(store'[d]) PROVE Tracked(d, z)'
    <3>1. ~Restoring(d, z) BY <2>3 DEF Restoring, BesideKept
    <3>2. z \notin Behind(store[d]) BY <1>3, <2>3 DEF Behind
    <3>3. Tracked(d, z) BY <2>1, <3>1, <3>2 DEF StreamFits
    <3>. QED BY <1>3, <1>4, <1>5, <3>3, ChangeTracked
  <2>4. ASSUME job'[d].open PROVE Covers(saved[d], z)'
    <3>1. Covers(saved[d], z) BY <2>1, <2>4 DEF StreamFits, BesideKept
    <3>. QED BY <1>6, <2>1, <3>1, SavedStays DEF BesideKept
  <2>. QED BY <2>2, <2>3, <2>4 DEF StreamFits
<1>. QED BY <1>7, <1>8, <1>9, <1>10 DEF DeviceFits, BesideKept

\* A run at the top of its loop, or none, tracks what the database covers.
LEMMA IdleTracked ==
  ASSUME NEW d \in Devices, NEW s \in Streams, run[d].pc \in {"idle", "loop"}
  PROVE  Tracked(d, s) <=> Covers(store[d], s)
  BY DEF Tracked

\* Without an answer, tracking a stream is covering it.
IdleEverywhere ==
  \A d \in Devices, s \in Streams : run[d].pc \in {"idle", "loop"} => (Tracked(d, s) <=> Covers(store[d], s))

\* The same after a step.
LEMMA IdleTrackedNext == IdleEverywhere'
<1>1. IdleEverywhere BY IdleTracked DEF IdleEverywhere
<1>. QED BY <1>1, PTL

\* A step that leaves the rows and the database alone leaves them covered.
LEMMA CoversStays ==
  ASSUME NEW d \in Devices, NEW s \in Streams, UNCHANGED rows, store'[d] = store[d], Covers(store[d], s)
  PROVE  Covers(store[d], s)'
  BY DEF Covers, Has, PendingRows, Position, Behind

\* The run's new statements and requests while the database stays.
LEMMA RunMoves ==
  ASSUME TypeOK, TypeOK', NEW d \in Devices, DeviceFits(d), UNCHANGED rows, store'[d] = store[d], BesideKept(d),
         RunSide(d)',
         \A s \in Streams \ torn[d] : EpochFollowsCursor(d, s)',
         \A s \in Streams \ torn[d] : s \notin Behind(store[d]) /\ Tracked(d, s) => Tracked(d, s)'
  PROVE  DeviceFits(d)'
<1>1. ServerMoves BY ServerStays
<1>2. JobSide(d)' BY JobSideStays DEF DeviceFits, BesideKept
<1>3. ASSUME NEW s \in Streams PROVE CursorsInLog(d, s)' BY <1>1, CursorsStay DEF DeviceFits, BesideKept
<1>4. ASSUME NEW s \in Streams \ torn[d] PROVE StreamFits(d, s)'
  <2>1. StreamFits(d, s) /\ CursorsInLog(d, s) BY DEF DeviceFits
  <2>2. ASSUME ~Restoring(d, s)', s \notin Behind(store'[d]) PROVE Tracked(d, s)'
    <3>1. ~Restoring(d, s) BY <2>2 DEF Restoring, BesideKept
    <3>2. s \notin Behind(store[d]) BY <2>2
    <3>. QED BY <2>1, <3>1, <3>2 DEF StreamFits
  <2>3. ASSUME job'[d].open PROVE Covers(saved[d], s)'
    <3>1. Covers(saved[d], s) BY <2>1, <2>3 DEF StreamFits, BesideKept
    <3>. QED BY <1>1, <2>1, <3>1, SavedStays DEF BesideKept
  <2>. QED BY <2>2, <2>3 DEF StreamFits
<1>. QED BY <1>2, <1>3, <1>4 DEF DeviceFits, BesideKept

\* A run that asks for nothing.
LEMMA NothingInLog ==
  ASSUME NEW s \in Streams
  PROVE  NoTables[s] = EmptyTable /\ Held(NoTables[s]) = {} /\ InTable(rows'[s], 0)
  BY EmptyTableIsTable DEF NoTables, InTable

\* A run that ends, or loops, keeps the Device's invariant.
LEMMA EndsKeeps ==
  ASSUME TypeOK, TypeOK', NEW d \in Devices, DeviceFits(d), BesideKept(d), UNCHANGED rows, store'[d] = store[d],
         run'[d].todo = <<>>, run'[d].pc \in {"idle", "loop"},
         run'[d].page = NoTables, run'[d].since = [s \in Streams |-> 0]
  PROVE  DeviceFits(d)'
<1>1. RunSide(d)'
  <2>1. RunFits(d)' BY DEF RunFits
  <2>2. ASSUME NEW s \in Streams PROVE AnswerInLog(d, s)'
    BY NothingInLog DEF AnswerInLog, InLog, InTable
  <2>. QED BY <2>1, <2>2 DEF RunSide
<1>2. \A s \in Streams : EpochFollowsCursor(d, s)' BY DEF EpochFollowsCursor
<1>3. ASSUME NEW s \in Streams, Tracked(d, s) PROVE Tracked(d, s)'
  <2>1. Covers(store[d], s) BY <1>3 DEF Tracked
  <2>2. Covers(store[d], s)' BY <2>1, CoversStays
  <2>. QED BY <2>2, IdleTrackedNext DEF IdleEverywhere
<1>. QED BY <1>1, <1>2, <1>3, RunMoves

\* StartSync keeps the Device's invariant.
LEMMA StartKeeps ==
  ASSUME TypeOK, TypeOK', NEW d \in Devices, DeviceFits(d), BesideKept(d), StartSync(d)
  PROVE  DeviceFits(d)'
<1>. DEFINE todo == InOrder(CatchUp(store[d]))
<1>1. /\ UNCHANGED <<rows, store>> /\ run'[d].todo = todo /\ run'[d].pc = "loop"
      /\ run'[d].page = NoTables /\ run'[d].since = [s \in Streams |-> 0]
  BY StartSyncTyped, TypesTogether
<1>2. store[d] \in Database BY DeviceFields
<1>3. \A m \in DOMAIN todo :
        \/ todo[m].op = "cursor" /\ todo[m].value = 0
        \/ /\ todo[m].op = "epoch" /\ m - 1 \in DOMAIN todo /\ m - 1 < m
           /\ Sets(todo[m - 1], "cursor", todo[m].stream)
  BY <1>2, CatchUpResets
<1>. HIDE DEF todo
<1>4. RunSide(d)'
  <2>1. RunFits(d)' BY <1>1, <1>3 DEF RunFits
  <2>2. ASSUME NEW s \in Streams PROVE AnswerInLog(d, s)'
    BY <1>1, <1>3, NothingInLog DEF AnswerInLog, InLog, InTable, Sets
  <2>. QED BY <2>1, <2>2 DEF RunSide
<1>5. ASSUME NEW s \in Streams PROVE EpochFollowsCursor(d, s)'
  <2>1. ASSUME NEW k \in DOMAIN todo, Sets(todo[k], "epoch", s),
               \A j \in DOMAIN todo : j < k => ~Sets(todo[j], "cursor", s)
        PROVE FALSE
    BY <1>3, <2>1 DEF Sets
  <2>. QED BY <1>1, <2>1 DEF EpochFollowsCursor
<1>6. ASSUME NEW s \in Streams, Tracked(d, s) PROVE Tracked(d, s)'
  <2>1. Covers(store[d], s) BY <1>6 DEF Tracked
  <2>2. Covers(store[d], s)' BY <1>1, <2>1, CoversStays
  <2>. QED BY <1>1, <2>2, IdleTrackedNext DEF IdleEverywhere
<1>7. store'[d] = store[d] BY <1>1
<1>. QED BY <1>1, <1>4, <1>5, <1>6, <1>7, RunMoves

-----------------------------------------------------------------------------
(* A request and its answer.                                               *)

\* A request whose answer has yet to begin.
LEMMA NothingAnswers ==
  ASSUME NEW t \in Table, NEW c \in Nat
  PROVE  AnswerIn(t, c, c, EmptyTable, EmptyTable)
<1>1. EmptyTable \in Table /\ Held(EmptyTable) = {} BY EmptyTableIsTable
<1>2. ASSUME NEW next \in Last(EmptyTable, c) PROVE next = c BY <1>1, LastIsNat
<1>. QED BY <1>1, <1>2 DEF AnswerIn

\* Push keeps the Device's invariant.
LEMMA PushKeeps ==
  ASSUME TypeOK, TypeOK', NEW d \in Devices, DeviceFits(d), BesideKept(d), Push(d)
  PROVE  DeviceFits(d)'
<1>1. /\ UNCHANGED <<rows, store>> /\ run'[d].todo = <<>> /\ run'[d].pc = "server" /\ run'[d].at = 1
      /\ run'[d].since = store[d].cursor /\ run'[d].page = NoTables /\ run'[d].acked = NoTables
  BY PushTyped, TypesTogether
<1>2. RunSide(d)'
  <2>1. RunFits(d)' BY <1>1, OrderIsList DEF RunFits
  <2>2. ASSUME NEW s \in Streams PROVE AnswerInLog(d, s)'
    <3>1. InLog(s, store[d].cursor[s]) BY DEF DeviceFits, CursorsInLog
    <3>2. Held(run'[d].page[s]) = {} /\ run'[d].todo = <<>> /\ run'[d].since[s] = store[d].cursor[s]
      BY <1>1, NothingInLog
    <3>3. rows'[s] = rows[s] BY <1>1
    <3>. QED BY <3>1, <3>2, <3>3 DEF AnswerInLog, InLog
  <2>. QED BY <2>1, <2>2 DEF RunSide
<1>3. \A s \in Streams : EpochFollowsCursor(d, s)' BY <1>1 DEF EpochFollowsCursor
<1>4. ASSUME NEW s \in Streams, Tracked(d, s) PROVE Tracked(d, s)'
  <2>. DEFINE t == rows[s]
              l == store[d].rows[s]
              n == Position(store[d], s)
              c == store[d].cursor[s]
  <2>1. TrackedIn(t, l, n, c, run[d], s) BY <1>4, TrackedSame
  <2>2. Tracked(d, s)' <=> TrackedIn(t, l, n, c, run'[d], s) BY <1>1, TrackedSameNext
  <2>3. t \in Table /\ c \in Nat BY DeviceFields, DatabaseFields DEF TypeOK, Tables
  <2>4. run'[d].since[s] = c /\ run'[d].page[s] = EmptyTable /\ run'[d].acked[s] = EmptyTable
    BY <1>1 DEF NoTables
  <2>. HIDE DEF t, l, n, c
  <2>5. AnswerIn(t, c, c, EmptyTable, EmptyTable) BY <2>3, NothingAnswers
  <2>. QED BY <1>1, <2>1, <2>2, <2>4, <2>5 DEF TrackedIn
<1>5. store'[d] = store[d] BY <1>1
<1>. QED BY <1>1, <1>2, <1>3, <1>4, <1>5, RunMoves

\* One more stream of the answer.
LEMMA AnsweredFits ==
  ASSUME TypeOK, NEW d \in Devices, RunSide(d), run[d].pc = "server", NEW s \in Streams
  PROVE  /\ \A id \in Held(Answered(d).page[s]) : InLog(s, Answered(d).page[s][id].seq)
         /\ InLog(s, Answered(d).since[s])
         /\ Tracked(d, s) =>
              AnswerIn(rows[s], store[d].cursor[s], Answered(d).since[s], Answered(d).page[s], Answered(d).acked[s])
<1>. DEFINE A == Answered(d)
            t == rows[s]
            c == store[d].cursor[s]
            since == run[d].since[s]
            acked == run[d].acked[s]
            old == run[d].page[s]
            new == Only(t, Page(t, since, BatchSize))
<1>1. /\ A.since[s] = since /\ A.acked[s] = acked
      /\ A.page[s] = IF s = Order[run[d].at] THEN new ELSE old
  BY AnsweredTyped, TypesTogether DEF RunSide
<1>2. AnswerInLog(d, s) BY DEF RunSide
<1>3. /\ t \in Table /\ since \in Nat /\ acked \in Table /\ old \in Table
  BY DeviceFields, RunFields DEF TypeOK, Tables
<1>4. Tracked(d, s) => AnswerIn(t, c, since, old, acked)
  BY TrackedSame DEF TrackedIn
<1>5. BatchSize \in Nat \ {0} BY StreamsAssumption
<1>6. ASSUME NEW id \in Held(new) PROVE InLog(s, new[id].seq)
  <2>1. id \in Held(t) /\ new[id] = t[id] /\ t[id].seq \in Nat BY <1>3, OnlyIsTable, HeldRow
  <2>. QED BY <2>1 DEF InLog
<1>7. AnswerIn(t, c, since, old, acked) => AnswerIn(t, c, since, new, acked)
  BY <1>3, <1>5, ReadAnswers
<1>. HIDE DEF A, t, c, since, acked, old, new
<1>8. \A id \in Held(A.page[s]) : InLog(s, A.page[s][id].seq)
  BY <1>1, <1>2, <1>6 DEF AnswerInLog, old
<1>9. InLog(s, A.since[s]) BY <1>1, <1>2 DEF AnswerInLog, since
<1>10. Tracked(d, s) => AnswerIn(t, c, A.since[s], A.page[s], A.acked[s])
  BY <1>1, <1>4, <1>7
<1>. QED BY <1>8, <1>9, <1>10 DEF A, t, c

\* A stream of the answer that is not the last keeps the Device's invariant.
LEMMA MoreKeeps ==
  ASSUME TypeOK, TypeOK', NEW d \in Devices, DeviceFits(d), BesideKept(d), UNCHANGED <<rows, store>>,
         run[d].pc = "server", run'[d] = Answered(d), run[d].at < Len(Order)
  PROVE  DeviceFits(d)'
<1>0. RunSide(d) /\ RunFits(d) BY DEF DeviceFits, RunSide
<1>1. /\ run'[d].todo = <<>> /\ run'[d].pc = "server" /\ run'[d].at = run[d].at + 1
      /\ Answered(d) \in Run
  BY <1>0, AnsweredTyped, TypesTogether DEF RunFits
<1>2. RunSide(d)'
  <2>1. run[d].at + 1 \in DOMAIN Order BY <1>0, OrderIsList DEF RunFits
  <2>2. RunFits(d)' BY <1>1, <2>1 DEF RunFits
  <2>3. ASSUME NEW s \in Streams PROVE AnswerInLog(d, s)'
    <3>1. /\ \A id \in Held(run'[d].page[s]) : InLog(s, run'[d].page[s][id].seq)
          /\ InLog(s, run'[d].since[s])
      BY <1>0, AnsweredFits
    <3>. QED BY <1>1, <3>1 DEF AnswerInLog, InLog
  <2>. QED BY <2>2, <2>3 DEF RunSide
<1>3. \A s \in Streams : EpochFollowsCursor(d, s)' BY <1>1 DEF EpochFollowsCursor
<1>4. ASSUME NEW s \in Streams, Tracked(d, s) PROVE Tracked(d, s)'
  <2>. DEFINE t == rows[s]
              l == store[d].rows[s]
              n == Position(store[d], s)
              c == store[d].cursor[s]
  <2>1. TrackedIn(t, l, n, c, run[d], s) BY <1>4, TrackedSame
  <2>2. Tracked(d, s)' <=> TrackedIn(t, l, n, c, run'[d], s) BY TrackedSameNext
  <2>3. AnswerIn(t, c, run'[d].since[s], run'[d].page[s], run'[d].acked[s]) BY <1>0, <1>4, AnsweredFits
  <2>. HIDE DEF t, l, n, c
  <2>. QED BY <1>1, <2>1, <2>2, <2>3 DEF TrackedIn
<1>5. store'[d] = store[d] OBVIOUS
<1>. QED BY <1>2, <1>3, <1>4, <1>5, RunMoves

\* The whole answer, as statements.
LEMMA AnswerPlaced ==
  ASSUME NEW r \in Run
  PROVE  LET lists == [z \in Streams |-> Apply(r, z)]
             flat == InOrder(lists)
         IN  /\ flat \in Seq(Statements)
             /\ \A s \in Streams : /\ \E at \in Nat : Placed(flat, lists, s, at)
                                   /\ lists[s] \in Seq(Statements)
                                   /\ Applied(lists[s], s, r.since[s], r.page[s], r.acked[s])
             /\ \A k \in DOMAIN flat :
                  /\ flat[k].op \in {"ack", "pull", "write", "cursor"}
                  /\ \A s \in Streams : Sets(flat[k], "cursor", s) => flat[k].value \in Last(r.page[s], r.since[s])
<1>. DEFINE lists == [z \in Streams |-> Apply(r, z)]
            flat == InOrder(lists)
<1>1. ASSUME NEW s \in Streams
      PROVE  lists[s] \in Seq(Statements) /\ Applied(lists[s], s, r.since[s], r.page[s], r.acked[s])
  BY ApplyIsApplied
<1>2. lists \in [Streams -> Seq(Statements)] BY <1>1
<1>. HIDE DEF lists
<1>3. \A s \in Streams : \A k \in DOMAIN lists[s] : lists[s][k].stream = s
  BY <1>1 DEF Applied
<1>4. /\ flat \in Seq(Statements)
      /\ \A s \in Streams : \E at \in Nat : Placed(flat, lists, s, at)
  BY <1>2, <1>3, InOrderPlaces
<1>. HIDE DEF flat
<1>5. ASSUME NEW k \in DOMAIN flat
      PROVE  /\ flat[k].op \in {"ack", "pull", "write", "cursor"}
             /\ \A s \in Streams : Sets(flat[k], "cursor", s) => flat[k].value \in Last(r.page[s], r.since[s])
  <2>. DEFINE z == flat[k].stream
  <2>1. z \in Streams BY <1>4, ElementOfSeq, StatementFields
  <2>2. PICK at \in Nat : Placed(flat, lists, z, at) BY <1>4, <2>1
  <2>. DEFINE i == k - at
  <2>3. i \in DOMAIN lists[z] /\ flat[k] = lists[z][i] BY <2>2 DEF Placed
  <2>. HIDE DEF i
  <2>4. Applied(lists[z], z, r.since[z], r.page[z], r.acked[z]) BY <1>1, <2>1
  <2>5. \/ flat[k].op \in {"ack", "pull", "write"}
        \/ flat[k].op = "cursor" /\ flat[k].value \in Last(r.page[z], r.since[z])
    BY <2>3, <2>4 DEF Applied, WritesRows, Sets
  <2>. QED BY <2>5 DEF Sets
<1>. QED BY <1>1, <1>4, <1>5 DEF lists, flat

\* The last stream of the answer, and the statements it becomes, keep the
\* Device's invariant.
LEMMA LastAnswerKeeps ==
  ASSUME TypeOK, TypeOK', NEW d \in Devices, DeviceFits(d), BesideKept(d), UNCHANGED <<rows, store>>,
         run[d].pc = "server", run'[d].pc = "apply",
         run'[d].todo = InOrder([z \in Streams |-> Apply(Answered(d), z)]),
         run'[d].page = NoTables, run'[d].since = [s \in Streams |-> 0]
  PROVE  DeviceFits(d)'
<1>0. RunSide(d) /\ RunFits(d) BY DEF DeviceFits, RunSide
<1>. DEFINE r == Answered(d)
            lists == [z \in Streams |-> Apply(r, z)]
            flat == InOrder(lists)
<1>1. r \in Run BY <1>0, AnsweredTyped, TypesTogether
<1>2. run'[d].todo = flat OBVIOUS
<1>3. /\ flat \in Seq(Statements)
      /\ \A s \in Streams : /\ \E at \in Nat : Placed(flat, lists, s, at)
                            /\ lists[s] \in Seq(Statements)
                            /\ Applied(lists[s], s, r.since[s], r.page[s], r.acked[s])
      /\ \A k \in DOMAIN flat :
           /\ flat[k].op \in {"ack", "pull", "write", "cursor"}
           /\ \A s \in Streams : Sets(flat[k], "cursor", s) => flat[k].value \in Last(r.page[s], r.since[s])
  BY <1>1, AnswerPlaced
<1>4. ASSUME NEW s \in Streams
      PROVE  /\ \A id \in Held(r.page[s]) : InLog(s, r.page[s][id].seq)
             /\ InLog(s, r.since[s])
             /\ Tracked(d, s) => AnswerIn(rows[s], store[d].cursor[s], r.since[s], r.page[s], r.acked[s])
  BY <1>0, AnsweredFits
<1>5. ASSUME NEW s \in Streams
      PROVE  r.page[s] \in Table /\ r.since[s] \in Nat /\ r.acked[s] \in Table
  BY <1>1, RunFields DEF Tables
<1>. HIDE DEF r, lists, flat
<1>6. RunSide(d)'
  <2>1. RunFits(d)' BY <1>2, <1>3 DEF RunFits
  <2>2. ASSUME NEW s \in Streams PROVE AnswerInLog(d, s)'
    <3>1. ASSUME NEW k \in DOMAIN flat, Sets(flat[k], "cursor", s) PROVE InLog(s, flat[k].value)
      <4>1. flat[k].value \in Last(r.page[s], r.since[s]) BY <1>3, <3>1
      <4>2. flat[k].value = r.since[s] \/ \E id \in Held(r.page[s]) : flat[k].value = r.page[s][id].seq
        BY <1>5, <4>1, LastIsNat
      <4>. QED BY <1>4, <4>2
    <3>2. Held(run'[d].page[s]) = {} /\ run'[d].since[s] = 0 BY NothingInLog
    <3>3. rows'[s] = rows[s] OBVIOUS
    <3>. QED BY <1>2, <3>1, <3>2, <3>3 DEF AnswerInLog, InLog
  <2>. QED BY <2>1, <2>2 DEF RunSide
<1>7. \A s \in Streams : EpochFollowsCursor(d, s)' BY <1>2, <1>3 DEF EpochFollowsCursor, Sets
<1>8. ASSUME NEW s \in Streams, s \notin Behind(store[d]), Tracked(d, s) PROVE Tracked(d, s)'
  <2>. DEFINE t == rows[s]
              l == store[d].rows[s]
              c == store[d].cursor[s]
  <2>0. Position(store[d], s) = c BY <1>8 DEF Position
  <2>1. TrackedIn(t, l, c, c, run[d], s) BY <1>8, <2>0, TrackedSame
  <2>2. Tracked(d, s)' <=> TrackedIn(t, l, c, c, run'[d], s) BY <2>0, TrackedSameNext
  <2>3. /\ t \in Table /\ l \in Table /\ c \in Nat
    BY DeviceFields, DatabaseFields DEF TypeOK, Tables
  <2>4. AnswerIn(t, c, r.since[s], r.page[s], r.acked[s]) BY <1>4, <1>8
  <2>. HIDE DEF t, l, c
  <2>5. CoversIn(t, l, c) BY <2>1 DEF TrackedIn
  <2>6. PICK at \in Nat : Placed(flat, lists, s, at) BY <1>3
  <2>. DEFINE list == lists[s]
              since == r.since[s]
              page == r.page[s]
              acked == r.acked[s]
  <2>7. /\ list \in Seq(Statements) /\ Applied(list, s, since, page, acked)
        /\ since \in Nat /\ page \in Table /\ acked \in Table /\ AnswerIn(t, c, since, page, acked)
    BY <1>3, <1>5, <2>4
  <2>8. lists[s] = list OBVIOUS
  <2>. HIDE DEF list, since, page, acked
  <2>9. CursorsIn(t, l, flat, s) /\ WritesIn(t, c, flat, s)
    BY <1>3, <2>3, <2>5, <2>6, <2>7, <2>8, AnswerBecomes
  <2>. QED BY <1>2, <2>2, <2>5, <2>9 DEF TrackedIn
<1>9. store'[d] = store[d] OBVIOUS
<1>. QED BY <1>6, <1>7, <1>8, <1>9, RunMoves

\* Read keeps the Device's invariant.
LEMMA ReadKeeps ==
  ASSUME TypeOK, TypeOK', NEW d \in Devices, DeviceFits(d), BesideKept(d), Read(d)
  PROVE  DeviceFits(d)'
<1>0. RunFits(d) BY DEF DeviceFits, RunSide
<1>1. /\ UNCHANGED <<rows, store>> /\ run[d].pc = "server"
      /\ \/ run'[d] = Answered(d) /\ run[d].at < Len(Order)
         \/ /\ run'[d].pc = "apply"
            /\ run'[d].todo = InOrder([z \in Streams |-> Apply(Answered(d), z)])
            /\ run'[d].page = NoTables /\ run'[d].since = [s \in Streams |-> 0]
  BY <1>0, ReadTyped, TypesTogether
<1>2. CASE run'[d] = Answered(d) /\ run[d].at < Len(Order) BY <1>1, <1>2, MoreKeeps
<1>3. CASE ~(run'[d] = Answered(d) /\ run[d].at < Len(Order)) BY <1>1, <1>3, LastAnswerKeeps
<1>. QED BY <1>2, <1>3

-----------------------------------------------------------------------------
(* A statement of the run.                                                 *)

\* Nothing is covered from before the beginning.
LEMMA NothingToCover ==
  ASSUME LogFits, TypeOK, NEW s \in Streams, NEW l
  PROVE  CoversIn(rows[s], l, 0)
<1>1. rows[s] \in Table BY DEF TypeOK, Tables
<1>2. ASSUME NEW id \in Held(rows[s]) PROVE ~(rows[s][id].seq <= 0)
  <2>1. rows[s][id].seq \in Nat BY <1>1, HeldRow
  <2>. QED BY <2>1 DEF LogFits, Pending
<1>. QED BY <1>2 DEF CoversIn

\* A Restore that has a Cursor to reset has the epoch to reset after it.
LEMMA ResetsAheadRestore ==
  ASSUME TypeOK, NEW d \in Devices, JobFits(d), ResetsComeLast(d), NEW s \in Streams,
         ResetAhead(job[d].todo, 0, "cursor", s)
  PROVE  job[d].open /\ job[d].kind = "restore" /\ Restoring(d, s)
<1>. DEFINE todo == job[d].todo
<1>1. PICK l \in DOMAIN todo : l > 0 /\ Sets(todo[l], "cursor", s) /\ todo[l].value = 0
  BY DEF ResetAhead
<1>2. job[d] \in Job /\ todo \in Seq(Statements \cup Reads) BY DeviceFields
<1>3. todo # <<>> BY <1>1
<1>4. job[d].kind = "restore" BY <1>1 DEF JobFits, Sets
<1>5. job[d].open BY <1>2, <1>3, <1>4, JobFields DEF JobFits
<1>6. ResetsFollow(todo, l, s) BY <1>4 DEF ResetsComeLast
<1>7. ResetAhead(todo, l, "epoch", s) BY <1>1, <1>6 DEF ResetsFollow
<1>8. \E k \in DOMAIN todo : Sets(todo[k], "epoch", s) BY <1>7 DEF ResetAhead
<1>. QED BY <1>1, <1>4, <1>5, <1>8 DEF Restoring

\* A statement of sync() leaves a stream tracked.
LEMMA StatementTracked ==
  ASSUME TypeOK, TypeOK', LogFits, NEW d \in Devices, DeviceFits(d), BesideKept(d), Statement(d),
         NEW s \in Streams \ torn[d], ~Restoring(d, s), s \notin Behind(store'[d])
  PROVE  Tracked(d, s)'
<1>. DEFINE todo == run[d].todo
            w == Head(todo)
            t == rows[s]
            l == store[d].rows[s]
            k == store'[d].rows[s]
            c == store[d].cursor[s]
            e == store'[d].cursor[s]
<1>0. SyncTypes BY TypesTogether
<1>1. /\ todo # <<>> /\ todo \in Seq(Statements) /\ w \in Statements
      /\ store'[d] = Execute(store[d], w)
      /\ run'[d].todo = Tail(todo) /\ run'[d].pc = run[d].pc
      /\ store[d] \in Database /\ run[d] \in Run
  BY <1>0, StatementTyped, DeviceFields
<1>2. rows' = rows BY DEF Statement
<1>3. /\ e = (IF Sets(w, "cursor", s) THEN w.value ELSE c)
      /\ store'[d].epoch[s] = IF Sets(w, "epoch", s) THEN w.value ELSE store[d].epoch[s]
      /\ \A id \in Ids : Wrote(w, s, id, l[id], k[id])
      /\ ~Sets(w, "delete", s) /\ ~WritesRows(w, s) => k = l
  <2>. DEFINE db == store[d]
              new == store'[d]
  <2>1. db \in Database /\ w \in Statements /\ new = Execute(db, w) /\ s \in Streams BY <1>1
  <2>. HIDE DEF w
  <2>2. /\ new.cursor[s] = IF Sets(w, "cursor", s) THEN w.value ELSE db.cursor[s]
        /\ new.epoch[s] = IF Sets(w, "epoch", s) THEN w.value ELSE db.epoch[s]
        /\ \A id \in Ids : Wrote(w, s, id, db.rows[s][id], new.rows[s][id])
        /\ ~Sets(w, "delete", s) /\ ~WritesRows(w, s) => new.rows[s] = db.rows[s]
    <3>. HIDE DEF db, new
    <3>. QED BY <2>1, ExecuteWrites
  <2>. QED BY <2>2
<1>4. /\ t \in Table /\ l \in Table /\ k \in Table /\ c \in Nat /\ e \in Nat
  <2>1. store'[d] \in Database BY <1>1, ExecuteWrites
  <2>. QED BY <1>1, <2>1, DatabaseFields DEF TypeOK, Tables
<1>5. Position(store'[d], s) = e BY DEF Position
<1>6. Tracked(d, s)' <=> TrackedIn(t, k, e, e, run'[d], s) BY <1>2, <1>5, TrackedSameNext
<1>7. RunFits(d) /\ JobFits(d) /\ ResetsComeLast(d) /\ StreamFits(d, s)
  BY DEF DeviceFits, RunSide, JobSide
<1>8. 1 \in DOMAIN todo /\ w = todo[1] BY <1>1, TailAt
<1>9. /\ run[d].pc \in {"loop", "apply"}
      /\ run[d].pc = "loop" => (w.op = "cursor" /\ w.value = 0) \/ w.op = "epoch"
      /\ run[d].pc = "apply" => w.op \in {"ack", "pull", "write", "cursor"}
  BY <1>1, <1>7, <1>8, RunFields DEF RunFits
<1>10. CoversIn(t, k, 0) BY NothingToCover
<1>11. CASE s \notin Behind(store[d])
  <2>1. Tracked(d, s) /\ Position(store[d], s) = c BY <1>7, <1>11 DEF StreamFits, Position
  <2>2. TrackedIn(t, l, c, c, run[d], s) BY <2>1, TrackedSame
  <2>. HIDE DEF todo, w, t, l, k, c, e
  <2>3. CASE run[d].pc = "apply"
    <3>1. CoversIn(t, l, c) /\ CursorsIn(t, l, todo, s) /\ WritesIn(t, c, todo, s)
      BY <2>2, <2>3 DEF TrackedIn, todo
    <3>2. Head(todo).op # "delete" BY <1>9, <2>3 DEF w
    <3>3. CoversIn(t, k, e) /\ CursorsIn(t, k, Tail(todo), s) /\ WritesIn(t, e, Tail(todo), s)
      BY <1>1, <1>3, <1>4, <3>1, <3>2, TailIsWhole DEF w
    <3>. QED BY <1>1, <1>6, <2>3, <3>3 DEF TrackedIn
  <2>4. CASE run[d].pc = "loop"
    <3>1. k = l BY <1>3, <1>9, <2>4 DEF Sets, WritesRows
    <3>2. CoversIn(t, k, e)
      <4>1. CASE Sets(w, "cursor", s)
        <5>1. e = 0 BY <1>3, <1>9, <2>4, <4>1 DEF Sets
        <5>. QED BY <1>10, <5>1
      <4>2. CASE ~Sets(w, "cursor", s)
        <5>1. CoversIn(t, l, c) BY <2>2 DEF TrackedIn
        <5>. QED BY <1>3, <3>1, <4>2, <5>1
      <4>. QED BY <4>1, <4>2
    <3>. QED BY <1>1, <1>6, <2>4, <3>2 DEF TrackedIn
  <2>. QED BY <1>9, <2>3, <2>4
<1>12. CASE s \in Behind(store[d])
  <2>1. store[d].epoch[s] = 0 /\ store'[d].epoch[s] # 0 BY <1>12 DEF Behind
  <2>2. Sets(w, "epoch", s) BY <1>3, <2>1
  <2>3. run[d].pc = "loop" BY <1>9, <2>2 DEF Sets
  <2>4. \A j \in DOMAIN todo : ~(j < 1) BY <1>1, LenProperties
  <2>5. c = 0 \/ ResetAhead(job[d].todo, 0, "cursor", s)
    BY <1>7, <1>8, <2>2, <2>4 DEF StreamFits, EpochFollowsCursor
  <2>6. c = 0 BY <1>7, <2>5, ResetsAheadRestore
  <2>7. e = 0 BY <1>3, <2>2, <2>6 DEF Sets
  <2>. HIDE DEF todo, w, t, l, k, c, e
  <2>. QED BY <1>1, <1>6, <1>10, <2>3, <2>7 DEF TrackedIn
<1>. QED BY <1>11, <1>12

\* Statement keeps the Device's invariant.
LEMMA StatementKeeps ==
  ASSUME TypeOK, TypeOK', LogFits, NEW d \in Devices, DeviceFits(d), BesideKept(d), Statement(d)
  PROVE  DeviceFits(d)'
<1>. DEFINE todo == run[d].todo
            w == Head(todo)
<1>0. SyncTypes BY TypesTogether
<1>1. /\ todo # <<>> /\ todo \in Seq(Statements) /\ w \in Statements
      /\ store'[d] = Execute(store[d], w)
      /\ run'[d].todo = Tail(todo) /\ run'[d].pc = run[d].pc /\ run'[d].since = run[d].since
      /\ run'[d].page = run[d].page /\ run'[d].at = run[d].at
      /\ store[d] \in Database /\ run[d] \in Run
  BY <1>0, StatementTyped, DeviceFields
<1>2. rows' = rows BY DEF Statement
<1>3. ServerMoves BY <1>2, ServerStays
<1>4. /\ 1 \in DOMAIN todo /\ w = todo[1]
      /\ \A k \in DOMAIN Tail(todo) : k \in Nat \ {0} /\ k + 1 \in DOMAIN todo /\ Tail(todo)[k] = todo[k + 1]
      /\ \A k \in DOMAIN todo : k \in Nat \ {0} /\ (k > 1 => k - 1 \in DOMAIN Tail(todo) /\ Tail(todo)[k - 1] = todo[k])
  BY <1>1, TailAt
<1>5. \A s \in Streams : store'[d].cursor[s] = IF Sets(w, "cursor", s) THEN w.value ELSE store[d].cursor[s]
  <2>. DEFINE db == store[d]
              new == store'[d]
  <2>1. db \in Database /\ w \in Statements /\ new = Execute(db, w) BY <1>1
  <2>. HIDE DEF w
  <2>2. \A s \in Streams : new.cursor[s] = IF Sets(w, "cursor", s) THEN w.value ELSE db.cursor[s]
    <3>. HIDE DEF db, new
    <3>. QED BY <2>1, ExecuteWrites
  <2>. QED BY <2>2
<1>6. RunFits(d) /\ \A s \in Streams : AnswerInLog(d, s) BY DEF DeviceFits, RunSide
<1>7. RunSide(d)'
  <2>1. RunFits(d)'
    <3>1. run[d].pc \notin {"idle", "server"} BY <1>1, <1>6 DEF RunFits
    <3>. QED BY <1>1, <1>4, <1>6, <3>1 DEF RunFits
  <2>2. ASSUME NEW s \in Streams PROVE AnswerInLog(d, s)' BY <1>1, <1>2, <1>4, <1>6 DEF AnswerInLog, InLog
  <2>. QED BY <2>1, <2>2 DEF RunSide
<1>8. JobSide(d)' BY JobSideStays DEF DeviceFits, BesideKept
<1>9. ASSUME NEW s \in Streams PROVE CursorsInLog(d, s)'
  <2>1. CursorsInLog(d, s) BY DEF DeviceFits
  <2>2. Sets(w, "cursor", s) => InLog(s, w.value) BY <1>4, <1>6 DEF AnswerInLog
  <2>3. InLog(s, store'[d].cursor[s]) BY <1>5, <2>1, <2>2 DEF CursorsInLog
  <2>. QED BY <1>2, <2>1, <2>3 DEF CursorsInLog, InLog, BesideKept
<1>10. ASSUME NEW s \in Streams \ torn[d] PROVE StreamFits(d, s)'
  <2>1. StreamFits(d, s) /\ CursorsInLog(d, s) BY DEF DeviceFits
  <2>2. EpochFollowsCursor(d, s)'
    <3>. SUFFICES ASSUME NEW k \in DOMAIN Tail(todo), Sets(Tail(todo)[k], "epoch", s),
                         \A j \in DOMAIN Tail(todo) : j < k => ~Sets(Tail(todo)[j], "cursor", s)
                  PROVE  store'[d].cursor[s] = 0 \/ ResetAhead(job[d].todo, 0, "cursor", s)
      BY <1>1 DEF EpochFollowsCursor, BesideKept
    <3>1. k \in Nat \ {0} /\ k + 1 \in DOMAIN todo /\ Tail(todo)[k] = todo[k + 1] BY <1>4
    <3>2. CASE Sets(w, "cursor", s)
      <4>1. run[d].pc = "loop" BY <1>1, <1>6, <3>1, RunFields DEF RunFits, Sets
      <4>2. w.value = 0 BY <1>4, <1>6, <3>2, <4>1 DEF RunFits, Sets
      <4>. QED BY <1>5, <3>2, <4>2
    <3>3. CASE ~Sets(w, "cursor", s)
      <4>1. ASSUME NEW j \in DOMAIN todo, j < k + 1 PROVE ~Sets(todo[j], "cursor", s)
        <5>1. CASE j = 1 BY <1>4, <3>3, <5>1
        <5>2. CASE j # 1
          <6>. DEFINE i == j - 1
          <6>1. i \in DOMAIN Tail(todo) /\ Tail(todo)[i] = todo[j] /\ i < k BY <1>4, <3>1, <4>1, <5>2
          <6>. HIDE DEF i
          <6>. QED BY <6>1
        <5>. QED BY <5>1, <5>2
      <4>2. store[d].cursor[s] = 0 \/ ResetAhead(job[d].todo, 0, "cursor", s)
        BY <2>1, <3>1, <4>1 DEF StreamFits, EpochFollowsCursor
      <4>. QED BY <1>5, <3>3, <4>2
    <3>. QED BY <3>2, <3>3
  <2>3. ASSUME ~Restoring(d, s)', s \notin Behind(store'[d]) PROVE Tracked(d, s)'
    <3>1. ~Restoring(d, s) BY <2>3 DEF Restoring, BesideKept
    <3>. QED BY <2>3, <3>1, StatementTracked
  <2>4. ASSUME job'[d].open PROVE Covers(saved[d], s)'
    <3>1. Covers(saved[d], s) BY <2>1, <2>4 DEF StreamFits, BesideKept
    <3>. QED BY <1>3, <2>1, <3>1, SavedStays DEF BesideKept
  <2>. QED BY <2>2, <2>3, <2>4 DEF StreamFits
<1>. QED BY <1>7, <1>8, <1>9, <1>10 DEF DeviceFits, BesideKept

-----------------------------------------------------------------------------
(* A step of Sync or the user keeps the invariant.                         *)

LEMMA LogFitsStays ==
  ASSUME TypeOK, TypeOK', ServerMoves, LogFits,
         file' # NoFile => \A s \in Streams : InLog(s, file'.cursor[s])
  PROVE  LogFits'
<1>1. ASSUME NEW s \in Streams, NEW id \in Held(rows'[s]) PROVE rows'[s][id].seq # Pending
  <2>1. id \in Ids /\ rows'[s][id] # NoRow BY DEF Held
  <2>2. CASE rows'[s][id] = rows[s][id]
    <3>1. id \in Held(rows[s]) BY <2>1, <2>2 DEF Held
    <3>. QED BY <2>2, <3>1 DEF LogFits
  <2>3. CASE rows'[s][id] # rows[s][id]
    <3>1. rows'[s][id].seq \in Nat /\ rows'[s][id].seq > 0 BY <2>1, <2>3 DEF ServerMoves, MovedTo
    <3>. QED BY <3>1 DEF Pending
  <2>. QED BY <2>2, <2>3
<1>2. ASSUME NEW s \in Streams, file' # NoFile PROVE InTable(rows'[s], file'.cursor[s])
  <2>1. file' \in Database BY <1>2 DEF TypeOK
  <2>2. file'.cursor[s] \in Nat BY <2>1, DatabaseFields
  <2>3. InLog(s, file'.cursor[s]) BY <1>2
  <2>. QED BY <2>2, <2>3, LogMoves
<1>. QED BY <1>1, <1>2 DEF LogFits, InLog, InTable

\* The Cursors of the file are within the log.
LEMMA FileInLog ==
  ASSUME LogFits
  PROVE  file # NoFile => \A s \in Streams : InLog(s, file.cursor[s])
  BY DEF LogFits

\* A commit of the Server is one of its moves.
LEMMA CommitMoves ==
  ASSUME SyncTypes, NEW d \in Devices, RunFits(d), Commit(d)
  PROVE  ServerMoves
<1>1. PICK s \in Streams :
        /\ \A z \in Streams \ {s} : rows'[z] = rows[z]
        /\ \A id \in Ids : \/ rows'[s][id] = rows[s][id]
                           \/ /\ rows'[s][id] # NoRow
                              /\ \A old \in Held(rows[s]) : rows'[s][id].seq > rows[s][old].seq
                              /\ rows'[s][id].seq \in Nat /\ rows'[s][id].seq > 0
  BY CommitTyped
<1>2. MovedTo(rows[s], rows'[s]) BY <1>1 DEF MovedTo
<1>3. \A z \in Streams \ {s} : MovedTo(rows[z], rows'[z]) BY <1>1 DEF MovedTo
<1>. QED BY <1>2, <1>3 DEF ServerMoves

\* Commit keeps the Device's invariant.
LEMMA CommitKeeps ==
  ASSUME TypeOK, TypeOK', NEW d \in Devices, DeviceFits(d), BesideKept(d), Commit(d)
  PROVE  DeviceFits(d)'
<1>1. RunFits(d) /\ SyncTypes BY TypesTogether DEF DeviceFits, RunSide
<1>2. ServerMoves BY <1>1, CommitMoves
<1>3. PICK s \in Streams :
        /\ run'[d] = [run[d] EXCEPT !.acked[s] = Only(rows'[s], Held(run[d].push[s]))]
        /\ run'[d].acked[s] = Only(rows'[s], Held(run[d].push[s]))
        /\ \A z \in Streams \ {s} : run'[d].acked[z] = run[d].acked[z]
  BY <1>1, CommitTyped
<1>4. store'[d] = store[d] BY DEF Commit
<1>5. run[d] \in Run BY DeviceFields
<1>6. /\ run'[d].pc = run[d].pc /\ run'[d].todo = run[d].todo /\ run'[d].at = run[d].at
      /\ run'[d].since = run[d].since /\ run'[d].page = run[d].page
  BY <1>3, <1>5 DEF Run
<1>7. ASSUME NEW z \in Streams, NEW id \in Ids
      PROVE  run'[d].acked[z][id] \in {run[d].acked[z][id], NoRow, rows'[z][id]}
  <2>1. CASE z = s BY <1>3, <2>1 DEF Only
  <2>2. CASE z # s BY <1>3, <2>2
  <2>. QED BY <2>1, <2>2
<1>8. DeviceFits(d) /\ BesideKept(d) OBVIOUS
<1>. QED BY <1>2, <1>4, <1>6, <1>7, <1>8, DeviceStays DEF BesideKept

\* What a step of Sync or the user leaves of another Device.
LEMMA OthersStay ==
  ASSUME SyncTypes, NEW d \in Devices, SyncNext(d), NEW e \in Devices \ {d}
  PROVE  run'[e] = run[e] /\ store'[e] = store[e]
<1>1. store \in [Devices -> Database] /\ run \in [Devices -> Run] BY DEF SyncTypes
<1>2. CASE Create(d) \/ Change(d)
  <2>1. PICK s \in Streams, id \in Ids, row \in Row : UserWrite(d, s, id, row) BY <1>2, UserWrites
  <2>. QED BY <1>1, <2>1 DEF UserWrite
<1>3. CASE StartSync(d) BY <1>1, <1>3 DEF StartSync
<1>4. CASE Statement(d) BY <1>1, <1>4 DEF Statement
<1>5. CASE GiveUp(d) BY <1>1, <1>5 DEF GiveUp
<1>6. CASE Push(d) BY <1>1, <1>6 DEF Push
<1>7. CASE Commit(d) BY <1>1, <1>7 DEF Commit
<1>8. CASE Read(d) BY <1>1, <1>8 DEF Read
<1>9. CASE EndIteration(d) BY <1>1, <1>9 DEF EndIteration
<1>10. CASE Fail(d) BY <1>1, <1>10 DEF Fail
<1>. QED BY <1>2, <1>3, <1>4, <1>5, <1>6, <1>7, <1>8, <1>9, <1>10 DEF SyncNext, RunStep

\* Every step of sync() keeps the types and moves the Server at most forward.
LEMMA SyncStepTyped ==
  ASSUME SyncTypes, NEW d \in Devices, RunFits(d), SyncNext(d)
  PROVE  SyncTypes' /\ ServerMoves
<1>1. CASE Create(d) \/ Change(d)
  <2>1. /\ \E s \in Streams, id \in Ids, row \in Row : row.seq = Pending /\ UserWrite(d, s, id, row)
        /\ minted' \subseteq Streams \X Ids
    BY <1>1, UserWrites
  <2>2. PICK s \in Streams, id \in Ids, row \in Row : UserWrite(d, s, id, row) BY <2>1
  <2>3. store' \in [Devices -> Database] /\ clock' \in [Devices -> Nat] BY <2>2, UserWriteTyped
  <2>4. UNCHANGED <<rows, run, bound>> BY <2>2 DEF UserWrite
  <2>. QED BY <2>1, <2>3, <2>4, ServerStays DEF SyncTypes
<1>2. CASE StartSync(d) BY <1>2, StartSyncTyped, ServerStays
<1>3. CASE Statement(d)
  <2>1. rows' = rows BY <1>3 DEF Statement
  <2>. QED BY <1>3, <2>1, StatementTyped, ServerStays
<1>4. CASE GiveUp(d) \/ EndIteration(d) \/ Fail(d) BY <1>4, RunEndsTyped, ServerStays
<1>5. CASE Push(d) BY <1>5, PushTyped, ServerStays
<1>6. CASE Commit(d) BY <1>6, CommitTyped, CommitMoves
<1>7. CASE Read(d) BY <1>7, ReadTyped, ServerStays
<1>. QED BY <1>1, <1>2, <1>3, <1>4, <1>5, <1>6, <1>7 DEF SyncNext, RunStep

\* Every step of sync() keeps the invariant of its own Device.
LEMMA SyncStepKeeps ==
  ASSUME TypeOK, TypeOK', LogFits, NEW d \in Devices, DeviceFits(d), BesideKept(d), SyncNext(d)
  PROVE  DeviceFits(d)'
<1>0. SyncTypes BY TypesTogether
<1>1. CASE Create(d) \/ Change(d) BY <1>1, UserKeeps
<1>2. CASE StartSync(d) BY <1>2, StartKeeps
<1>3. CASE Statement(d) BY <1>3, StatementKeeps
<1>4. CASE GiveUp(d) \/ EndIteration(d) \/ Fail(d)
  <2>1. /\ UNCHANGED <<rows, store>> /\ run'[d].todo = <<>> /\ run'[d].pc \in {"idle", "loop"}
        /\ run'[d].page = NoTables /\ run'[d].since = [s \in Streams |-> 0]
    BY <1>0, <1>4, RunEndsTyped
  <2>2. store'[d] = store[d] BY <2>1
  <2>. QED BY <2>1, <2>2, EndsKeeps
<1>5. CASE Push(d) BY <1>5, PushKeeps
<1>6. CASE Commit(d) BY <1>6, CommitKeeps
<1>7. CASE Read(d) BY <1>7, ReadKeeps
<1>. QED BY <1>1, <1>2, <1>3, <1>4, <1>5, <1>6, <1>7 DEF SyncNext, RunStep

\* A step of sync() beside a job keeps the invariant of every Device.
LEMMA BesideKeeps ==
  ASSUME IInv, NEW d \in Devices, Beside(d, SyncNext(d))
  PROVE  IInv'
<1>1. SyncNext(d) /\ SyncTypes /\ JobTypes /\ RunFits(d) /\ TypeOK /\ LogFits
  BY TypesTogether DEF Beside, IInv, DeviceFits, RunSide
<1>2. SyncTypes' /\ ServerMoves BY <1>1, SyncStepTyped
<1>3. /\ JobTypes' /\ UNCHANGED <<file, saved, torn>>
      /\ job'[d].kind = job[d].kind /\ job'[d].todo = job[d].todo /\ job'[d].open = job[d].open
      /\ job'[d].copy = job[d].copy
      /\ job'[d].alone => job[d].alone /\ store'[d] = store[d]
      /\ \A e \in Devices \ {d} : job'[e] = job[e]
  BY <1>1, BesideTyped
<1>4. TypeOK' BY <1>2, <1>3, TypesTogetherNext
<1>5. LogFits' BY <1>1, <1>2, <1>3, <1>4, FileInLog, LogFitsStays
<1>6. DeviceFits(d)'
  <2>1. BesideKept(d) BY <1>3 DEF BesideKept
  <2>2. DeviceFits(d) BY DEF IInv
  <2>. QED BY <1>1, <1>4, <2>1, <2>2, SyncStepKeeps
<1>7. ASSUME NEW e \in Devices \ {d} PROVE DeviceFits(e)'
  <2>1. run'[e] = run[e] /\ store'[e] = store[e] BY <1>1, OthersStay
  <2>2. DeviceFits(e) BY DEF IInv
  <2>3. job'[e] = job[e] /\ saved'[e] = saved[e] /\ torn'[e] = torn[e] BY <1>3
  <2>. QED BY <1>1, <1>2, <1>4, <2>1, <2>2, <2>3, DeviceStays
<1>. QED BY <1>4, <1>5, <1>6, <1>7 DEF IInv

-----------------------------------------------------------------------------
(* A job's steps that leave the database as it is.                         *)

LEMMA TrackedSameAgain ==
  ASSUME NEW d \in Devices, NEW s \in Streams, UNCHANGED rows, store'[d] = store[d], run'[d] = run[d], Tracked(d, s)
  PROVE  Tracked(d, s)'
<1>. DEFINE n == Position(store[d], s)
<1>1. TrackedIn(rows[s], store[d].rows[s], n, store[d].cursor[s], run[d], s) BY TrackedSame
<1>2. Tracked(d, s)' <=> TrackedIn(rows[s], store[d].rows[s], n, store[d].cursor[s], run[d], s)
  BY TrackedSameNext
<1>. QED BY <1>1, <1>2

\* A step of a job that leaves databases alone keeps the Device's invariant,
\* when what is still to reset is not lost.
LEMMA JobMoves ==
  ASSUME TypeOK, TypeOK', NEW d \in Devices, DeviceFits(d), UNCHANGED rows,
         store'[d] = store[d], run'[d] = run[d], torn'[d] = torn[d],
         JobSide(d)',
         \A s \in Streams : CursorsInLog(d, s)',
         \A s \in Streams \ torn[d] :
           /\ ResetAhead(job[d].todo, 0, "cursor", s) => ResetAhead(job'[d].todo, 0, "cursor", s)
           /\ Restoring(d, s) => Restoring(d, s)'
           /\ job'[d].open => Covers(saved[d], s)'
  PROVE  DeviceFits(d)'
<1>1. RunSide(d)'
  <2>1. ServerMoves BY ServerStays
  <2>. QED BY <2>1, RunSideStays DEF DeviceFits
<1>2. ASSUME NEW s \in Streams \ torn[d] PROVE StreamFits(d, s)'
  <2>1. StreamFits(d, s) BY DEF DeviceFits
  <2>2. EpochFollowsCursor(d, s)' BY <2>1 DEF StreamFits, EpochFollowsCursor
  <2>3. ASSUME ~Restoring(d, s)', s \notin Behind(store'[d]) PROVE Tracked(d, s)'
    <3>1. Tracked(d, s) BY <2>1, <2>3 DEF StreamFits
    <3>. QED BY <3>1, TrackedSameAgain
  <2>. QED BY <2>2, <2>3 DEF StreamFits
<1>. QED BY <1>1, <1>2 DEF DeviceFits

\* A job that is over, or that only reads, has nothing to reset.
LEMMA NothingToReset ==
  ASSUME TypeOK, NEW d \in Devices, JobFits(d), job[d].kind \in {"none", "backup"} \/ ~job[d].open
  PROVE  /\ job[d].kind \in {"none", "backup"} => ~job[d].open
         /\ \A k \in DOMAIN job[d].todo : job[d].todo[k].op = "read"
         /\ \A s \in Streams : ~Restoring(d, s) /\ ~ResetAhead(job[d].todo, 0, "cursor", s)
<1>1. job[d].open \in BOOLEAN BY DeviceFields, JobFields
<1>2. ASSUME NEW k \in DOMAIN job[d].todo PROVE job[d].todo[k].op = "read"
  BY <1>1 DEF JobFits
<1>. QED BY <1>1, <1>2 DEF JobFits, Restoring, ResetAhead, Sets

\* A new database's Cursors are 0.
LEMMA NewIsInLog == \A s \in Streams : NewDatabase.cursor[s] = 0
  BY DEF NewDatabase

\* A job that is a Backup, or none.
LEMMA BackupSide ==
  ASSUME NEW d \in Devices, job'[d].kind \in {"none", "backup"}, ~job'[d].open,
         job'[d].kind = "none" => job'[d].todo = <<>>,
         \A k \in DOMAIN job'[d].todo : job'[d].todo[k].op = "read"
  PROVE  JobSide(d)'
<1>1. JobFits(d)' BY DEF JobFits
<1>2. ResetsComeLast(d)' BY DEF ResetsComeLast
<1>3. \A s \in Streams : RestoreFollowsFile(d, s)' BY DEF RestoreFollowsFile
<1>4. \A s \in Streams, id \in Ids : MergeFollowsRules(d, s, id)' BY DEF MergeFollowsRules
<1>. QED BY <1>1, <1>2, <1>3, <1>4 DEF JobSide

\* The reads left of a list of reads.
LEMMA ReadsSetNothing ==
  ASSUME NEW W, NEW todo \in Seq(W), todo # <<>>, \A k \in DOMAIN todo : todo[k].op = "read"
  PROVE  \A k \in DOMAIN Tail(todo) : Tail(todo)[k].op = "read"
  BY TailAt

\* StartBackup keeps the Device's invariant.
LEMMA StartBackupKeeps ==
  ASSUME TypeOK, TypeOK', NEW d \in Devices, DeviceFits(d), StartBackup(d)
  PROVE  DeviceFits(d)'
<1>1. /\ UNCHANGED <<rows, store, run, file, saved, torn>> /\ job[d].kind = "none"
      /\ job'[d].kind = "backup" /\ job'[d].todo = ReadAll /\ job'[d].open = FALSE
      /\ job'[d].copy = NewDatabase
  BY StartBackupTyped
<1>2. \A k \in DOMAIN job'[d].todo : job'[d].todo[k].op = "read" BY <1>1, ReadAllReads
<1>3. JobSide(d)' BY <1>1, <1>2, BackupSide
<1>4. JobFits(d) BY DEF DeviceFits, JobSide
<1>5. \A s \in Streams : ~Restoring(d, s) /\ ~ResetAhead(job[d].todo, 0, "cursor", s)
  BY <1>1, <1>4, NothingToReset
<1>6. ASSUME NEW s \in Streams PROVE CursorsInLog(d, s)'
  <2>1. CursorsInLog(d, s) BY DEF DeviceFits
  <2>. QED BY <1>1, <1>2, <2>1, NewIsInLog DEF CursorsInLog, InLog, Sets
<1>7. store'[d] = store[d] /\ run'[d] = run[d] /\ torn'[d] = torn[d] BY <1>1
<1>. QED BY <1>1, <1>3, <1>5, <1>6, <1>7, JobMoves

\* Dump keeps the Device's invariant.
LEMMA DumpKeeps ==
  ASSUME TypeOK, TypeOK', NEW d \in Devices, DeviceFits(d), Dump(d)
  PROVE  DeviceFits(d)'
<1>1. /\ UNCHANGED <<rows, store, run, file, saved, torn>>
      /\ job[d].kind = "backup" /\ job[d].todo # <<>> /\ job[d].todo \in Seq(Statements \cup Reads)
      /\ job'[d].kind = "backup" /\ job'[d].todo = Tail(job[d].todo) /\ job'[d].open = job[d].open
      /\ job'[d].copy.cursor \in {job[d].copy.cursor, store[d].cursor}
  BY DumpTyped
<1>2. JobFits(d) BY DEF DeviceFits, JobSide
<1>3. /\ \A s \in Streams : ~Restoring(d, s) /\ ~ResetAhead(job[d].todo, 0, "cursor", s)
      /\ \A k \in DOMAIN job[d].todo : job[d].todo[k].op = "read"
      /\ ~job[d].open
  BY <1>1, <1>2, NothingToReset
<1>4. \A k \in DOMAIN job'[d].todo : job'[d].todo[k].op = "read" BY <1>1, <1>3, ReadsSetNothing
<1>5. JobSide(d)' BY <1>1, <1>3, <1>4, BackupSide
<1>6. ASSUME NEW s \in Streams PROVE CursorsInLog(d, s)'
  <2>1. CursorsInLog(d, s) BY DEF DeviceFits
  <2>2. job'[d].copy.cursor[s] \in {job[d].copy.cursor[s], store[d].cursor[s]} BY <1>1
  <2>. QED BY <1>1, <1>4, <2>1, <2>2 DEF CursorsInLog, InLog, Sets
<1>7. store'[d] = store[d] /\ run'[d] = run[d] /\ torn'[d] = torn[d] BY <1>1
<1>. QED BY <1>1, <1>3, <1>5, <1>6, <1>7, JobMoves

\* What a job that is none holds.
LEMMA NoneFields == None.kind = "none" /\ None.todo = <<>> /\ None.open = FALSE /\ None.copy = NewDatabase
  BY DEF None

\* FinishBackup keeps the Device's invariant, and leaves a file whose Cursors
\* are within the log.
LEMMA FinishBackupKeeps ==
  ASSUME TypeOK, TypeOK', NEW d \in Devices, DeviceFits(d), FinishBackup(d)
  PROVE  DeviceFits(d)' /\ \A s \in Streams : InLog(s, file'.cursor[s])
<1>1. /\ UNCHANGED <<rows, store, run, saved, torn>>
      /\ job[d].kind = "backup" /\ job[d].todo = <<>> /\ file' = job[d].copy /\ job'[d] = None
  BY FinishBackupTyped
<1>2. JobFits(d) BY DEF DeviceFits, JobSide
<1>3. \A s \in Streams : ~Restoring(d, s) /\ ~ResetAhead(job[d].todo, 0, "cursor", s)
  BY <1>1, <1>2, NothingToReset
<1>4. JobSide(d)' BY <1>1, NoneFields, BackupSide
<1>5. ASSUME NEW s \in Streams PROVE CursorsInLog(d, s)' /\ InLog(s, file'.cursor[s])
  <2>1. CursorsInLog(d, s) BY DEF DeviceFits
  <2>. QED BY <1>1, <2>1, NoneFields, NewIsInLog DEF CursorsInLog, InLog
<1>6. store'[d] = store[d] /\ run'[d] = run[d] /\ torn'[d] = torn[d] /\ ~job'[d].open BY <1>1, NoneFields
<1>7. DeviceFits(d)' BY <1>1, <1>3, <1>4, <1>5, <1>6, JobMoves
<1>. QED BY <1>5, <1>7

\* CommitJob keeps the Device's invariant.
LEMMA CommitJobKeeps ==
  ASSUME TypeOK, TypeOK', NEW d \in Devices, DeviceFits(d), CommitJob(d)
  PROVE  DeviceFits(d)'
<1>1. /\ UNCHANGED <<rows, store, run, file, saved, torn>>
      /\ job[d].open /\ job[d].todo = <<>>
      /\ job'[d].todo = job[d].todo /\ job'[d].kind = job[d].kind /\ job'[d].open = FALSE
      /\ job'[d].copy = job[d].copy /\ job'[d].alone = job[d].alone
  BY CommitJobTyped
<1>2. JobSide(d)'
  <2>1. JobSide(d) BY DEF DeviceFits
  <2>2. JobFits(d)' BY <1>1, <2>1 DEF JobSide, JobFits
  <2>3. ResetsComeLast(d)' BY <1>1, <2>1 DEF JobSide, ResetsComeLast
  <2>4. ASSUME NEW s \in Streams PROVE RestoreFollowsFile(d, s)'
    <3>1. RestoreFollowsFile(d, s) BY <2>1 DEF JobSide
    <3>. QED BY <1>1, <3>1 DEF RestoreFollowsFile
  <2>5. ASSUME NEW s \in Streams, NEW id \in Ids PROVE MergeFollowsRules(d, s, id)'
    <3>1. MergeFollowsRules(d, s, id) BY <2>1 DEF JobSide
    <3>. QED BY <1>1, <3>1 DEF MergeFollowsRules
  <2>. QED BY <2>2, <2>3, <2>4, <2>5 DEF JobSide
<1>3. ASSUME NEW s \in Streams PROVE CursorsInLog(d, s)' /\ ~Restoring(d, s)
  <2>1. CursorsInLog(d, s) BY DEF DeviceFits
  <2>. QED BY <1>1, <2>1 DEF CursorsInLog, InLog, Restoring
<1>4. store'[d] = store[d] /\ run'[d] = run[d] /\ torn'[d] = torn[d] BY <1>1
<1>. QED BY <1>1, <1>2, <1>3, <1>4, JobMoves

-----------------------------------------------------------------------------
(* The end of a job, by a reload, a failure or a crash.                    *)

\* What a closed app leaves behind covers what a run starts from.
LEMMA DurableCovers ==
  ASSUME TypeOK, LogFits, NEW d \in Devices, DeviceFits(d), NEW s \in Streams \ torn[d],
         s \notin Behind(Durable(d))
  PROVE  /\ Covers(Durable(d), s)
         /\ ~job[d].open => Tracked(d, s)
<1>1. StreamFits(d, s) /\ JobFits(d) BY DEF DeviceFits, JobSide
<1>2. CASE job[d].open BY <1>1, <1>2 DEF StreamFits, Durable
<1>3. CASE ~job[d].open
  <2>1. ~Restoring(d, s) BY <1>3 DEF Restoring
  <2>2. Tracked(d, s) BY <1>1, <1>3, <2>1 DEF StreamFits, Durable
  <2>. QED BY <1>3, <2>2 DEF Tracked, Durable
<1>. QED BY <1>2, <1>3

\* What a run that is none holds.
LEMMA IdleRun == Idle.pc = "idle" /\ Idle.todo = <<>> /\ Idle.page = NoTables /\ Idle.since = [s \in Streams |-> 0]
  BY DEF Idle

\* The database a crash leaves covers what the durable one covered.
LEMMA CoversDurableNext ==
  ASSUME NEW d \in Devices, NEW s \in Streams, UNCHANGED rows, store'[d] = Durable(d), Covers(Durable(d), s)
  PROVE  Covers(store[d], s)'
<1>. DEFINE t == rows[s]
            l == Durable(d).rows[s]
            n == Position(Durable(d), s)
<1>1. CoversIn(t, l, n) BY DEF Covers, CoversIn, Has, HasIn, PendingRows
<1>2. Position(store'[d], s) = n OBVIOUS
<1>3. \A id : Has(store[d], s, id)' <=> HasIn(t, l, id) BY DEF Has, HasIn, PendingRows
<1>4. Position(store[d], s)' = n BY DEF Position, Behind
<1>5. rows'[s] = t OBVIOUS
<1>. HIDE DEF t, l, n
<1>. QED BY <1>1, <1>3, <1>4, <1>5 DEF Covers, CoversIn

\* A reload, a failed job and a crash keep the Device's invariant: the
\* rollback of a Restore under way is the database BEGIN kept.
LEMMA JobEndsKeeps ==
  ASSUME TypeOK, TypeOK', LogFits, NEW d \in Devices, DeviceFits(d), Reload(d) \/ FailJob(d) \/ Crash(d)
  PROVE  DeviceFits(d)'
<1>1. /\ UNCHANGED <<rows, file, saved>> /\ job'[d] = None /\ run'[d] \in {Idle, run[d]}
      /\ Reload(d) => /\ job[d].kind \in {"restore", "merge"} /\ ~job[d].open /\ run'[d] = Idle
                      /\ torn' = torn /\ store' = store
      /\ FailJob(d) => /\ job[d].kind \in {"restore", "merge"} /\ run' = run
                       /\ torn'[d] = IF job[d].open /\ run[d].pc # "idle" THEN Streams ELSE torn[d]
                       /\ store'[d] = Durable(d)
      /\ Crash(d) => run'[d] = Idle /\ torn' = torn /\ store'[d] = Durable(d)
  BY JobEndsTyped
<1>2. store'[d] = Durable(d) BY <1>1 DEF Durable
<1>3. JobFits(d) /\ RunSide(d) /\ RunFits(d) BY DEF DeviceFits, JobSide, RunSide
<1>4. JobSide(d)' BY <1>1, NoneFields, BackupSide
<1>5. RunSide(d)'
  <2>1. CASE run'[d] = run[d]
    <3>1. ServerMoves BY <1>1, ServerStays
    <3>. QED BY <1>3, <2>1, <3>1, RunSideStays
  <2>2. CASE run'[d] = Idle
    <3>1. RunFits(d)' BY <2>2, IdleRun DEF RunFits
    <3>2. ASSUME NEW s \in Streams PROVE AnswerInLog(d, s)'
      <4>1. Held(run'[d].page[s]) = {} /\ run'[d].since[s] = 0 /\ run'[d].todo = <<>>
        BY <2>2, IdleRun, NothingInLog
      <4>. QED BY <4>1 DEF AnswerInLog, InLog
    <3>. QED BY <3>1, <3>2 DEF RunSide
  <2>. QED BY <1>1, <2>1, <2>2
<1>6. ASSUME NEW s \in Streams PROVE CursorsInLog(d, s)'
  <2>1. CursorsInLog(d, s) BY DEF DeviceFits
  <2>2. InLog(s, store'[d].cursor[s]) BY <1>2, <2>1 DEF CursorsInLog, Durable
  <2>. QED BY <1>1, <2>1, <2>2, NoneFields, NewIsInLog DEF CursorsInLog, InLog
<1>7. ASSUME NEW s \in Streams \ torn'[d] PROVE StreamFits(d, s)'
  <2>1. \/ run'[d] = Idle /\ torn'[d] = torn[d]
        \/ /\ run'[d] = run[d] /\ torn'[d] = torn[d] /\ run[d].pc = "idle"
        \/ /\ run'[d] = run[d] /\ torn'[d] = torn[d] /\ ~job[d].open /\ job[d].kind \in {"restore", "merge"}
    BY <1>1
  <2>2. s \in Streams \ torn[d] BY <2>1
  <2>3. StreamFits(d, s) BY <2>2 DEF DeviceFits
  <2>4. ~job'[d].open BY <1>1, NoneFields
  <2>5. CASE run'[d].pc = "idle"
    <3>1. run'[d].todo = <<>> BY <1>5, <2>5 DEF RunSide, RunFits
    <3>2. EpochFollowsCursor(d, s)' BY <3>1 DEF EpochFollowsCursor
    <3>3. ASSUME s \notin Behind(store'[d]) PROVE Tracked(d, s)'
      <4>1. Covers(Durable(d), s) BY <1>2, <2>2, <3>3, DurableCovers
      <4>2. Covers(store[d], s)' BY <1>1, <1>2, <4>1, CoversDurableNext
      <4>. QED BY <2>5, <4>2, IdleTrackedNext DEF IdleEverywhere
    <3>. QED BY <2>4, <3>2, <3>3 DEF StreamFits
  <2>6. CASE run'[d].pc # "idle"
    <3>1. /\ run'[d] = run[d] /\ ~job[d].open /\ store'[d] = store[d]
      BY <1>2, <2>1, <2>6, IdleRun DEF Durable
    <3>2. ~ResetAhead(job[d].todo, 0, "cursor", s) BY <1>3, <3>1, NothingToReset
    <3>3. EpochFollowsCursor(d, s)' BY <2>3, <3>1, <3>2 DEF StreamFits, EpochFollowsCursor
    <3>4. ASSUME s \notin Behind(store'[d]) PROVE Tracked(d, s)'
      <4>1. Tracked(d, s) BY <1>2, <2>2, <3>1, <3>4, DurableCovers
      <4>. QED BY <1>1, <3>1, <4>1, TrackedSameAgain
    <3>. QED BY <2>4, <3>3, <3>4 DEF StreamFits
  <2>. QED BY <2>5, <2>6
<1>. QED BY <1>4, <1>5, <1>6, <1>7 DEF DeviceFits

-----------------------------------------------------------------------------
(* Resets, in a list that is shortened or put before another.              *)

LEMMA ResetInTail ==
  ASSUME NEW W, NEW todo \in Seq(W), todo # <<>>, NEW k \in Nat, NEW op, NEW s
  PROVE  /\ ResetAhead(todo, k + 1, op, s) => ResetAhead(Tail(todo), k, op, s)
         /\ ResetAhead(todo, 0, op, s) => ResetAhead(Tail(todo), 0, op, s) \/ (Sets(Head(todo), op, s) /\ Head(todo).value = 0)
<1>1. /\ 1 \in DOMAIN todo /\ Head(todo) = todo[1]
      /\ \A l \in DOMAIN todo : l \in Nat \ {0} /\ (l > 1 => l - 1 \in DOMAIN Tail(todo) /\ Tail(todo)[l - 1] = todo[l])
  BY TailAt
<1>2. ASSUME NEW l \in DOMAIN todo, NEW j \in Nat, l > j + 1, Sets(todo[l], op, s) /\ todo[l].value = 0
      PROVE  ResetAhead(Tail(todo), j, op, s)
  <2>. DEFINE i == l - 1
  <2>1. i \in DOMAIN Tail(todo) /\ Tail(todo)[i] = todo[l] /\ i > j BY <1>1, <1>2
  <2>. HIDE DEF i
  <2>. QED BY <1>2, <2>1 DEF ResetAhead
<1>3. ASSUME ResetAhead(todo, k + 1, op, s) PROVE ResetAhead(Tail(todo), k, op, s)
  BY <1>2, <1>3 DEF ResetAhead
<1>4. ASSUME ResetAhead(todo, 0, op, s)
      PROVE  ResetAhead(Tail(todo), 0, op, s) \/ (Sets(Head(todo), op, s) /\ Head(todo).value = 0)
  <2>1. PICK l \in DOMAIN todo : l > 0 /\ Sets(todo[l], op, s) /\ todo[l].value = 0 BY <1>4 DEF ResetAhead
  <2>2. CASE l = 1 BY <1>1, <2>1, <2>2
  <2>3. CASE l # 1
    <3>1. 0 \in Nat /\ l > 0 + 1 BY <1>1, <2>3
    <3>. QED BY <1>2, <2>1, <3>1
  <2>. QED BY <2>2, <2>3
<1>. QED BY <1>3, <1>4

\* The resets still follow once the first statement is gone.
LEMMA FollowsInTail ==
  ASSUME NEW W, NEW todo \in Seq(W), todo # <<>>, NEW s, \A k \in DOMAIN todo : ResetsFollow(todo, k, s)
  PROVE  \A k \in DOMAIN Tail(todo) : ResetsFollow(Tail(todo), k, s)
<1>1. \A k \in DOMAIN Tail(todo) : k \in Nat /\ k + 1 \in DOMAIN todo /\ Tail(todo)[k] = todo[k + 1]
  BY TailAt
<1>. SUFFICES ASSUME NEW k \in DOMAIN Tail(todo) PROVE ResetsFollow(Tail(todo), k, s)
  OBVIOUS
<1>2. ResetsFollow(todo, k + 1, s) /\ Tail(todo)[k] = todo[k + 1] /\ k \in Nat BY <1>1
<1>3. \A op : ResetAhead(todo, k + 1, op, s) => ResetAhead(Tail(todo), k, op, s)
  BY <1>2, ResetInTail
<1>. QED BY <1>2, <1>3 DEF ResetsFollow

\* A reset ahead stays ahead when statements are put before it.
LEMMA ResetInJoined ==
  ASSUME NEW c, NEW p, NEW t, Joined(c, p, t), NEW k \in Nat, NEW op, NEW s, ResetAhead(t, k, op, s)
  PROVE  \A j \in Nat : j <= Len(p) + k => ResetAhead(c, j, op, s)
<1>1. PICK l \in DOMAIN t : l > k /\ Sets(t[l], op, s) /\ t[l].value = 0 BY DEF ResetAhead
<1>. DEFINE m == Len(p) + l
<1>2. m \in DOMAIN c /\ c[m] = t[l] BY DEF Joined
<1>3. l \in Nat /\ Len(p) \in Nat /\ \A j \in Nat : j <= Len(p) + k => m > j BY <1>1 DEF Joined
<1>. HIDE DEF m
<1>. QED BY <1>1, <1>2, <1>3 DEF ResetAhead

\* A list that the resets follow, behind statements and reads that the same
\* resets follow.
LEMMA FollowsInJoined ==
  ASSUME NEW W, NEW c \in Seq(W), NEW p, NEW t, Joined(c, p, t), NEW s,
         \A k \in DOMAIN t : ResetsFollow(t, k, s),
         p # <<>> => ResetAhead(t, 0, "cursor", s) /\ ResetAhead(t, 0, "epoch", s)
  PROVE  \A k \in DOMAIN c : ResetsFollow(c, k, s)
<1>. SUFFICES ASSUME NEW k \in DOMAIN c PROVE ResetsFollow(c, k, s)
  OBVIOUS
<1>1. /\ Len(p) \in Nat /\ DOMAIN p = 1 .. Len(p) /\ Len(t) \in Nat /\ DOMAIN t = 1 .. Len(t)
      /\ k \in DOMAIN p \/ (k > Len(p) /\ k - Len(p) \in DOMAIN t)
      /\ k \in Nat
  BY LenProperties DEF Joined
<1>2. CASE k \in DOMAIN p
  <2>1. p # <<>> /\ k \in Nat /\ k <= Len(p) + 0 /\ 0 \in Nat BY <1>1, <1>2
  <2>2. ResetAhead(c, k, "cursor", s) /\ ResetAhead(c, k, "epoch", s) BY <2>1, ResetInJoined
  <2>. QED BY <2>2 DEF ResetsFollow
<1>3. CASE k > Len(p) /\ k - Len(p) \in DOMAIN t
  <2>. DEFINE i == k - Len(p)
  <2>1. i \in DOMAIN t /\ i \in Nat /\ Len(p) + i = k /\ k \in Nat BY <1>1, <1>3
  <2>. HIDE DEF i
  <2>2. c[k] = t[i] BY <2>1 DEF Joined
  <2>3. \A op : ResetAhead(t, i, op, s) => ResetAhead(c, k, op, s) BY <2>1, ResetInJoined
  <2>4. ResetsFollow(t, i, s) BY <2>1
  <2>. QED BY <2>2, <2>3, <2>4 DEF ResetsFollow
<1>. QED BY <1>1, <1>2, <1>3

\* What resetCursorsAndEpochs does, in those terms.
LEMMA ResetAllFollows ==
  ASSUME NEW s \in Streams
  PROVE  /\ ResetAhead(ResetAll, 0, "cursor", s) /\ ResetAhead(ResetAll, 0, "epoch", s)
         /\ \A k \in DOMAIN ResetAll : ResetsFollow(ResetAll, k, s)
<1>. DEFINE list == ResetAll
<1>1. /\ list \in Seq(Statements)
      /\ \A m \in DOMAIN list :
           /\ list[m].op \in {"cursor", "epoch"} /\ list[m].value = 0
           /\ list[m].op = "cursor" =>
                m + 1 \in DOMAIN list /\ Sets(list[m + 1], "epoch", list[m].stream)
      /\ \E m \in DOMAIN list : Sets(list[m], "cursor", s)
  BY ResetAllResets
<1>. HIDE DEF list
<1>2. \A m \in DOMAIN list : m \in Nat \ {0} BY <1>1, LenProperties
<1>3. PICK m \in DOMAIN list : Sets(list[m], "cursor", s) BY <1>1
<1>4. ASSUME NEW k \in DOMAIN list, Sets(list[k], "cursor", s), NEW j \in Nat, j <= k
      PROVE  ResetAhead(list, j, "epoch", s)
  <2>. DEFINE n == k + 1
  <2>1. n \in DOMAIN list /\ Sets(list[n], "epoch", s) /\ list[n].value = 0 /\ n > j
    BY <1>1, <1>2, <1>4 DEF Sets
  <2>. HIDE DEF n
  <2>. QED BY <2>1 DEF ResetAhead
<1>5. ResetAhead(list, 0, "cursor", s) BY <1>1, <1>2, <1>3 DEF ResetAhead
<1>6. ResetAhead(list, 0, "epoch", s) BY <1>2, <1>3, <1>4
<1>7. ASSUME NEW k \in DOMAIN list PROVE ResetsFollow(list, k, s)
  <2>1. k \in Nat /\ k <= k BY <1>2
  <2>2. Sets(list[k], "cursor", s) => ResetAhead(list, k, "epoch", s) BY <1>4, <2>1
  <2>. QED BY <1>1, <2>2 DEF ResetsFollow, Sets
<1>. QED BY <1>5, <1>6, <1>7 DEF list

-----------------------------------------------------------------------------
(* BEGIN.                                                                  *)

\* The statements a Restore or Merge begins with.
Begun(kind) == ReadAll \o IF kind = "restore" THEN ResetAll ELSE <<>>

\* What a new Restore or Merge has to do: reads, and for a Restore the resets.
LEMMA NewTodo ==
  ASSUME NEW kind \in {"restore", "merge"}, NEW todo,
         todo = Begun(kind)
  PROVE  /\ \A k \in DOMAIN todo :
              \/ todo[k].op = "read"
              \/ kind = "restore" /\ todo[k].op \in {"cursor", "epoch"} /\ todo[k].value = 0
         /\ \A s \in Streams :
              /\ \E k \in DOMAIN todo : todo[k] = ReadTable(s)
              /\ kind = "restore" => /\ ResetAhead(todo, 0, "cursor", s)
                                     /\ \A k \in DOMAIN todo : ResetsFollow(todo, k, s)
<1>. DEFINE W == Statements \cup Reads
            last == IF kind = "restore" THEN ResetAll ELSE <<>>
            p == ReadAll
<1>1. /\ p \in Seq(Reads) /\ \A k \in DOMAIN p : p[k].op = "read"
      /\ \A s \in Streams : \E k \in DOMAIN p : p[k] = ReadTable(s)
  BY ReadAllReads
<1>2. /\ last \in Seq(Statements)
      /\ \A k \in DOMAIN last : kind = "restore" /\ last[k].op \in {"cursor", "epoch"} /\ last[k].value = 0
  BY ResetAllResets, EmptySeq
<1>3. kind = "restore" => \A s \in Streams : /\ ResetAhead(last, 0, "cursor", s)
                                             /\ ResetAhead(last, 0, "epoch", s)
                                             /\ \A k \in DOMAIN last : ResetsFollow(last, k, s)
  BY ResetAllFollows
<1>4. todo = p \o last BY DEF Begun
<1>. HIDE DEF p, last
<1>5. p \in Seq(W) /\ last \in Seq(W) BY <1>1, <1>2
<1>6. todo \in Seq(W) /\ Joined(todo, p, last) BY <1>4, <1>5, ConcatAt
<1>. HIDE DEF W
<1>7. ASSUME NEW k \in DOMAIN todo
      PROVE  \/ todo[k].op = "read"
             \/ kind = "restore" /\ todo[k].op \in {"cursor", "epoch"} /\ todo[k].value = 0
  <2>1. CASE k \in DOMAIN p BY <1>1, <1>6, <2>1 DEF Joined
  <2>2. CASE k \notin DOMAIN p
    <3>. DEFINE i == k - Len(p)
    <3>1. i \in DOMAIN last /\ k \in Nat /\ Len(p) \in Nat BY <1>6, <2>2, LenProperties DEF Joined
    <3>2. Len(p) + i = k BY <3>1
    <3>. HIDE DEF i
    <3>3. todo[k] = last[i] BY <1>6, <3>1, <3>2 DEF Joined
    <3>. QED BY <1>2, <3>1, <3>3
  <2>. QED BY <2>1, <2>2
<1>8. ASSUME NEW s \in Streams PROVE \E k \in DOMAIN todo : todo[k] = ReadTable(s)
  <2>1. PICK k \in DOMAIN p : p[k] = ReadTable(s) BY <1>1
  <2>2. k \in DOMAIN todo /\ todo[k] = p[k] BY <1>6 DEF Joined
  <2>. QED BY <2>1, <2>2
<1>9. ASSUME kind = "restore", NEW s \in Streams
      PROVE  ResetAhead(todo, 0, "cursor", s) /\ \A k \in DOMAIN todo : ResetsFollow(todo, k, s)
  <2>1. 0 \in Nat /\ Len(p) \in Nat /\ 0 <= Len(p) + 0 BY <1>6 DEF Joined
  <2>2. ResetAhead(todo, 0, "cursor", s) BY <1>3, <1>6, <1>9, <2>1, ResetInJoined
  <2>3. \A k \in DOMAIN todo : ResetsFollow(todo, k, s) BY <1>3, <1>6, <1>9, FollowsInJoined
  <2>. QED BY <2>2, <2>3
<1>. QED BY <1>7, <1>8, <1>9

\* A Restore begins with every reset last; a Merge with every table yet to be
\* read.
LEMMA BeginSide ==
  ASSUME TypeOK, NEW d \in Devices, NEW kind \in {"restore", "merge"}, Begin(d, kind)
  PROVE  JobSide(d)'
<1>1. /\ UNCHANGED store
      /\ job'[d].kind = kind /\ job'[d].open = TRUE /\ job'[d].copy = file
      /\ job'[d].todo = (ReadAll \o IF kind = "restore" THEN ResetAll ELSE <<>>)
      /\ saved'[d] = store[d]
  BY BeginTyped
<1>. DEFINE todo == job'[d].todo
<1>2. /\ \A k \in DOMAIN todo :
           \/ todo[k].op = "read"
           \/ kind = "restore" /\ todo[k].op \in {"cursor", "epoch"} /\ todo[k].value = 0
      /\ \A s \in Streams :
           /\ \E k \in DOMAIN todo : todo[k] = ReadTable(s)
           /\ kind = "restore" => /\ ResetAhead(todo, 0, "cursor", s)
                                  /\ \A k \in DOMAIN todo : ResetsFollow(todo, k, s)
  <2>1. todo = (ReadAll \o IF kind = "restore" THEN ResetAll ELSE <<>>) BY <1>1
  <2>2. PICK list : list = todo OBVIOUS
  <2>. HIDE DEF todo
  <2>3. list = Begun(kind) BY <2>1, <2>2 DEF Begun
  <2>4. /\ \A k \in DOMAIN list :
             \/ list[k].op = "read"
             \/ kind = "restore" /\ list[k].op \in {"cursor", "epoch"} /\ list[k].value = 0
        /\ \A s \in Streams :
             /\ \E k \in DOMAIN list : list[k] = ReadTable(s)
             /\ kind = "restore" => /\ ResetAhead(list, 0, "cursor", s)
                                    /\ \A k \in DOMAIN list : ResetsFollow(list, k, s)
    BY <2>3, NewTodo
  <2>. QED BY <2>2, <2>4
<1>3. JobFits(d)' BY <1>1, <1>2 DEF JobFits
<1>4. ResetsComeLast(d)' BY <1>1, <1>2 DEF ResetsComeLast
<1>5. ASSUME NEW s \in Streams PROVE RestoreFollowsFile(d, s)'
  <2>. SUFFICES ASSUME kind = "restore"
                PROVE  /\ ResetAhead(todo, 0, "cursor", s)
                       /\ \A k \in DOMAIN todo : ~Sets(todo[k], "write", s) /\ ~Sets(todo[k], "delete", s)
                       /\ \E k \in DOMAIN todo : todo[k] = ReadTable(s)
    BY <1>1 DEF RestoreFollowsFile
  <2>. QED BY <1>2 DEF Sets
<1>6. ASSUME NEW s \in Streams, NEW id \in Ids PROVE MergeFollowsRules(d, s, id)'
  <2>1. \A k \in DOMAIN todo : ~Sets(todo[k], "write", s) BY <1>2 DEF Sets
  <2>2. \E k \in DOMAIN todo : todo[k] = ReadTable(s) BY <1>2
  <2>3. saved'[d] = store'[d] BY <1>1
  <2>. QED BY <2>1, <2>2, <2>3 DEF MergeFollowsRules
<1>. QED BY <1>3, <1>4, <1>5, <1>6 DEF JobSide

\* A database whose streams are tracked when they are not behind covers all
\* of them.
LEMMA StoreCovers ==
  ASSUME TypeOK, LogFits, NEW d \in Devices, NEW s \in Streams,
         s \notin Behind(store[d]) => Tracked(d, s)
  PROVE  Covers(store[d], s)
<1>1. CASE s \in Behind(store[d])
  <2>1. Position(store[d], s) = 0 BY <1>1 DEF Position
  <2>2. CoversIn(rows[s], store[d].rows[s], 0) BY NothingToCover
  <2>. QED BY <2>1, <2>2, CoversOfStore
<1>2. CASE s \notin Behind(store[d]) BY <1>2 DEF Tracked
<1>. QED BY <1>1, <1>2

\* What BEGIN keeps covers what the database covered.
LEMMA CoversSavedNext ==
  ASSUME NEW d \in Devices, NEW s \in Streams, UNCHANGED rows, saved'[d] = store[d], Covers(store[d], s)
  PROVE  Covers(saved[d], s)'
<1>. DEFINE t == rows[s]
            l == store[d].rows[s]
            n == Position(store[d], s)
<1>1. CoversIn(t, l, n) BY CoversOfStore
<1>2. \A id : Has(saved[d], s, id)' <=> HasIn(t, l, id) BY DEF Has, HasIn, PendingRows
<1>3. Position(saved[d], s)' = n BY DEF Position, Behind
<1>4. rows'[s] = t OBVIOUS
<1>. HIDE DEF t, l, n
<1>. QED BY <1>1, <1>2, <1>3, <1>4 DEF Covers, CoversIn

\* Begin keeps the Device's invariant.
LEMMA BeginKeeps ==
  ASSUME TypeOK, TypeOK', LogFits, NEW d \in Devices, DeviceFits(d), NEW kind \in {"restore", "merge"}, Begin(d, kind)
  PROVE  DeviceFits(d)'
<1>1. /\ UNCHANGED <<rows, store, run, file, torn>> /\ job[d].kind = "none"
      /\ file # NoFile /\ file \in Database
      /\ job'[d].kind = kind /\ job'[d].open = TRUE /\ job'[d].copy = file
      /\ job'[d].todo = (ReadAll \o IF kind = "restore" THEN ResetAll ELSE <<>>)
      /\ saved'[d] = store[d]
  BY BeginTyped
<1>2. JobSide(d)' BY BeginSide
<1>3. JobFits(d) BY DEF DeviceFits, JobSide
<1>4. \A s \in Streams : ~Restoring(d, s) /\ ~ResetAhead(job[d].todo, 0, "cursor", s)
  BY <1>1, <1>3, NothingToReset
<1>5. ASSUME NEW s \in Streams PROVE CursorsInLog(d, s)'
  <2>1. CursorsInLog(d, s) /\ InLog(s, file.cursor[s]) BY <1>1 DEF DeviceFits, LogFits
  <2>2. \A k \in DOMAIN job'[d].todo : Sets(job'[d].todo[k], "cursor", s) => job'[d].todo[k].value = 0
    <3>. DEFINE todo == job'[d].todo
    <3>1. todo = Begun(kind) BY <1>1 DEF Begun
    <3>. HIDE DEF todo
    <3>2. \A k \in DOMAIN todo :
            \/ todo[k].op = "read"
            \/ kind = "restore" /\ todo[k].op \in {"cursor", "epoch"} /\ todo[k].value = 0
      BY <3>1, NewTodo
    <3>3. \A k \in DOMAIN todo : Sets(todo[k], "cursor", s) => todo[k].value = 0 BY <3>2 DEF Sets
    <3>. QED BY <3>3 DEF todo
  <2>. QED BY <1>1, <2>1, <2>2 DEF CursorsInLog, InLog
<1>6. ASSUME NEW s \in Streams \ torn[d] PROVE Covers(saved[d], s)'
  <2>1. StreamFits(d, s) BY DEF DeviceFits
  <2>2. s \notin Behind(store[d]) => Tracked(d, s) BY <1>4, <2>1 DEF StreamFits
  <2>3. Covers(store[d], s) BY <2>2, StoreCovers
  <2>. QED BY <1>1, <2>3, CoversSavedNext
<1>7. store'[d] = store[d] /\ run'[d] = run[d] /\ torn'[d] = torn[d] BY <1>1
<1>. QED BY <1>1, <1>2, <1>4, <1>5, <1>6, <1>7, JobMoves

-----------------------------------------------------------------------------
(* What a Restore or a Merge nobody writes into has still to do, of lists  *)
(* and tables: c the Cursor, l the table, b the file's.                    *)

DoneOrDue(todo, l, b, s, id) ==
  \/ b[id] = NoRow /\ l[id] = NoRow
  \/ b[id] # NoRow /\ SameRow(l[id], b[id])
  \/ \E k \in DOMAIN todo :
       /\ Sets(todo[k], "write", s) \/ Sets(todo[k], "delete", s)
       /\ id \in Held(todo[k].table)

\* A statement of a Restore writes the file's rows and deletes those the file
\* lacks.
FromFile(w, b, s) ==
  /\ Sets(w, "write", s) => \A id \in Held(w.table) : w.table[id] = b[id]
  /\ Sets(w, "delete", s) => \A id \in Held(w.table) : b[id] = NoRow

\* RestoreFollowsFile, of any statements and tables.
RestoreIn(todo, c, l, b, s) ==
  /\ c = 0 \/ ResetAhead(todo, 0, "cursor", s)
  /\ \A k \in DOMAIN todo : FromFile(todo[k], b, s)
  /\ \/ \E k \in DOMAIN todo : todo[k] = ReadTable(s)
     \/ \A id \in Ids : DoneOrDue(todo, l, b, s, id)

\* A write of the row.
Brought(w, s, id) == Sets(w, "write", s) /\ id \in Held(w.table)

\* MergeFollowsRules, of any statements and rows.
MergeIn(todo, old, new, backup, s, id) ==
  LET merged == [backup EXCEPT !.seq = Pending]
      wins == backup # NoRow /\ Merges(s, old, merged)
  IN  /\ \A k \in DOMAIN todo : Brought(todo[k], s, id) => wins /\ todo[k].table[id] = merged
      /\ \/ wins /\ new = merged
         \/ /\ new = old
            /\ wins => \E k \in DOMAIN todo : todo[k] = ReadTable(s) \/ Brought(todo[k], s, id)

\* RestoreIn is RestoreFollowsFile of the present state.
LEMMA RestoreSame ==
  ASSUME NEW d, NEW s
  PROVE  RestoreFollowsFile(d, s) <=>
           (job[d].kind = "restore" /\ job[d].alone =>
              RestoreIn(job[d].todo, store[d].cursor[s], store[d].rows[s], job[d].copy.rows[s], s))
  BY Zenon DEF RestoreFollowsFile, RestoreIn, FromFile, DoneOrDue

\* MergeIn is MergeFollowsRules of the present state.
LEMMA MergeSame ==
  ASSUME NEW d, NEW s, NEW id
  PROVE  MergeFollowsRules(d, s, id) <=>
           (job[d].kind = "merge" /\ job[d].alone =>
              MergeIn(job[d].todo, saved[d].rows[s][id], store[d].rows[s][id], job[d].copy.rows[s][id], s, id))
  BY Zenon DEF MergeFollowsRules, MergeIn, Brought

\* The first of every Device and stream.
RestoreEverywhere ==
  \A d, s : RestoreFollowsFile(d, s) <=>
    (job[d].kind = "restore" /\ job[d].alone =>
       RestoreIn(job[d].todo, store[d].cursor[s], store[d].rows[s], job[d].copy.rows[s], s))

\* The second of every Device, stream and row.
MergeEverywhere ==
  \A d, s, id : MergeFollowsRules(d, s, id) <=>
    (job[d].kind = "merge" /\ job[d].alone =>
       MergeIn(job[d].todo, saved[d].rows[s][id], store[d].rows[s][id], job[d].copy.rows[s][id], s, id))

\* The first after a step.
LEMMA RestoreSameNext == RestoreEverywhere'
<1>1. RestoreEverywhere BY RestoreSame DEF RestoreEverywhere
<1>. QED BY <1>1, PTL

\* The second after a step.
LEMMA MergeSameNext == MergeEverywhere'
<1>1. MergeEverywhere BY MergeSame DEF MergeEverywhere
<1>. QED BY <1>1, PTL

\* A list is its first element and those of its tail.
LEMMA TailElements ==
  ASSUME NEW W, NEW todo \in Seq(W), todo # <<>>
  PROVE  /\ 1 \in DOMAIN todo /\ Head(todo) = todo[1]
         /\ \A k \in DOMAIN Tail(todo) : \E j \in DOMAIN todo : todo[j] = Tail(todo)[k]
         /\ \A k \in DOMAIN todo : k = 1 \/ \E j \in DOMAIN Tail(todo) : Tail(todo)[j] = todo[k]
<1>. DEFINE t == Tail(todo)
<1>1. /\ 1 \in DOMAIN todo /\ Head(todo) = todo[1]
      /\ \A k \in DOMAIN t : k \in Nat \ {0} /\ k + 1 \in DOMAIN todo /\ t[k] = todo[k + 1]
      /\ \A k \in DOMAIN todo : k \in Nat \ {0} /\ (k > 1 => k - 1 \in DOMAIN t /\ t[k - 1] = todo[k])
  BY TailAt
<1>2. ASSUME NEW k \in DOMAIN todo, k # 1 PROVE \E j \in DOMAIN t : t[j] = todo[k]
  <2>1. k > 1 BY <1>1, <1>2
  <2>. QED BY <1>1, <2>1
<1>. QED BY <1>1, <1>2

\* The elements of a joined list are those of its parts.
LEMMA JoinedElements ==
  ASSUME NEW W, NEW e \in Seq(W), NEW p, NEW t, Joined(e, p, t)
  PROVE  /\ \A k \in DOMAIN e : (\E j \in DOMAIN p : e[k] = p[j]) \/ (\E j \in DOMAIN t : e[k] = t[j])
         /\ \A j \in DOMAIN p : \E k \in DOMAIN e : e[k] = p[j]
         /\ \A j \in DOMAIN t : \E k \in DOMAIN e : e[k] = t[j]
<1>1. ASSUME NEW k \in DOMAIN e, k \notin DOMAIN p PROVE \E j \in DOMAIN t : e[k] = t[j]
  <2>. DEFINE i == k - Len(p)
  <2>1. i \in DOMAIN t /\ Len(p) \in Nat /\ k \in Nat BY <1>1, LenProperties DEF Joined
  <2>2. Len(p) + i = k BY <2>1
  <2>. HIDE DEF i
  <2>3. e[k] = t[i] BY <2>1, <2>2 DEF Joined
  <2>. QED BY <2>1, <2>3
<1>. QED BY <1>1 DEF Joined

\* A table's read gives way to what is planned from it.
LEMMA RestorePlanned ==
  ASSUME NEW W, NEW todo \in Seq(W), todo # <<>>, Head(todo).op = "read", NEW p, NEW s,
         NEW e \in Seq(W), Joined(e, p, Tail(todo)), NEW c, NEW l, NEW b,
         ResetAhead(e, 0, "cursor", s),
         \A k \in DOMAIN p : FromFile(p[k], b, s),
         Head(todo) = ReadTable(s) => \A id \in Ids : DoneOrDue(p, l, b, s, id),
         RestoreIn(todo, c, l, b, s)
  PROVE  RestoreIn(e, c, l, b, s)
<1>. DEFINE t == Tail(todo)
<1>1. /\ 1 \in DOMAIN todo /\ Head(todo) = todo[1]
      /\ \A k \in DOMAIN t : \E j \in DOMAIN todo : todo[j] = t[k]
      /\ \A k \in DOMAIN todo : k = 1 \/ \E j \in DOMAIN t : t[j] = todo[k]
  BY TailElements
<1>. HIDE DEF t
<1>0. Joined(e, p, t) BY DEF t
<1>2. /\ \A k \in DOMAIN e : (\E j \in DOMAIN p : e[k] = p[j]) \/ (\E j \in DOMAIN t : e[k] = t[j])
      /\ \A j \in DOMAIN p : \E k \in DOMAIN e : e[k] = p[j]
      /\ \A j \in DOMAIN t : \E k \in DOMAIN e : e[k] = t[j]
  BY <1>0, JoinedElements
<1>3. \A k \in DOMAIN e : FromFile(e[k], b, s) BY <1>1, <1>2 DEF RestoreIn
<1>4. \/ \E k \in DOMAIN e : e[k] = ReadTable(s)
      \/ \A id \in Ids : DoneOrDue(e, l, b, s, id)
  <2>1. CASE \E k \in DOMAIN todo : todo[k] = ReadTable(s)
    <3>1. PICK k \in DOMAIN todo : todo[k] = ReadTable(s) BY <2>1
    <3>2. CASE k = 1
      <4>1. \A id \in Ids : DoneOrDue(p, l, b, s, id) BY <1>1, <3>1, <3>2
      <4>. QED BY <1>2, <4>1 DEF DoneOrDue
    <3>3. CASE k # 1
      <4>1. PICK j \in DOMAIN t : t[j] = todo[k] BY <1>1, <3>3
      <4>. QED BY <1>2, <3>1, <4>1
    <3>. QED BY <3>2, <3>3
  <2>2. CASE \A id \in Ids : DoneOrDue(todo, l, b, s, id)
    <3>1. ASSUME NEW id \in Ids, NEW k \in DOMAIN todo,
                 Sets(todo[k], "write", s) \/ Sets(todo[k], "delete", s), id \in Held(todo[k].table)
          PROVE  DoneOrDue(e, l, b, s, id)
      <4>1. k # 1 BY <1>1, <3>1 DEF Sets
      <4>2. PICK j \in DOMAIN t : t[j] = todo[k] BY <1>1, <4>1
      <4>. QED BY <1>2, <3>1, <4>2 DEF DoneOrDue
    <3>. QED BY <2>2, <3>1 DEF DoneOrDue
  <2>. QED BY <2>1, <2>2 DEF RestoreIn
<1>. QED BY <1>3, <1>4 DEF RestoreIn

\* It is a row, and no longer wins over itself.
LEMMA MergedIsRow ==
  ASSUME NEW backup \in Row
  PROVE  LET merged == [backup EXCEPT !.seq = Pending]
         IN  merged \in Row /\ merged # NoRow /\ merged.seq = Pending /\ \A s : ~Merges(s, merged, merged)
<1>. DEFINE merged == [backup EXCEPT !.seq = Pending]
<1>1. merged \in Row /\ merged.seq = Pending BY DEF Row, Pending
<1>. HIDE DEF merged
<1>2. merged # NoRow BY <1>1, NoRowIsNoRow
<1>3. \A s : ~Merges(s, merged, merged) BY <1>2 DEF Merges, SameContent
<1>. QED BY <1>1, <1>2, <1>3 DEF merged

\* Reading a table keeps what a Merge has still to do of a row.
LEMMA MergePlanned ==
  ASSUME NEW W, NEW todo \in Seq(W), todo # <<>>, Head(todo).op = "read", NEW p, NEW s, NEW id,
         NEW e \in Seq(W), Joined(e, p, Tail(todo)), NEW old, NEW new, NEW backup \in Maybe(Row), NEW merged,
         merged = AsPending(backup),
         \A k \in DOMAIN p : Brought(p[k], s, id) =>
           backup # NoRow /\ Merges(s, new, merged) /\ p[k].table[id] = merged,
         Head(todo) = ReadTable(s) /\ backup # NoRow /\ Merges(s, new, merged) =>
           \E k \in DOMAIN p : Brought(p[k], s, id),
         MergeIn(todo, old, new, backup, s, id)
  PROVE  MergeIn(e, old, new, backup, s, id)
<1>. DEFINE t == Tail(todo)
            wins == backup # NoRow /\ Merges(s, old, merged)
<1>1. /\ 1 \in DOMAIN todo /\ Head(todo) = todo[1]
      /\ \A k \in DOMAIN t : \E j \in DOMAIN todo : todo[j] = t[k]
      /\ \A k \in DOMAIN todo : k = 1 \/ \E j \in DOMAIN t : t[j] = todo[k]
  BY TailElements
<1>. HIDE DEF t
<1>0. Joined(e, p, t) BY DEF t
<1>2. /\ \A k \in DOMAIN e : (\E j \in DOMAIN p : e[k] = p[j]) \/ (\E j \in DOMAIN t : e[k] = t[j])
      /\ \A j \in DOMAIN p : \E k \in DOMAIN e : e[k] = p[j]
      /\ \A j \in DOMAIN t : \E k \in DOMAIN e : e[k] = t[j]
  BY <1>0, JoinedElements
<1>3. backup # NoRow => ~Merges(s, merged, merged)
  BY MergedIsRow DEF Maybe, AsPending
<1>4. /\ \A k \in DOMAIN todo : Brought(todo[k], s, id) => wins /\ todo[k].table[id] = merged
      /\ \/ wins /\ new = merged
         \/ /\ new = old
            /\ wins => \E k \in DOMAIN todo : todo[k] = ReadTable(s) \/ Brought(todo[k], s, id)
  BY DEF MergeIn, AsPending
<1>5. ASSUME NEW k \in DOMAIN e, Brought(e[k], s, id) PROVE wins /\ e[k].table[id] = merged
  <2>1. CASE \E j \in DOMAIN p : e[k] = p[j] BY <1>3, <1>4, <1>5, <2>1
  <2>2. CASE \E j \in DOMAIN t : e[k] = t[j] BY <1>1, <1>4, <1>5, <2>2
  <2>. QED BY <1>2, <2>1, <2>2
<1>6. ASSUME new = old, wins
      PROVE  new = merged \/ \E k \in DOMAIN e : e[k] = ReadTable(s) \/ Brought(e[k], s, id)
  <2>1. CASE new = merged BY <2>1
  <2>2. CASE new # merged
    <3>1. PICK k \in DOMAIN todo : todo[k] = ReadTable(s) \/ Brought(todo[k], s, id) BY <1>4, <1>6, <2>2
    <3>2. CASE k = 1
      <4>1. Head(todo) = ReadTable(s) BY <1>1, <3>1, <3>2 DEF Brought, Sets
      <4>. QED BY <1>2, <1>6, <4>1
    <3>3. CASE k # 1
      <4>1. PICK j \in DOMAIN t : t[j] = todo[k] BY <1>1, <3>3
      <4>. QED BY <1>2, <3>1, <4>1
    <3>. QED BY <3>2, <3>3
  <2>. QED BY <2>1, <2>2
<1>. QED BY <1>4, <1>5, <1>6 DEF MergeIn, AsPending

\* A Restore's read is followed by the resets, which then follow its plan.
LEMMA PlanResets ==
  ASSUME NEW W, NEW todo \in Seq(W), todo # <<>>, Head(todo).op = "read", NEW p, NEW s,
         NEW e \in Seq(W), Joined(e, p, Tail(todo)), \A k \in DOMAIN todo : ResetsFollow(todo, k, s)
  PROVE  ResetAhead(e, 0, "cursor", s) /\ \A k \in DOMAIN e : ResetsFollow(e, k, s)
<1>. DEFINE t == Tail(todo)
<1>1. 1 \in DOMAIN todo /\ Head(todo) = todo[1] BY TailElements
<1>2. ResetAhead(todo, 1, "cursor", s) BY <1>1 DEF ResetsFollow
<1>3. PICK l \in DOMAIN todo : l > 1 /\ Sets(todo[l], "cursor", s) BY <1>2 DEF ResetAhead
<1>4. ResetAhead(todo, l, "epoch", s) BY <1>3 DEF ResetsFollow
<1>5. ResetAhead(todo, 1, "epoch", s)
  <2>1. \A k \in DOMAIN todo : k \in Nat BY LenProperties
  <2>. QED BY <1>3, <1>4, <2>1 DEF ResetAhead
<1>6. 0 \in Nat /\ 0 + 1 = 1 OBVIOUS
<1>7. ResetAhead(t, 0, "cursor", s) BY <1>2, <1>6, ResetInTail
<1>8. ResetAhead(t, 0, "epoch", s) BY <1>5, <1>6, ResetInTail
<1>9. \A k \in DOMAIN t : ResetsFollow(t, k, s) BY FollowsInTail
<1>. HIDE DEF t
<1>10. Joined(e, p, t) BY DEF t
<1>11. \A k \in DOMAIN e : ResetsFollow(e, k, s) BY <1>7, <1>8, <1>9, <1>10, FollowsInJoined
<1>12. ResetAhead(e, 0, "cursor", s)
  <2>1. Len(p) \in Nat /\ 0 <= Len(p) + 0 BY <1>10 DEF Joined
  <2>. QED BY <1>6, <1>7, <1>10, <2>1, ResetInJoined
<1>. QED BY <1>11, <1>12

-----------------------------------------------------------------------------
(* A table is read, and what to do with it is planned.                     *)

\* A Restore's plan for a table takes every row to what the file has.
LEMMA RestorePlanFrom ==
  ASSUME NEW db \in Database, NEW backup \in Database, NEW name \in Streams \cup {Kv}, NEW p,
         p = PlanOf("restore", name, db, backup)
  PROVE  /\ p \in Seq(Statements)
         /\ \A k \in DOMAIN p : /\ p[k].op \in {"write", "delete", "cursor", "epoch"}
                                /\ p[k].op = "cursor" => p[k].value = backup.cursor[p[k].stream]
         /\ \A s \in Streams :
              /\ \A k \in DOMAIN p : FromFile(p[k], backup.rows[s], s)
              /\ name = s => \A id \in Ids : DoneOrDue(p, db.rows[s], backup.rows[s], s, id)
<1>1. CASE name = Kv
  <2>1. p = RestoreKv(db, backup) BY <1>1 DEF PlanOf
  <2>2. /\ p \in Seq(Statements)
        /\ \A k \in DOMAIN p : /\ p[k].op \in {"cursor", "epoch"}
                               /\ p[k].op = "cursor" => p[k].value = backup.cursor[p[k].stream]
    BY <2>1, RestoreKvPlan
  <2>3. \A s \in Streams : name # s BY <1>1, BackupsAssumption
  <2>4. \A s \in Streams, k \in DOMAIN p : FromFile(p[k], backup.rows[s], s)
    BY <2>2 DEF FromFile, Sets
  <2>. QED BY <2>2, <2>3, <2>4
<1>2. CASE name # Kv
  <2>1. name \in Streams BY <1>2
  <2>2. p = RestoreTable(db, backup, name) BY <1>2 DEF PlanOf
  <2>3. /\ p \in Seq(Statements)
        /\ \A k \in DOMAIN p :
             /\ p[k].stream = name /\ p[k].op \in {"write", "delete"}
             /\ \A id \in Held(p[k].table) :
                  IF p[k].op = "write" THEN p[k].table[id] = backup.rows[name][id]
                                       ELSE backup.rows[name][id] = NoRow
        /\ \A id \in Ids :
             \/ backup.rows[name][id] = NoRow /\ db.rows[name][id] = NoRow
             \/ backup.rows[name][id] # NoRow /\ SameRow(db.rows[name][id], backup.rows[name][id])
             \/ \E k \in DOMAIN p : id \in Held(p[k].table)
    BY <2>1, <2>2, RestoreTablePlan
  <2>4. ASSUME NEW s \in Streams, NEW k \in DOMAIN p PROVE FromFile(p[k], backup.rows[s], s)
    BY <2>3 DEF FromFile, Sets
  <2>5. \A id \in Ids : DoneOrDue(p, db.rows[name], backup.rows[name], name, id)
    BY <2>3 DEF DoneOrDue, Sets
  <2>. QED BY <2>3, <2>4, <2>5
<1>. QED BY <1>1, <1>2

\* A Merge's plan writes the rows of the file that win, as pending ones.
LEMMA MergePlanFrom ==
  ASSUME NEW db \in Database, NEW backup \in Database, NEW name \in Streams \cup {Kv}, NEW p,
         p = PlanOf("merge", name, db, backup)
  PROVE  /\ p \in Seq(Statements)
         /\ \A k \in DOMAIN p : /\ p[k].op = "write"
                                /\ \A id \in Held(p[k].table) : p[k].table[id].seq = Pending
         /\ \A s \in Streams, id \in Ids :
              LET merged == AsPending(backup.rows[s][id])
                  wins == backup.rows[s][id] # NoRow /\ Merges(s, db.rows[s][id], merged)
              IN  /\ \A k \in DOMAIN p : Brought(p[k], s, id) => wins /\ p[k].table[id] = merged
                  /\ name = s /\ wins => \E k \in DOMAIN p : Brought(p[k], s, id)
<1>1. CASE name = Kv
  <2>0. p = <<>> BY <1>1 DEF PlanOf
  <2>1. p \in Seq(Statements) /\ DOMAIN p = {}
    <3>1. <<>> \in Seq(Statements) /\ DOMAIN <<>> = {} OBVIOUS
    <3>. QED BY <2>0, <3>1
  <2>2. \A s \in Streams : name # s BY <1>1, BackupsAssumption
  <2>. QED BY <2>1, <2>2
<1>2. CASE name # Kv
  <2>. DEFINE merged(id) == AsPending(backup.rows[name][id])
              wins(id) == backup.rows[name][id] # NoRow /\ Merges(name, db.rows[name][id], merged(id))
  <2>1. name \in Streams BY <1>2
  <2>2. p = MergeTable(db, backup, name) BY <1>2 DEF PlanOf
  <2>3. /\ p \in Seq(Statements)
        /\ \A k \in DOMAIN p :
             /\ p[k].stream = name /\ p[k].op = "write"
             /\ \A id \in Held(p[k].table) : /\ wins(id) /\ p[k].table[id] = merged(id)
                                             /\ merged(id).seq = Pending
        /\ \A id \in Ids : wins(id) => \E k \in DOMAIN p : id \in Held(p[k].table)
    BY <2>1, <2>2, MergeTablePlan
  <2>. HIDE DEF merged, wins
  <2>4. \A k \in DOMAIN p, id \in Ids : Brought(p[k], name, id) => wins(id) /\ p[k].table[id] = merged(id)
    BY <2>3 DEF Brought
  <2>5. \A id \in Ids : wins(id) => \E k \in DOMAIN p : Brought(p[k], name, id)
    BY <2>3 DEF Brought, Sets
  <2>6. \A s \in Streams, k \in DOMAIN p, id \in Ids : Brought(p[k], s, id) => s = name
    BY <2>3 DEF Brought, Sets
  <2>7. \A k \in DOMAIN p : /\ p[k].op = "write"
                            /\ \A id \in Held(p[k].table) : p[k].table[id].seq = Pending
    BY <2>3
  <2>. QED BY <2>3, <2>4, <2>5, <2>6, <2>7 DEF merged, wins
<1>. QED BY <1>1, <1>2

\* The job that a plan is made for, and the list the plan makes of its todo.
LEMMA PlanParts ==
  ASSUME TypeOK, NEW d \in Devices, JobFits(d), Plan(d)
  PROVE  LET todo == job[d].todo
             p == Planned(d)
             e == job'[d].todo
             W == Statements \cup Reads
         IN  /\ job[d].kind \in {"restore", "merge"} /\ job[d].open
             /\ todo \in Seq(W) /\ todo # <<>> /\ Head(todo).op = "read"
             /\ Head(todo).name \in Streams \cup {Kv} /\ Head(todo) = ReadTable(Head(todo).name)
             /\ e \in Seq(W) /\ Joined(e, p, Tail(todo))
             /\ store[d] \in Database /\ job[d].copy \in Database /\ saved[d] \in Database
             /\ p = PlanOf(job[d].kind, Head(todo).name, store[d], job[d].copy)
<1>1. /\ NextIs(d, "read") /\ job[d].open /\ job'[d].todo = Planned(d) \o Tail(job[d].todo) BY PlanTyped
<1>2. job[d].kind \in {"restore", "merge"} BY <1>1 DEF JobFits
<1>3. /\ job[d].todo # <<>> /\ job[d].todo \in Seq(Statements \cup Reads)
      /\ Tail(job[d].todo) \in Seq(Statements \cup Reads)
      /\ Head(job[d].todo).op = "read" /\ Head(job[d].todo).name \in Streams \cup {Kv}
      /\ Head(job[d].todo) = ReadTable(Head(job[d].todo).name)
  BY <1>1, NextOfJob
<1>4. Planned(d) \in Seq(Statements \cup Reads) BY <1>1, PlannedTyped
<1>5. /\ job'[d].todo \in Seq(Statements \cup Reads)
      /\ Joined(job'[d].todo, Planned(d), Tail(job[d].todo))
  BY <1>1, <1>3, <1>4, ConcatAt
<1>6. store[d] \in Database /\ job[d].copy \in Database /\ saved[d] \in Database BY DeviceFields, JobFields
<1>7. Planned(d) = PlanOf(job[d].kind, Head(job[d].todo).name, store[d], job[d].copy) BY DEF Planned
<1>. QED BY <1>1, <1>2, <1>3, <1>5, <1>6, <1>7

\* A read names its table.
LEMMA NameOfRead == \A s, z : ReadTable(z) = ReadTable(s) => z = s
<1>1. ASSUME NEW s, NEW z, ReadTable(z) = ReadTable(s) PROVE z = s
  <2>1. ReadTable(z).name = z /\ ReadTable(s).name = s BY DEF ReadTable
  <2>. QED BY <1>1, <2>1
<1>. QED BY <1>1

\* Plan keeps the invariant of a Restore.
LEMMA RestorePlanSide ==
  ASSUME TypeOK, NEW d \in Devices, JobSide(d), Plan(d), job[d].kind = "restore"
  PROVE  JobSide(d)'
<1>1. /\ UNCHANGED store
      /\ job'[d].kind = "restore" /\ job'[d].open = job[d].open
      /\ job'[d].copy = job[d].copy /\ job'[d].alone = job[d].alone
  BY PlanTyped
<1>2. JobFits(d) /\ ResetsComeLast(d) /\ \A s \in Streams : RestoreFollowsFile(d, s) BY DEF JobSide
<1>. DEFINE todo == job[d].todo
            p == Planned(d)
            e == job'[d].todo
            t == Tail(todo)
            name == Head(todo).name
            backup == job[d].copy
            W == Statements \cup Reads
<1>3. /\ job[d].open
      /\ todo \in Seq(W) /\ todo # <<>> /\ Head(todo).op = "read"
      /\ name \in Streams \cup {Kv} /\ Head(todo) = ReadTable(name)
      /\ e \in Seq(W) /\ Joined(e, p, t)
      /\ store[d] \in Database /\ backup \in Database
      /\ p = PlanOf("restore", name, store[d], backup)
  BY <1>2, PlanParts
<1>4. /\ \A k \in DOMAIN todo, s \in Streams : ResetsFollow(todo, k, s)
      /\ \A k \in DOMAIN todo : todo[k].op # "read" => todo[k].op \in {"write", "delete", "cursor", "epoch"}
      /\ \A s \in Streams : job[d].alone => RestoreIn(todo, store[d].cursor[s], store[d].rows[s], backup.rows[s], s)
  <2>1. \A s \in Streams : job[d].alone => RestoreIn(todo, store[d].cursor[s], store[d].rows[s], backup.rows[s], s)
    BY <1>2, RestoreSame
  <2>. QED BY <1>2, <2>1 DEF ResetsComeLast, JobFits
<1>5. /\ \A s \in Streams : RestoreFollowsFile(d, s)' <=>
           (job[d].alone => RestoreIn(e, store[d].cursor[s], store[d].rows[s], backup.rows[s], s))
      /\ JobFits(d)' <=> \A k \in DOMAIN e : e[k].op # "read" => e[k].op \in {"write", "delete", "cursor", "epoch"}
      /\ ResetsComeLast(d)' <=> \A k \in DOMAIN e, s \in Streams : ResetsFollow(e, k, s)
  <2>1. \A s \in Streams : RestoreFollowsFile(d, s)' <=>
           (job[d].alone => RestoreIn(e, store[d].cursor[s], store[d].rows[s], backup.rows[s], s))
    BY <1>1, RestoreSameNext DEF RestoreEverywhere
  <2>2. JobFits(d)' <=> \A k \in DOMAIN e : e[k].op # "read" => e[k].op \in {"write", "delete", "cursor", "epoch"}
    BY <1>1, <1>3 DEF JobFits
  <2>3. ResetsComeLast(d)' <=> \A k \in DOMAIN e, s \in Streams : ResetsFollow(e, k, s)
    BY <1>1 DEF ResetsComeLast
  <2>. QED BY <2>1, <2>2, <2>3
<1>. HIDE DEF p, e, name, backup, W
<1>6. /\ \A k \in DOMAIN p : p[k].op \in {"write", "delete", "cursor", "epoch"}
      /\ \A s \in Streams :
           /\ \A k \in DOMAIN p : FromFile(p[k], backup.rows[s], s)
           /\ name = s => \A id \in Ids : DoneOrDue(p, store[d].rows[s], backup.rows[s], s, id)
  BY <1>3, RestorePlanFrom
<1>7. ASSUME NEW s \in Streams
      PROVE  ResetAhead(e, 0, "cursor", s) /\ \A k \in DOMAIN e : ResetsFollow(e, k, s)
  BY <1>3, <1>4, PlanResets
<1>8. ASSUME NEW s \in Streams, job[d].alone
      PROVE  RestoreIn(e, store[d].cursor[s], store[d].rows[s], backup.rows[s], s)
  <2>1. Head(todo) = ReadTable(s) => name = s BY <1>3, NameOfRead
  <2>. DEFINE c == store[d].cursor[s]
              l == store[d].rows[s]
              b == backup.rows[s]
  <2>2. /\ \A k \in DOMAIN p : FromFile(p[k], b, s)
        /\ Head(todo) = ReadTable(s) => \A id \in Ids : DoneOrDue(p, l, b, s, id)
        /\ ResetAhead(e, 0, "cursor", s) /\ RestoreIn(todo, c, l, b, s)
    BY <1>4, <1>6, <1>7, <1>8, <2>1
  <2>. HIDE DEF c, l, b, todo
  <2>3. RestoreIn(e, c, l, b, s) BY <1>3, <2>2, RestorePlanned
  <2>. QED BY <2>3 DEF c, l, b
<1>9. ASSUME NEW k \in DOMAIN e, e[k].op # "read" PROVE e[k].op \in {"write", "delete", "cursor", "epoch"}
  <2>. HIDE DEF t
  <2>1. (\E j \in DOMAIN p : e[k] = p[j]) \/ (\E j \in DOMAIN t : e[k] = t[j]) BY <1>3, JoinedElements
  <2>. USE DEF t
  <2>2. \A j \in DOMAIN t : \E i \in DOMAIN todo : todo[i] = t[j] BY <1>3, TailElements
  <2>. QED BY <1>4, <1>6, <1>9, <2>1, <2>2
<1>10. JobFits(d)' /\ ResetsComeLast(d)' /\ \A s \in Streams : RestoreFollowsFile(d, s)'
  BY <1>5, <1>7, <1>8, <1>9
<1>11. \A s \in Streams, id \in Ids : MergeFollowsRules(d, s, id)' BY <1>1 DEF MergeFollowsRules
<1>. QED BY <1>10, <1>11 DEF JobSide

\* Plan keeps the invariant of a Merge.
LEMMA MergePlanSide ==
  ASSUME TypeOK, NEW d \in Devices, JobSide(d), Plan(d), job[d].kind = "merge"
  PROVE  JobSide(d)'
<1>1. /\ UNCHANGED <<store, saved>>
      /\ job'[d].kind = "merge" /\ job'[d].open = job[d].open
      /\ job'[d].copy = job[d].copy /\ job'[d].alone = job[d].alone
  BY PlanTyped
<1>2. JobFits(d) /\ \A s \in Streams, id \in Ids : MergeFollowsRules(d, s, id) BY DEF JobSide
<1>. DEFINE todo == job[d].todo
            p == Planned(d)
            e == job'[d].todo
            t == Tail(todo)
            name == Head(todo).name
            backup == job[d].copy
            W == Statements \cup Reads
            Adds(w) == w.op # "read" => w.op = "write" /\ \A id \in Held(w.table) : w.table[id].seq = Pending
<1>3. /\ job[d].open
      /\ todo \in Seq(W) /\ todo # <<>> /\ Head(todo).op = "read"
      /\ name \in Streams \cup {Kv} /\ Head(todo) = ReadTable(name)
      /\ e \in Seq(W) /\ Joined(e, p, t)
      /\ store[d] \in Database /\ backup \in Database
      /\ p = PlanOf("merge", name, store[d], backup)
  BY <1>2, PlanParts
<1>4. /\ \A k \in DOMAIN todo : Adds(todo[k])
      /\ \A s \in Streams, id \in Ids : job[d].alone =>
           MergeIn(todo, saved[d].rows[s][id], store[d].rows[s][id], backup.rows[s][id], s, id)
  <2>1. \A s \in Streams, id \in Ids : job[d].alone =>
           MergeIn(todo, saved[d].rows[s][id], store[d].rows[s][id], backup.rows[s][id], s, id)
    BY <1>2, MergeSame
  <2>. QED BY <1>2, <2>1 DEF JobFits
<1>5. /\ \A s \in Streams, id \in Ids : MergeFollowsRules(d, s, id)' <=>
           (job[d].alone => MergeIn(e, saved[d].rows[s][id], store[d].rows[s][id], backup.rows[s][id], s, id))
      /\ JobFits(d)' <=> \A k \in DOMAIN e : Adds(e[k])
  <2>1. \A s \in Streams, id \in Ids : MergeFollowsRules(d, s, id)' <=>
           (job[d].alone => MergeIn(e, saved[d].rows[s][id], store[d].rows[s][id], backup.rows[s][id], s, id))
    BY <1>1, MergeSameNext DEF MergeEverywhere
  <2>2. JobFits(d)' <=> \A k \in DOMAIN e : Adds(e[k]) BY <1>1, <1>3 DEF JobFits
  <2>. QED BY <2>1, <2>2
<1>. HIDE DEF p, e, name, backup, W
<1>6. /\ \A k \in DOMAIN p : Adds(p[k])
      /\ \A s \in Streams, id \in Ids :
           LET merged == AsPending(backup.rows[s][id])
               wins == backup.rows[s][id] # NoRow /\ Merges(s, store[d].rows[s][id], merged)
           IN  /\ \A k \in DOMAIN p : Brought(p[k], s, id) => wins /\ p[k].table[id] = merged
               /\ name = s /\ wins => \E k \in DOMAIN p : Brought(p[k], s, id)
  BY <1>3, MergePlanFrom
<1>7. ASSUME NEW s \in Streams, NEW id \in Ids, job[d].alone
      PROVE  MergeIn(e, saved[d].rows[s][id], store[d].rows[s][id], backup.rows[s][id], s, id)
  <2>1. Head(todo) = ReadTable(s) => name = s BY <1>3, NameOfRead
  <2>. DEFINE old == saved[d].rows[s][id]
              new == store[d].rows[s][id]
              b == backup.rows[s][id]
              merged == AsPending(b)
  <2>2. /\ \A k \in DOMAIN p : Brought(p[k], s, id) => b # NoRow /\ Merges(s, new, merged) /\ p[k].table[id] = merged
        /\ Head(todo) = ReadTable(s) /\ b # NoRow /\ Merges(s, new, merged) =>
             \E k \in DOMAIN p : Brought(p[k], s, id)
        /\ MergeIn(todo, old, new, b, s, id)
    BY <1>4, <1>6, <1>7, <2>1
  <2>3. b \in Maybe(Row) BY <1>3, DatabaseFields
  <2>4. merged = AsPending(b) OBVIOUS
  <2>. HIDE DEF old, new, b, merged, todo
  <2>5. MergeIn(e, old, new, b, s, id) BY <1>3, <2>2, <2>3, <2>4, MergePlanned
  <2>. QED BY <2>5 DEF old, new, b
<1>8. ASSUME NEW k \in DOMAIN e PROVE Adds(e[k])
  <2>. HIDE DEF t
  <2>1. (\E j \in DOMAIN p : e[k] = p[j]) \/ (\E j \in DOMAIN t : e[k] = t[j]) BY <1>3, JoinedElements
  <2>. USE DEF t
  <2>2. \A j \in DOMAIN t : \E i \in DOMAIN todo : todo[i] = t[j] BY <1>3, TailElements
  <2>. HIDE DEF Adds
  <2>. QED BY <1>4, <1>6, <2>1, <2>2
<1>9. JobFits(d)' /\ \A s \in Streams, id \in Ids : MergeFollowsRules(d, s, id)'
  BY <1>5, <1>7, <1>8
<1>10. ResetsComeLast(d)' /\ \A s \in Streams : RestoreFollowsFile(d, s)'
  BY <1>1 DEF ResetsComeLast, RestoreFollowsFile
<1>. QED BY <1>9, <1>10 DEF JobSide

\* The Cursors a Restore plans to write are within the log.
LEMMA PlanCursors ==
  ASSUME TypeOK, NEW d \in Devices, JobFits(d), Plan(d), NEW s \in Streams, CursorsInLog(d, s)
  PROVE  CursorsInLog(d, s)'
<1>. DEFINE todo == job[d].todo
            p == Planned(d)
            e == job'[d].todo
            t == Tail(todo)
            name == Head(todo).name
            backup == job[d].copy
            W == Statements \cup Reads
<1>1. UNCHANGED <<rows, store, saved>> /\ job'[d].copy = backup BY PlanTyped
<1>2. /\ job[d].kind \in {"restore", "merge"}
      /\ todo \in Seq(W) /\ todo # <<>> /\ name \in Streams \cup {Kv}
      /\ e \in Seq(W) /\ Joined(e, p, t)
      /\ store[d] \in Database /\ backup \in Database
      /\ p = PlanOf(job[d].kind, name, store[d], backup)
  BY PlanParts
<1>3. /\ InLog(s, backup.cursor[s])
      /\ \A k \in DOMAIN todo : Sets(todo[k], "cursor", s) => InLog(s, todo[k].value)
  BY DEF CursorsInLog
<1>4. CursorsInLog(d, s)' <=> \A k \in DOMAIN e : Sets(e[k], "cursor", s) => InLog(s, e[k].value)
  BY <1>1 DEF CursorsInLog, InLog
<1>. HIDE DEF p, e, name, backup, W
<1>5. \A k \in DOMAIN p : Sets(p[k], "cursor", s) => p[k].value = backup.cursor[s]
  <2>1. CASE job[d].kind = "restore"
    <3>1. \A k \in DOMAIN p : p[k].op = "cursor" => p[k].value = backup.cursor[p[k].stream]
      BY <1>2, <2>1, RestorePlanFrom
    <3>. QED BY <3>1 DEF Sets
  <2>2. CASE job[d].kind = "merge"
    <3>1. \A k \in DOMAIN p : p[k].op = "write" BY <1>2, <2>2, MergePlanFrom
    <3>. QED BY <3>1 DEF Sets
  <2>. QED BY <1>2, <2>1, <2>2
<1>6. ASSUME NEW k \in DOMAIN e, Sets(e[k], "cursor", s) PROVE InLog(s, e[k].value)
  <2>. HIDE DEF t
  <2>1. (\E j \in DOMAIN p : e[k] = p[j]) \/ (\E j \in DOMAIN t : e[k] = t[j]) BY <1>2, JoinedElements
  <2>. USE DEF t
  <2>2. \A j \in DOMAIN t : \E i \in DOMAIN todo : todo[i] = t[j] BY <1>2, TailElements
  <2>. QED BY <1>3, <1>5, <1>6, <2>1, <2>2
<1>. QED BY <1>4, <1>6

\* What was ahead is still ahead, behind the plan.
LEMMA AheadOfPlan ==
  ASSUME NEW W, NEW todo \in Seq(W), todo # <<>>, Head(todo).op = "read", NEW p,
         NEW e \in Seq(W), Joined(e, p, Tail(todo)), NEW op \in {"cursor", "epoch"}, NEW s
  PROVE  /\ ResetAhead(todo, 0, op, s) => ResetAhead(e, 0, op, s)
         /\ (\E k \in DOMAIN todo : Sets(todo[k], op, s)) => \E k \in DOMAIN e : Sets(e[k], op, s)
<1>. DEFINE t == Tail(todo)
<1>1. /\ 1 \in DOMAIN todo /\ Head(todo) = todo[1]
      /\ \A k \in DOMAIN todo : k = 1 \/ \E j \in DOMAIN t : t[j] = todo[k]
  BY TailElements
<1>2. ~Sets(Head(todo), op, s) BY DEF Sets
<1>3. ResetAhead(todo, 0, op, s) => ResetAhead(t, 0, op, s)
  <2>1. 0 \in Nat OBVIOUS
  <2>. QED BY <1>2, <2>1, ResetInTail
<1>. HIDE DEF t
<1>4. Joined(e, p, t) BY DEF t
<1>5. ResetAhead(t, 0, op, s) => ResetAhead(e, 0, op, s)
  <2>1. 0 \in Nat /\ Len(p) \in Nat /\ 0 <= Len(p) + 0 BY <1>4 DEF Joined
  <2>. QED BY <1>4, <2>1, ResetInJoined
<1>6. \A j \in DOMAIN t : \E k \in DOMAIN e : e[k] = t[j] BY <1>4, JoinedElements
<1>7. ASSUME NEW k \in DOMAIN todo, Sets(todo[k], op, s) PROVE \E i \in DOMAIN e : Sets(e[i], op, s)
  <2>1. PICK j \in DOMAIN t : t[j] = todo[k] BY <1>1, <1>2, <1>7
  <2>. QED BY <1>6, <1>7, <2>1
<1>. QED BY <1>3, <1>5, <1>7

\* Plan keeps the Device's invariant.
LEMMA PlanKeeps ==
  ASSUME TypeOK, TypeOK', NEW d \in Devices, DeviceFits(d), Plan(d)
  PROVE  DeviceFits(d)'
<1>1. /\ UNCHANGED <<rows, store, run, file, saved, torn>> /\ job[d].open
      /\ job'[d].kind = job[d].kind /\ job'[d].open = job[d].open
  BY PlanTyped
<1>2. JobSide(d) /\ JobFits(d) BY DEF DeviceFits, JobSide
<1>. DEFINE todo == job[d].todo
            p == Planned(d)
            e == job'[d].todo
            W == Statements \cup Reads
<1>3. /\ job[d].kind \in {"restore", "merge"}
      /\ todo \in Seq(W) /\ todo # <<>> /\ Head(todo).op = "read" /\ e \in Seq(W) /\ Joined(e, p, Tail(todo))
  BY <1>2, PlanParts
<1>4. JobSide(d)' BY <1>2, <1>3, RestorePlanSide, MergePlanSide
<1>5. \A s \in Streams : CursorsInLog(d, s)' BY <1>2, PlanCursors DEF DeviceFits
<1>6. ASSUME NEW s \in Streams, NEW op \in {"cursor", "epoch"}
      PROVE  /\ ResetAhead(todo, 0, op, s) => ResetAhead(e, 0, op, s)
             /\ (\E k \in DOMAIN todo : Sets(todo[k], op, s)) => \E k \in DOMAIN e : Sets(e[k], op, s)
  <2>1. op = "cursor" \/ op = "epoch" OBVIOUS
  <2>. HIDE DEF todo, p, e, W
  <2>2. /\ ResetAhead(todo, 0, "cursor", s) => ResetAhead(e, 0, "cursor", s)
        /\ (\E k \in DOMAIN todo : Sets(todo[k], "cursor", s)) => \E k \in DOMAIN e : Sets(e[k], "cursor", s)
    BY <1>3, AheadOfPlan
  <2>3. /\ ResetAhead(todo, 0, "epoch", s) => ResetAhead(e, 0, "epoch", s)
        /\ (\E k \in DOMAIN todo : Sets(todo[k], "epoch", s)) => \E k \in DOMAIN e : Sets(e[k], "epoch", s)
    BY <1>3, AheadOfPlan
  <2>. QED BY <2>1, <2>2, <2>3
<1>7. ASSUME NEW s \in Streams PROVE Restoring(d, s) => Restoring(d, s)'
  BY <1>1, <1>6 DEF Restoring
<1>8. ASSUME NEW s \in Streams \ torn[d] PROVE Covers(saved[d], s)'
  <2>1. ServerMoves BY <1>1, ServerStays
  <2>2. Covers(saved[d], s) /\ CursorsInLog(d, s) BY <1>1 DEF DeviceFits, StreamFits
  <2>3. saved'[d] = saved[d] BY <1>1
  <2>. QED BY <2>1, <2>2, <2>3, SavedStays
<1>9. store'[d] = store[d] /\ run'[d] = run[d] /\ torn'[d] = torn[d] BY <1>1
<1>. QED BY <1>1, <1>4, <1>5, <1>6, <1>7, <1>8, <1>9, JobMoves

-----------------------------------------------------------------------------
(* A statement of a job.                                                   *)

\* The Cursor is reset, or is going to be.
LEMMA ResetExecuted ==
  ASSUME NEW W, NEW todo \in Seq(W), todo # <<>>, NEW s, NEW c, NEW e,
         Sets(Head(todo), "cursor", s) => e = Head(todo).value, ~Sets(Head(todo), "cursor", s) => e = c,
         c = 0 \/ ResetAhead(todo, 0, "cursor", s), ResetsFollow(todo, 1, s)
  PROVE  e = 0 \/ ResetAhead(Tail(todo), 0, "cursor", s)
<1>1. 1 \in DOMAIN todo /\ Head(todo) = todo[1] BY TailElements
<1>2. 0 \in Nat /\ 0 + 1 = 1 OBVIOUS
<1>3. /\ ResetAhead(todo, 1, "cursor", s) => ResetAhead(Tail(todo), 0, "cursor", s)
      /\ ResetAhead(todo, 0, "cursor", s) =>
           ResetAhead(Tail(todo), 0, "cursor", s) \/ (Sets(Head(todo), "cursor", s) /\ Head(todo).value = 0)
  BY <1>2, ResetInTail
<1>4. CASE Sets(Head(todo), "cursor", s)
  <2>1. Head(todo).value = 0 \/ ResetAhead(todo, 1, "cursor", s) BY <1>1, <1>4 DEF ResetsFollow
  <2>. QED BY <1>3, <1>4, <2>1
<1>5. CASE ~Sets(Head(todo), "cursor", s) BY <1>3, <1>5
<1>. QED BY <1>4, <1>5

\* Executing a statement keeps what a Restore has still to do of a stream.
LEMMA RestoreExecuted ==
  ASSUME NEW W, NEW todo \in Seq(W), todo # <<>>, NEW w, w = Head(todo), w.op \notin {"read", "ack", "pull"},
         NEW s, NEW c, NEW e, NEW l, NEW k, NEW b,
         Sets(w, "cursor", s) => e = w.value, ~Sets(w, "cursor", s) => e = c,
         \A id \in Ids : Wrote(w, s, id, l[id], k[id]),
         ResetsFollow(todo, 1, s), RestoreIn(todo, c, l, b, s)
  PROVE  RestoreIn(Tail(todo), e, k, b, s)
<1>0. e = 0 \/ ResetAhead(Tail(todo), 0, "cursor", s)
  <2>1. c = 0 \/ ResetAhead(todo, 0, "cursor", s) BY DEF RestoreIn
  <2>. QED BY <2>1, ResetExecuted
<1>. DEFINE t == Tail(todo)
<1>1. /\ 1 \in DOMAIN todo /\ w = todo[1]
      /\ \A n \in DOMAIN t : \E j \in DOMAIN todo : todo[j] = t[n]
      /\ \A n \in DOMAIN todo : n = 1 \/ \E j \in DOMAIN t : t[j] = todo[n]
  BY TailElements
<1>2. e = 0 \/ ResetAhead(t, 0, "cursor", s) BY <1>0
<1>. HIDE DEF t
<1>3. \A n \in DOMAIN t : FromFile(t[n], b, s) BY <1>1 DEF RestoreIn
<1>4. FromFile(w, b, s) BY <1>1 DEF RestoreIn
<1>5. CASE \E n \in DOMAIN todo : todo[n] = ReadTable(s)
  <2>1. PICK n \in DOMAIN todo : todo[n] = ReadTable(s) BY <1>5
  <2>2. n # 1 BY <1>1, <2>1 DEF ReadTable
  <2>3. \E j \in DOMAIN t : t[j] = ReadTable(s) BY <1>1, <2>1, <2>2
  <2>. QED BY <1>2, <1>3, <2>3 DEF RestoreIn, t
<1>6. CASE \A id \in Ids : DoneOrDue(todo, l, b, s, id)
  <2>1. ASSUME NEW id \in Ids PROVE DoneOrDue(t, k, b, s, id)
    <3>1. Wrote(w, s, id, l[id], k[id]) /\ DoneOrDue(todo, l, b, s, id) BY <1>6
    <3>2. CASE Sets(w, "delete", s) /\ id \in Held(w.table) /\ k[id] = NoRow
      BY <1>4, <3>2 DEF FromFile, DoneOrDue
    <3>3. CASE WritesRows(w, s) /\ id \in Held(w.table) /\ k[id] = w.table[id]
      <4>1. Sets(w, "write", s) BY <3>3 DEF WritesRows, Sets
      <4>2. k[id] = b[id] /\ b[id] # NoRow BY <1>4, <3>3, <4>1 DEF FromFile, Held
      <4>. QED BY <4>2 DEF DoneOrDue, SameRow
    <3>4. CASE /\ k[id] = l[id] /\ ~(Sets(w, "delete", s) /\ id \in Held(w.table))
               /\ ~(WritesRows(w, s) /\ id \in Held(w.table) /\ Lands(w, id, l[id]))
      <4>1. ~(Sets(w, "write", s) /\ id \in Held(w.table)) BY <3>4 DEF WritesRows, Sets, Lands
      <4>2. ASSUME NEW n \in DOMAIN todo, Sets(todo[n], "write", s) \/ Sets(todo[n], "delete", s),
                   id \in Held(todo[n].table)
            PROVE  \E j \in DOMAIN t : /\ Sets(t[j], "write", s) \/ Sets(t[j], "delete", s)
                                       /\ id \in Held(t[j].table)
        BY <1>1, <3>4, <4>1, <4>2
      <4>. QED BY <3>1, <3>4, <4>2 DEF DoneOrDue
    <3>. QED BY <3>1, <3>2, <3>3, <3>4 DEF Wrote
  <2>. QED BY <1>2, <1>3, <2>1 DEF RestoreIn, t
<1>. QED BY <1>5, <1>6 DEF RestoreIn

\* Executing a statement keeps what a Merge has still to do of a row.
LEMMA MergeExecuted ==
  ASSUME NEW W, NEW todo \in Seq(W), todo # <<>>, NEW w, w = Head(todo), w.op = "write",
         NEW s, NEW id \in Ids, NEW old, NEW new, NEW next, NEW backup,
         Wrote(w, s, id, new, next), MergeIn(todo, old, new, backup, s, id)
  PROVE  MergeIn(Tail(todo), old, next, backup, s, id)
<1>. DEFINE t == Tail(todo)
            merged == AsPending(backup)
            wins == backup # NoRow /\ Merges(s, old, merged)
<1>1. /\ 1 \in DOMAIN todo /\ w = todo[1]
      /\ \A n \in DOMAIN t : \E j \in DOMAIN todo : todo[j] = t[n]
      /\ \A n \in DOMAIN todo : n = 1 \/ \E j \in DOMAIN t : t[j] = todo[n]
  BY TailElements
<1>2. /\ \A n \in DOMAIN todo : Brought(todo[n], s, id) => wins /\ todo[n].table[id] = merged
      /\ \/ wins /\ new = merged
         \/ /\ new = old
            /\ wins => \E n \in DOMAIN todo : todo[n] = ReadTable(s) \/ Brought(todo[n], s, id)
  BY DEF MergeIn, AsPending
<1>. HIDE DEF t, merged, wins
<1>3. \A n \in DOMAIN t : Brought(t[n], s, id) => wins /\ t[n].table[id] = merged BY <1>1, <1>2
<1>4. \/ wins /\ next = merged
      \/ /\ next = old
         /\ wins => \E n \in DOMAIN t : t[n] = ReadTable(s) \/ Brought(t[n], s, id)
  <2>1. CASE WritesRows(w, s) /\ id \in Held(w.table) /\ next = w.table[id]
    <3>1. Brought(w, s, id) BY <2>1 DEF WritesRows, Sets, Brought
    <3>. QED BY <1>1, <1>2, <2>1, <3>1
  <2>2. CASE next = new /\ ~(WritesRows(w, s) /\ id \in Held(w.table) /\ Lands(w, id, new))
    <3>1. ~Brought(w, s, id) BY <2>2 DEF WritesRows, Sets, Brought, Lands
    <3>2. w # ReadTable(s) BY DEF ReadTable
    <3>. QED BY <1>1, <1>2, <2>2, <3>1, <3>2
  <2>. QED BY <2>1, <2>2 DEF Wrote, Sets
<1>. QED BY <1>3, <1>4 DEF MergeIn, AsPending, t, merged, wins

\* The rows a Merge writes are pending ones.
LEMMA MergeIsChange ==
  ASSUME NEW w, NEW s, NEW l, NEW k, w.op = "write",
         \A id \in Held(w.table) : w.table[id].seq = Pending,
         \A id \in Ids : Wrote(w, s, id, l[id], k[id])
  PROVE  PendingChange(l, k)
<1>. SUFFICES ASSUME NEW id \in Ids PROVE k[id] = l[id] \/ (k[id] # NoRow /\ k[id].seq = Pending)
  BY DEF PendingChange
<1>1. Wrote(w, s, id, l[id], k[id]) OBVIOUS
<1>. QED BY <1>1 DEF Wrote, Sets, Held

\* What a job's statement does.
LEMMA JobExecuted ==
  ASSUME TypeOK, NEW d \in Devices, JobStatement(d)
  PROVE  LET todo == job[d].todo
             w == Head(todo)
         IN  /\ todo \in Seq(Statements \cup Reads) /\ todo # <<>> /\ 1 \in DOMAIN todo /\ w = todo[1]
             /\ w \in Statements /\ w.op # "read"
             /\ store[d] \in Database /\ store'[d] \in Database
             /\ \A s \in Streams :
                  /\ Sets(w, "cursor", s) => store'[d].cursor[s] = w.value
                  /\ ~Sets(w, "cursor", s) => store'[d].cursor[s] = store[d].cursor[s]
                  /\ Sets(w, "epoch", s) => store'[d].epoch[s] = w.value
                  /\ ~Sets(w, "epoch", s) => store'[d].epoch[s] = store[d].epoch[s]
                  /\ \A id \in Ids : Wrote(w, s, id, store[d].rows[s][id], store'[d].rows[s][id])
                  /\ ~Sets(w, "delete", s) /\ ~WritesRows(w, s) => store'[d].rows[s] = store[d].rows[s]
<1>. DEFINE todo == job[d].todo
            w == Head(todo)
            db == store[d]
            new == store'[d]
<1>1. NextIs(d, "write") /\ new = Execute(db, w) BY JobStatementTyped
<1>2. todo \in Seq(Statements \cup Reads) /\ todo # <<>> /\ w \in Statements /\ w.op # "read"
  BY <1>1, NextOfJob
<1>3. 1 \in DOMAIN todo /\ w = todo[1] BY <1>2, TailElements
<1>4. db \in Database BY DeviceFields
<1>. HIDE DEF todo, w, db, new
<1>5. /\ new \in Database
      /\ \A s \in Streams :
           /\ new.cursor[s] = IF Sets(w, "cursor", s) THEN w.value ELSE db.cursor[s]
           /\ new.epoch[s] = IF Sets(w, "epoch", s) THEN w.value ELSE db.epoch[s]
           /\ \A id \in Ids : Wrote(w, s, id, db.rows[s][id], new.rows[s][id])
           /\ ~Sets(w, "delete", s) /\ ~WritesRows(w, s) => new.rows[s] = db.rows[s]
  BY <1>1, <1>2, <1>4, ExecuteWrites
<1>6. \A s \in Streams :
           /\ Sets(w, "cursor", s) => new.cursor[s] = w.value
           /\ ~Sets(w, "cursor", s) => new.cursor[s] = db.cursor[s]
           /\ Sets(w, "epoch", s) => new.epoch[s] = w.value
           /\ ~Sets(w, "epoch", s) => new.epoch[s] = db.epoch[s]
  BY <1>5
<1>. QED BY <1>2, <1>3, <1>4, <1>5, <1>6 DEF todo, w, db, new

\* JobStatement keeps the invariant of its job.
LEMMA JobStatementSide ==
  ASSUME TypeOK, NEW d \in Devices, JobSide(d), JobStatement(d)
  PROVE  JobSide(d)'
<1>. DEFINE todo == job[d].todo
            t == Tail(todo)
            w == Head(todo)
            backup == job[d].copy
            W == Statements \cup Reads
<1>1. /\ UNCHANGED saved /\ job[d].open
      /\ job'[d].todo = t /\ job'[d].kind = job[d].kind /\ job'[d].open = job[d].open
      /\ job'[d].copy = backup /\ job'[d].alone = job[d].alone
  BY JobStatementTyped
<1>2. /\ todo \in Seq(W) /\ todo # <<>> /\ 1 \in DOMAIN todo /\ w = todo[1] /\ w.op # "read"
      /\ \A s \in Streams :
           /\ Sets(w, "cursor", s) => store'[d].cursor[s] = w.value
           /\ ~Sets(w, "cursor", s) => store'[d].cursor[s] = store[d].cursor[s]
           /\ \A id \in Ids : Wrote(w, s, id, store[d].rows[s][id], store'[d].rows[s][id])
  BY JobExecuted
<1>3. /\ JobFits(d) /\ ResetsComeLast(d) /\ \A s \in Streams : RestoreFollowsFile(d, s)
      /\ \A s \in Streams, id \in Ids : MergeFollowsRules(d, s, id)
  BY DEF JobSide
<1>4. \A k \in DOMAIN t : \E j \in DOMAIN todo : todo[j] = t[k] BY <1>2, TailElements
<1>5. JobFits(d)' BY <1>1, <1>3, <1>4 DEF JobFits
<1>6. ResetsComeLast(d)'
  <2>1. ASSUME job[d].kind = "restore", NEW s \in Streams PROVE \A k \in DOMAIN t : ResetsFollow(t, k, s)
    <3>1. \A k \in DOMAIN todo : ResetsFollow(todo, k, s) BY <1>3, <2>1 DEF ResetsComeLast
    <3>. QED BY <1>2, <3>1, FollowsInTail
  <2>. QED BY <1>1, <2>1 DEF ResetsComeLast
<1>7. ASSUME NEW s \in Streams PROVE RestoreFollowsFile(d, s)'
  <2>. DEFINE c == store[d].cursor[s]
              e == store'[d].cursor[s]
              l == store[d].rows[s]
              k == store'[d].rows[s]
              b == backup.rows[s]
  <2>1. RestoreFollowsFile(d, s)' <=> (job[d].kind = "restore" /\ job[d].alone => RestoreIn(t, e, k, b, s))
    BY <1>1, RestoreSameNext DEF RestoreEverywhere
  <2>2. job[d].kind = "restore" /\ job[d].alone => RestoreIn(todo, c, l, b, s) BY <1>3, RestoreSame
  <2>3. ASSUME job[d].kind = "restore", job[d].alone PROVE RestoreIn(t, e, k, b, s)
    <3>1. ResetsFollow(todo, 1, s) BY <1>2, <1>3, <2>3 DEF ResetsComeLast
    <3>2. w.op \notin {"read", "ack", "pull"} BY <1>2, <1>3, <2>3 DEF JobFits
    <3>3. /\ Sets(w, "cursor", s) => e = w.value
          /\ ~Sets(w, "cursor", s) => e = c
          /\ \A id \in Ids : Wrote(w, s, id, l[id], k[id])
      BY <1>2
    <3>4. RestoreIn(todo, c, l, b, s) BY <2>2, <2>3
    <3>5. w = Head(todo) OBVIOUS
    <3>. HIDE DEF c, e, l, k, b, todo, w, W
    <3>. QED BY <1>2, <3>1, <3>2, <3>3, <3>4, <3>5, RestoreExecuted
  <2>. QED BY <2>1, <2>3
<1>8. ASSUME NEW s \in Streams, NEW id \in Ids PROVE MergeFollowsRules(d, s, id)'
  <2>. DEFINE old == saved[d].rows[s][id]
              new == store[d].rows[s][id]
              next == store'[d].rows[s][id]
              b == backup.rows[s][id]
  <2>1. MergeFollowsRules(d, s, id)' <=> (job[d].kind = "merge" /\ job[d].alone => MergeIn(t, old, next, b, s, id))
    BY <1>1, MergeSameNext DEF MergeEverywhere
  <2>2. job[d].kind = "merge" /\ job[d].alone => MergeIn(todo, old, new, b, s, id) BY <1>3, MergeSame
  <2>3. ASSUME job[d].kind = "merge", job[d].alone PROVE MergeIn(t, old, next, b, s, id)
    <3>1. w.op = "write" BY <1>2, <1>3, <2>3 DEF JobFits
    <3>2. Wrote(w, s, id, new, next) /\ MergeIn(todo, old, new, b, s, id) /\ w = Head(todo) BY <1>2, <2>2, <2>3
    <3>. HIDE DEF old, new, next, b, todo, w, W
    <3>. QED BY <1>2, <3>1, <3>2, MergeExecuted
  <2>. QED BY <2>1, <2>3
<1>. QED BY <1>5, <1>6, <1>7, <1>8 DEF JobSide

\* A stream that is as it was is tracked as it was.
LEMMA UntouchedTracked ==
  ASSUME NEW d \in Devices, NEW s \in Streams, UNCHANGED rows, run'[d] = run[d],
         store'[d].rows[s] = store[d].rows[s], store'[d].cursor[s] = store[d].cursor[s],
         Position(store'[d], s) = Position(store[d], s), Tracked(d, s)
  PROVE  Tracked(d, s)'
<1>. DEFINE n == Position(store[d], s)
<1>1. TrackedIn(rows[s], store[d].rows[s], n, store[d].cursor[s], run[d], s) BY TrackedSame
<1>2. Tracked(d, s)' <=> TrackedIn(rows[s], store[d].rows[s], n, store[d].cursor[s], run[d], s)
  BY TrackedSameNext
<1>. QED BY <1>1, <1>2

\* A Restore's statement about a stream is followed by the resets.
LEMMA ResetsAfterThis ==
  ASSUME NEW W, NEW todo \in Seq(W), todo # <<>>, NEW w, w = Head(todo), NEW s, ResetsFollow(todo, 1, s)
  PROVE  /\ Sets(w, "write", s) \/ Sets(w, "delete", s) => ResetAhead(Tail(todo), 0, "cursor", s)
         /\ Sets(w, "cursor", s) => /\ w.value = 0 \/ ResetAhead(Tail(todo), 0, "cursor", s)
                                    /\ ResetAhead(Tail(todo), 0, "epoch", s)
         /\ Sets(w, "epoch", s) => w.value = 0 \/ ResetAhead(Tail(todo), 0, "epoch", s)
<1>1. 1 \in DOMAIN todo /\ w = todo[1] BY TailElements
<1>2. 0 \in Nat /\ 0 + 1 = 1 OBVIOUS
<1>3. \A op : ResetAhead(todo, 1, op, s) => ResetAhead(Tail(todo), 0, op, s) BY <1>2, ResetInTail
<1>. QED BY <1>1, <1>3 DEF ResetsFollow

\* What a Restore that is under way has still to do is in the tail, unless it
\* is the statement at hand.
LEMMA StillRestoring ==
  ASSUME TypeOK, NEW d \in Devices, JobStatement(d), job[d].kind = "restore", NEW s \in Streams, ~Restoring(d, s)'
  PROVE  LET op == IF s \in Bumped THEN "epoch" ELSE "cursor"
         IN  /\ ~ResetAhead(Tail(job[d].todo), 0, op, s)
             /\ \A k \in DOMAIN Tail(job[d].todo) : ~Sets(Tail(job[d].todo)[k], op, s)
             /\ Restoring(d, s) => Sets(Head(job[d].todo), op, s)
<1>. DEFINE op == IF s \in Bumped THEN "epoch" ELSE "cursor"
            todo == job[d].todo
            t == Tail(todo)
<1>1. job[d].open /\ job'[d].todo = t /\ job'[d].kind = job[d].kind /\ job'[d].open = job[d].open
  BY JobStatementTyped
<1>2. todo \in Seq(Statements \cup Reads) /\ todo # <<>> BY JobExecuted
<1>3. \A k \in DOMAIN t : ~Sets(t[k], op, s) BY <1>1 DEF Restoring
<1>4. ~ResetAhead(t, 0, op, s) BY <1>3 DEF ResetAhead
<1>5. ASSUME Restoring(d, s) PROVE Sets(Head(todo), op, s)
  <2>1. PICK k \in DOMAIN todo : Sets(todo[k], op, s) BY <1>5 DEF Restoring
  <2>2. Head(todo) = todo[1] /\ (k = 1 \/ \E j \in DOMAIN t : t[j] = todo[k]) BY <1>2, TailElements
  <2>. QED BY <1>3, <2>1, <2>2
<1>. QED BY <1>3, <1>4, <1>5

\* A Restore that is done with a stream leaves it to be read from 0, or has not
\* touched it.
LEMMA RestoreTracked ==
  ASSUME TypeOK, TypeOK', LogFits, NEW d \in Devices, DeviceFits(d), JobStatement(d), job[d].kind = "restore",
         NEW s \in Streams \ torn'[d], ~Restoring(d, s)', s \notin Behind(store'[d])
  PROVE  Tracked(d, s)'
<1>. DEFINE todo == job[d].todo
            t == Tail(todo)
            w == Head(todo)
            W == Statements \cup Reads
<1>1. /\ UNCHANGED <<rows, run>> /\ job[d].open
      /\ torn'[d] = IF w.op = "cursor" /\ run[d].pc # "idle" /\ w.stream \notin Bumped
                      THEN torn[d] \cup {w.stream} ELSE torn[d]
  BY JobStatementTyped
<1>2. /\ todo \in Seq(W) /\ todo # <<>> /\ 1 \in DOMAIN todo /\ w = todo[1] /\ w.op # "read"
      /\ Sets(w, "cursor", s) => store'[d].cursor[s] = w.value
      /\ ~Sets(w, "cursor", s) => store'[d].cursor[s] = store[d].cursor[s]
      /\ Sets(w, "epoch", s) => store'[d].epoch[s] = w.value
      /\ ~Sets(w, "epoch", s) => store'[d].epoch[s] = store[d].epoch[s]
      /\ ~Sets(w, "delete", s) /\ ~WritesRows(w, s) => store'[d].rows[s] = store[d].rows[s]
  BY JobExecuted
<1>3. /\ JobFits(d) /\ ResetsComeLast(d) /\ s \notin torn[d] /\ StreamFits(d, s)
  BY <1>1 DEF DeviceFits, JobSide
<1>4. \A k \in DOMAIN todo : ResetsFollow(todo, k, s) BY <1>3 DEF ResetsComeLast
<1>5. w.op \notin {"ack", "pull"} BY <1>2, <1>3 DEF JobFits
<1>6. /\ Sets(w, "write", s) \/ Sets(w, "delete", s) => ResetAhead(t, 0, "cursor", s)
      /\ Sets(w, "cursor", s) => /\ w.value = 0 \/ ResetAhead(t, 0, "cursor", s)
                                 /\ ResetAhead(t, 0, "epoch", s)
      /\ Sets(w, "epoch", s) => w.value = 0 \/ ResetAhead(t, 0, "epoch", s)
  BY <1>2, <1>4, ResetsAfterThis
<1>7. LET op == IF s \in Bumped THEN "epoch" ELSE "cursor"
      IN  /\ ~ResetAhead(t, 0, op, s)
          /\ \A k \in DOMAIN t : ~Sets(t[k], op, s)
          /\ Restoring(d, s) => Sets(w, op, s)
  BY StillRestoring
<1>. HIDE DEF t, w
\* Nothing of the stream is left to be restored: the statement is about another.
<1>8. ASSUME ~Restoring(d, s), ~Sets(w, "cursor", s), ~Sets(w, "epoch", s) \/ s \notin Bumped,
             ~Sets(w, "write", s), ~Sets(w, "delete", s)
      PROVE  Tracked(d, s)'
  <2>1. /\ store'[d].cursor[s] = store[d].cursor[s] /\ store'[d].rows[s] = store[d].rows[s]
    BY <1>2, <1>5, <1>8 DEF WritesRows, Sets
  <2>2. s \notin Behind(store[d]) BY <1>2, <1>8 DEF Behind
  <2>3. Tracked(d, s) BY <1>3, <1>8, <2>2 DEF StreamFits
  <2>4. Position(store'[d], s) = Position(store[d], s) BY <2>1, <2>2 DEF Position
  <2>5. UNCHANGED rows /\ run'[d] = run[d] BY <1>1
  <2>. QED BY <2>1, <2>3, <2>4, <2>5, UntouchedTracked
<1>9. CASE s \in Bumped
  <2>1. ~ResetAhead(t, 0, "epoch", s) /\ (Restoring(d, s) => Sets(w, "epoch", s))
        /\ \A k \in DOMAIN t : ~Sets(t[k], "epoch", s)
    BY <1>7, <1>9
  <2>2. ~Sets(w, "epoch", s)
    <3>1. ASSUME Sets(w, "epoch", s) PROVE FALSE
      <4>1. store'[d].epoch[s] = 0 BY <1>2, <1>6, <2>1, <3>1
      <4>. QED BY <1>9, <4>1 DEF Behind
    <3>. QED BY <3>1
  <2>3. ~Restoring(d, s) /\ ~Sets(w, "cursor", s) BY <1>6, <2>1, <2>2
  <2>4. ~ResetAhead(todo, 0, "cursor", s) BY <1>3, <2>3, ResetsAheadRestore
  <2>5. ~Sets(w, "write", s) /\ ~Sets(w, "delete", s)
    <3>1. ASSUME Sets(w, "write", s) \/ Sets(w, "delete", s) PROVE FALSE
      <4>1. ResetAhead(todo, 1, "cursor", s) BY <1>2, <1>4, <3>1 DEF ResetsFollow
      <4>2. \A k \in DOMAIN todo : k > 1 => k > 0 BY <1>2, LenProperties
      <4>. QED BY <2>4, <4>1, <4>2 DEF ResetAhead
    <3>. QED BY <3>1
  <2>. QED BY <1>8, <2>2, <2>3, <2>5
<1>10. CASE s \notin Bumped
  <2>1. ~ResetAhead(t, 0, "cursor", s) /\ (Restoring(d, s) => Sets(w, "cursor", s)) BY <1>7, <1>10
  <2>2. ~Sets(w, "write", s) /\ ~Sets(w, "delete", s) BY <1>6, <2>1
  <2>3. CASE Sets(w, "cursor", s)
    <3>1. store'[d].cursor[s] = 0 BY <1>2, <1>6, <2>1, <2>3
    <3>2. run'[d].pc = "idle"
      <4>1. run[d].pc = "idle" BY <1>1, <1>10, <2>3 DEF Sets
      <4>. QED BY <1>1, <4>1
    <3>3. Position(store'[d], s) = 0 BY <3>1 DEF Position
    <3>4. Covers(store[d], s)' <=> CoversIn(rows[s], store'[d].rows[s], 0)
      <4>1. Tracked(d, s)' <=> TrackedIn(rows[s], store'[d].rows[s], 0, 0, run'[d], s)
        BY <1>1, <3>1, <3>3, TrackedSameNext
      <4>2. TrackedIn(rows[s], store'[d].rows[s], 0, 0, run'[d], s) <=> CoversIn(rows[s], store'[d].rows[s], 0)
        BY <3>2 DEF TrackedIn
      <4>3. Tracked(d, s)' <=> Covers(store[d], s)' BY <3>2, IdleTrackedNext DEF IdleEverywhere
      <4>. QED BY <4>1, <4>2, <4>3
    <3>5. CoversIn(rows[s], store'[d].rows[s], 0) BY NothingToCover
    <3>. QED BY <3>2, <3>4, <3>5, IdleTrackedNext DEF IdleEverywhere
  <2>4. CASE ~Sets(w, "cursor", s) BY <1>8, <1>10, <2>1, <2>2, <2>4
  <2>. QED BY <2>3, <2>4
<1>. QED BY <1>9, <1>10

\* A Merge adds pending rows.
LEMMA MergeTracked ==
  ASSUME TypeOK, NEW d \in Devices, DeviceFits(d), JobStatement(d), job[d].kind = "merge",
         NEW s \in Streams \ torn[d], s \notin Behind(store'[d])
  PROVE  Tracked(d, s)'
<1>. DEFINE todo == job[d].todo
            w == Head(todo)
            db == store[d]
            new == store'[d]
<1>1. UNCHANGED <<rows, run>> BY JobStatementTyped
<1>2. /\ 1 \in DOMAIN todo /\ w = todo[1] /\ w.op # "read" /\ db \in Database /\ new \in Database
      /\ \A z \in Streams :
           /\ ~Sets(w, "cursor", z) => new.cursor[z] = db.cursor[z]
           /\ ~Sets(w, "epoch", z) => new.epoch[z] = db.epoch[z]
           /\ \A id \in Ids : Wrote(w, z, id, db.rows[z][id], new.rows[z][id])
  BY JobExecuted
<1>3. JobFits(d) /\ StreamFits(d, s) BY DEF DeviceFits, JobSide
<1>4. w.op = "write" /\ \A id \in Held(w.table) : w.table[id].seq = Pending BY <1>2, <1>3 DEF JobFits
<1>. HIDE DEF w, db, new
<1>5. PendingChange(db.rows[s], new.rows[s]) BY <1>2, <1>4, MergeIsChange
<1>6. new.cursor = db.cursor /\ new.epoch = db.epoch
  <2>1. \A z \in Streams : new.cursor[z] = db.cursor[z] /\ new.epoch[z] = db.epoch[z] BY <1>2, <1>4 DEF Sets
  <2>2. /\ new.cursor \in [Streams -> Nat] /\ db.cursor \in [Streams -> Nat]
        /\ new.epoch \in [Streams -> {0, 1}] /\ db.epoch \in [Streams -> {0, 1}]
    BY <1>2, DatabaseFields
  <2>. QED BY <2>1, <2>2
<1>7. s \notin Behind(store[d]) BY <1>6 DEF Behind, db, new
<1>8. ~Restoring(d, s) BY DEF Restoring
<1>9. Tracked(d, s) BY <1>3, <1>7, <1>8 DEF StreamFits
<1>10. run'[d] = run[d] BY <1>1
<1>. QED BY <1>1, <1>5, <1>6, <1>9, <1>10, ChangeTracked DEF db, new

\* JobStatement keeps the Device's invariant.
LEMMA JobStatementKeeps ==
  ASSUME TypeOK, TypeOK', LogFits, NEW d \in Devices, DeviceFits(d), JobStatement(d)
  PROVE  DeviceFits(d)'
<1>. DEFINE todo == job[d].todo
            t == Tail(todo)
            w == Head(todo)
            W == Statements \cup Reads
<1>1. /\ UNCHANGED <<rows, run, saved>> /\ job[d].open
      /\ torn'[d] = IF w.op = "cursor" /\ run[d].pc # "idle" /\ w.stream \notin Bumped
                      THEN torn[d] \cup {w.stream} ELSE torn[d]
      /\ job'[d].todo = t /\ job'[d].kind = job[d].kind /\ job'[d].open = job[d].open
      /\ job'[d].copy = job[d].copy
  BY JobStatementTyped
<1>2. /\ todo \in Seq(W) /\ todo # <<>> /\ 1 \in DOMAIN todo /\ w = todo[1] /\ w.op # "read"
      /\ \A s \in Streams :
           /\ Sets(w, "cursor", s) => store'[d].cursor[s] = w.value
           /\ ~Sets(w, "cursor", s) => store'[d].cursor[s] = store[d].cursor[s]
  BY JobExecuted
<1>3. ServerMoves BY <1>1, ServerStays
<1>4. JobFits(d) /\ ResetsComeLast(d) BY DEF DeviceFits, JobSide
<1>5. RunSide(d)'
  <2>1. run'[d] = run[d] BY <1>1
  <2>. QED BY <1>3, <2>1, RunSideStays DEF DeviceFits
<1>6. JobSide(d)' BY JobStatementSide DEF DeviceFits
<1>7. ASSUME NEW s \in Streams PROVE CursorsInLog(d, s)'
  <2>1. CursorsInLog(d, s) BY DEF DeviceFits
  <2>2. InLog(s, store'[d].cursor[s]) BY <1>2, <2>1 DEF CursorsInLog
  <2>3. \A k \in DOMAIN t : \E j \in DOMAIN todo : todo[j] = t[k] BY <1>2, TailElements
  <2>. QED BY <1>1, <2>1, <2>2, <2>3 DEF CursorsInLog, InLog
<1>8. ASSUME NEW s \in Streams \ torn'[d] PROVE StreamFits(d, s)'
  <2>1. s \notin torn[d] BY <1>1
  <2>2. StreamFits(d, s) /\ CursorsInLog(d, s) BY <2>1 DEF DeviceFits
  <2>3. store[d].cursor[s] = 0 \/ ResetAhead(todo, 0, "cursor", s) =>
          store'[d].cursor[s] = 0 \/ ResetAhead(t, 0, "cursor", s)
    <3>1. CASE job[d].kind = "restore"
      <4>. DEFINE c == store[d].cursor[s]
                  e == store'[d].cursor[s]
      <4>1. ResetsFollow(todo, 1, s) BY <1>2, <1>4, <3>1 DEF ResetsComeLast
      <4>2. (Sets(w, "cursor", s) => e = w.value) /\ (~Sets(w, "cursor", s) => e = c) BY <1>2
      <4>. HIDE DEF c, e, todo
      <4>. QED BY <1>2, <4>1, <4>2, ResetExecuted DEF c, e
    <3>2. CASE job[d].kind # "restore"
      <4>1. \A k \in DOMAIN todo : todo[k].op # "cursor" BY <1>4, <3>2 DEF JobFits
      <4>2. ~ResetAhead(todo, 0, "cursor", s) BY <4>1 DEF ResetAhead, Sets
      <4>3. ~Sets(w, "cursor", s) BY <1>2, <4>1 DEF Sets
      <4>. QED BY <1>2, <4>2, <4>3
    <3>. QED BY <3>1, <3>2
  <2>4. EpochFollowsCursor(d, s)' BY <1>1, <2>2, <2>3 DEF StreamFits, EpochFollowsCursor
  <2>5. ASSUME ~Restoring(d, s)', s \notin Behind(store'[d]) PROVE Tracked(d, s)'
    <3>1. job[d].kind \in {"restore", "merge"} BY <1>1, <1>4 DEF JobFits
    <3>. QED BY <2>1, <2>5, <3>1, RestoreTracked, MergeTracked
  <2>6. Covers(saved[d], s)'
    <3>1. saved'[d] = saved[d] /\ Covers(saved[d], s) BY <1>1, <2>2 DEF StreamFits
    <3>. QED BY <1>3, <2>2, <3>1, SavedStays
  <2>. QED BY <2>4, <2>5, <2>6 DEF StreamFits
<1>. QED BY <1>5, <1>6, <1>7, <1>8 DEF DeviceFits

-----------------------------------------------------------------------------
(* The start.                                                              *)

LEMMA FirstRow ==
  ASSUME NEW n \in Nat
  PROVE  LET row == Stored(Captured(FirstBody, 1), n)
         IN  row \in Row /\ row # NoRow /\ row.seq = n
<1>1. FirstBody \in Bodies BY StreamsAssumption DEF FirstBody
<1>2. Captured(FirstBody, 1) \in Row BY <1>1 DEF Captured, Row, Pending
<1>. QED BY <1>2, StoredIsRow, NoRowIsNoRow

\* What every Device starts from: the rows old streams have, under the numbers
\* 1 to n, and the Cursor n.
Seeded(old, seqs) ==
  [s \in Streams |-> [id \in Ids |->
     IF s \in old /\ id \in bound.ids THEN Stored(Captured(FirstBody, 1), seqs[id]) ELSE NoRow]]

\* The Server's first rows: tables, numbered within the log.
LEMMA SeededFits ==
  ASSUME bound \in Bound, NEW old \in SUBSET Streams,
         NEW seqs \in Bijection(bound.ids, 1 .. Cardinality(bound.ids)), NEW start, start = Seeded(old, seqs)
  PROVE  /\ start \in Tables
         /\ Cardinality(bound.ids) \in Nat
         /\ \A s \in Streams :
              /\ \A id \in Held(start[s]) : start[s][id].seq # Pending
              /\ s \in old => InTable(start[s], Cardinality(bound.ids))
<1>. DEFINE n == Cardinality(bound.ids)
<1>1. bound.ids \in SUBSET Ids BY BoundFields
<1>2. n \in Nat BY <1>1, CountIsNat
<1>3. /\ seqs \in [bound.ids -> 1 .. n]
      /\ \A k \in 1 .. n : \E id \in bound.ids : seqs[id] = k
  BY DEF Bijection, Injection, Surjection, IsInjective, Restrict
<1>. HIDE DEF n
<1>4. ASSUME NEW id \in bound.ids
      PROVE  LET row == Stored(Captured(FirstBody, 1), seqs[id])
             IN  row \in Row /\ row # NoRow /\ row.seq = seqs[id] /\ row.seq \in Nat /\ row.seq > 0
  <2>1. seqs[id] \in Nat /\ seqs[id] > 0 BY <1>2, <1>3
  <2>. QED BY <2>1, FirstRow
<1>5. \A s \in Streams, id \in Ids :
        start[s][id] = IF s \in old /\ id \in bound.ids THEN Stored(Captured(FirstBody, 1), seqs[id]) ELSE NoRow
  BY DEF Seeded
<1>6. start \in Tables
  <2>1. \A s \in Streams, id \in Ids :
          (IF s \in old /\ id \in bound.ids THEN Stored(Captured(FirstBody, 1), seqs[id]) ELSE NoRow) \in Maybe(Row)
    BY <1>4 DEF Maybe
  <2>. QED BY <2>1 DEF Seeded, Tables, Table
<1>7. ASSUME NEW s \in Streams, NEW id \in Held(start[s]) PROVE start[s][id].seq # Pending
  <2>1. id \in Ids /\ start[s][id] # NoRow BY DEF Held
  <2>2. id \in bound.ids /\ start[s][id] = Stored(Captured(FirstBody, 1), seqs[id]) BY <1>5, <2>1
  <2>. QED BY <1>4, <2>2 DEF Pending
<1>8. ASSUME NEW s \in old PROVE InTable(start[s], n)
  <2>1. CASE n = 0 BY <2>1 DEF InTable
  <2>2. CASE n # 0
    <3>1. n \in 1 .. n BY <1>2, <2>2
    <3>2. PICK id \in bound.ids : seqs[id] = n BY <1>3, <3>1
    <3>3. id \in Ids /\ start[s][id] = Stored(Captured(FirstBody, 1), n) BY <1>1, <1>5, <3>2
    <3>4. id \in Held(start[s]) /\ start[s][id].seq = n BY <1>4, <3>2, <3>3 DEF Held
    <3>. QED BY <1>2, <3>4 DEF InTable
  <2>. QED BY <2>1, <2>2
<1>. QED BY <1>2, <1>6, <1>7, <1>8 DEF n

\* What every initial state has.
LEMMA InitParts ==
  ASSUME Init
  PROVE  /\ TypeOK
         /\ LogFits
         /\ \A d \in Devices : /\ store[d].rows = rows /\ saved[d] = store[d] /\ job[d] = None /\ run[d] = Idle
                               /\ \A s \in Streams : InLog(s, store[d].cursor[s])
<1>1. bound \in Bounds /\ bound \in Bound BY BackupsAssumption DEF Init, SyncInit
<1>. DEFINE old == IF bound.shared THEN bound.streams ELSE {}
            n == Cardinality(bound.ids)
            cursor == [s \in Streams |-> IF s \in old THEN n ELSE 0]
            epoch == [s \in Streams |-> IF bound.shared /\ s \in Bumped THEN 1 ELSE 0]
<1>2. PICK seqs \in Bijection(bound.ids, 1 .. n) :
        /\ rows = Seeded(old, seqs)
        /\ store = [d \in Devices |-> [NewDatabase EXCEPT !.rows = rows, !.cursor = cursor, !.epoch = epoch]]
        /\ minted = old \X bound.ids
        /\ clock = [d \in Devices |-> IF bound.shared THEN 1 ELSE 0]
  BY DEF Init, SyncInit, Seeded
<1>3. run = [d \in Devices |-> Idle] /\ file = NoFile /\ job = [d \in Devices |-> None] /\ saved = store
      /\ torn = [d \in Devices |-> {}]
  BY DEF Init, SyncInit
<1>4. old \in SUBSET Streams /\ bound.ids \subseteq Ids BY <1>1, BoundFields
<1>5. /\ rows \in Tables /\ n \in Nat
      /\ \A s \in Streams : /\ \A id \in Held(rows[s]) : rows[s][id].seq # Pending
                            /\ s \in old => InTable(rows[s], n)
  BY <1>1, <1>2, <1>4, SeededFits
<1>. HIDE DEF old, n
<1>6. /\ cursor \in [Streams -> Nat] /\ epoch \in [Streams -> {0, 1}]
      /\ \A s \in Streams : InTable(rows[s], cursor[s])
  BY <1>5 DEF InTable
<1>. HIDE DEF cursor, epoch
<1>7. ASSUME NEW d \in Devices
      PROVE  store[d] \in Database /\ store[d].rows = rows /\ store[d].cursor = cursor
  <2>1. store[d] = [NewDatabase EXCEPT !.rows = rows, !.cursor = cursor, !.epoch = epoch] BY <1>2
  <2>. QED BY <1>5, <1>6, <2>1 DEF NewDatabase, Database
<1>8. store \in [Devices -> Database]
  <2>1. store = [d \in Devices |-> store[d]] BY <1>2
  <2>. QED BY <1>7, <2>1
<1>9. TypeOK
  <2>1. minted \subseteq Streams \X Ids BY <1>2, <1>4
  <2>2. clock \in [Devices -> Nat] BY <1>2
  <2>. QED BY <1>1, <1>3, <1>5, <1>8, <2>1, <2>2, NothingIsTyped, NoneIsJob DEF TypeOK
<1>10. LogFits BY <1>3, <1>5 DEF LogFits
<1>11. ASSUME NEW d \in Devices, NEW s \in Streams PROVE InLog(s, store[d].cursor[s])
  BY <1>6, <1>7 DEF InLog, InTable
<1>. QED BY <1>3, <1>7, <1>9, <1>10, <1>11

\* The initial states satisfy the invariant.
LEMMA InitFits ==
  ASSUME Init
  PROVE  IInv
<1>1. /\ TypeOK /\ LogFits
      /\ \A d \in Devices : /\ store[d].rows = rows /\ saved[d] = store[d] /\ job[d] = None /\ run[d] = Idle
                            /\ \A s \in Streams : InLog(s, store[d].cursor[s])
  BY InitParts
<1>2. ASSUME NEW d \in Devices PROVE DeviceFits(d)
  <2>1. Idle.pc = "idle" /\ Idle.todo = <<>> /\ Idle.page = NoTables /\ Idle.since = [s \in Streams |-> 0]
    BY IdleRun
  <2>2. None.kind = "none" /\ None.todo = <<>> /\ ~None.open /\ None.copy = NewDatabase BY DEF None
  <2>3. RunSide(d)
    <3>1. RunFits(d) BY <1>1, <2>1 DEF RunFits
    <3>2. ASSUME NEW s \in Streams PROVE AnswerInLog(d, s)
      <4>1. NoTables[s] = EmptyTable /\ Held(EmptyTable) = {} BY EmptyTableIsTable DEF NoTables
      <4>. QED BY <1>1, <2>1, <4>1 DEF AnswerInLog, InLog
    <3>. QED BY <3>1, <3>2 DEF RunSide
  <2>4. JobSide(d)
    BY <1>1, <2>2 DEF JobSide, JobFits, ResetsComeLast, RestoreFollowsFile, MergeFollowsRules
  <2>5. ASSUME NEW s \in Streams PROVE CursorsInLog(d, s)
    BY <1>1, <2>2, NewIsInLog DEF CursorsInLog, InLog
  <2>6. ASSUME NEW s \in Streams PROVE StreamFits(d, s)
    <3>1. EpochFollowsCursor(d, s) BY <1>1, <2>1 DEF EpochFollowsCursor
    <3>2. Covers(store[d], s) BY <1>1 DEF Covers, Has
    <3>3. Tracked(d, s) BY <1>1, <2>1, <3>2, IdleTracked
    <3>. QED BY <1>1, <2>2, <3>1, <3>3 DEF StreamFits
  <2>. QED BY <2>3, <2>4, <2>5, <2>6 DEF DeviceFits
<1>. QED BY <1>1, <1>2 DEF IInv

-----------------------------------------------------------------------------
(* Every step.                                                             *)

\* A step of a job of d's is nobody else's.
LEMMA JobStepWhole ==
  ASSUME IInv, NEW d \in Devices, TypeOK', UNCHANGED rows, DeviceFits(d)',
         file' # NoFile => \A s \in Streams : InLog(s, file'.cursor[s]),
         \A e \in Devices \ {d} : /\ run'[e] = run[e] /\ store'[e] = store[e] /\ job'[e] = job[e]
                                  /\ saved'[e] = saved[e] /\ torn'[e] = torn[e]
  PROVE  IInv'
<1>1. TypeOK /\ LogFits /\ ServerMoves BY ServerStays DEF IInv
<1>2. LogFits' BY <1>1, LogFitsStays
<1>3. ASSUME NEW e \in Devices \ {d} PROVE DeviceFits(e)'
  <2>1. DeviceFits(e) BY DEF IInv
  <2>2. /\ run'[e] = run[e] /\ store'[e] = store[e] /\ job'[e] = job[e]
        /\ saved'[e] = saved[e] /\ torn'[e] = torn[e]
    OBVIOUS
  <2>. QED BY <1>1, <2>1, <2>2, DeviceStays
<1>. QED BY <1>2, <1>3 DEF IInv

\* Every step of a job keeps the invariant of every Device.
LEMMA JobKeeps ==
  ASSUME IInv, NEW d \in Devices,
         \/ StartBackup(d) \/ \E kind \in {"restore", "merge"} : Begin(d, kind)
         \/ JobStep(d) \/ FailJob(d) \/ Crash(d)
  PROVE  IInv'
<1>1. TypeOK /\ LogFits /\ DeviceFits(d) BY DEF IInv
<1>2. file # NoFile => \A s \in Streams : InLog(s, file.cursor[s]) BY <1>1, FileInLog
<1>3. CASE StartBackup(d)
  <2>1. TypeOK' /\ UNCHANGED <<rows, store, run, file, saved, torn>> /\ \A e \in Devices \ {d} : job'[e] = job[e]
    BY <1>1, <1>3, StartBackupTyped
  <2>2. DeviceFits(d)' BY <1>1, <1>3, <2>1, StartBackupKeeps
  <2>. QED BY <1>2, <2>1, <2>2, JobStepWhole
<1>4. CASE \E kind \in {"restore", "merge"} : Begin(d, kind)
  <2>1. PICK kind \in {"restore", "merge"} : Begin(d, kind) BY <1>4
  <2>2. /\ TypeOK' /\ UNCHANGED <<rows, store, run, file, torn>>
        /\ \A e \in Devices \ {d} : job'[e] = job[e] /\ saved'[e] = saved[e]
    BY <1>1, <2>1, BeginTyped
  <2>3. DeviceFits(d)' BY <1>1, <2>1, <2>2, BeginKeeps
  <2>. QED BY <1>2, <2>2, <2>3, JobStepWhole
<1>5. CASE Dump(d)
  <2>1. TypeOK' /\ UNCHANGED <<rows, store, run, file, saved, torn>> /\ \A e \in Devices \ {d} : job'[e] = job[e]
    BY <1>1, <1>5, DumpTyped
  <2>2. DeviceFits(d)' BY <1>1, <1>5, <2>1, DumpKeeps
  <2>. QED BY <1>2, <2>1, <2>2, JobStepWhole
<1>6. CASE FinishBackup(d)
  <2>1. TypeOK' /\ UNCHANGED <<rows, store, run, saved, torn>> /\ \A e \in Devices \ {d} : job'[e] = job[e]
    BY <1>1, <1>6, FinishBackupTyped
  <2>2. DeviceFits(d)' /\ \A s \in Streams : InLog(s, file'.cursor[s]) BY <1>1, <1>6, <2>1, FinishBackupKeeps
  <2>. QED BY <2>1, <2>2, JobStepWhole
<1>7. CASE Plan(d)
  <2>1. TypeOK' /\ UNCHANGED <<rows, store, run, file, saved, torn>> /\ \A e \in Devices \ {d} : job'[e] = job[e]
    BY <1>1, <1>7, PlanTyped
  <2>2. DeviceFits(d)' BY <1>1, <1>7, <2>1, PlanKeeps
  <2>. QED BY <1>2, <2>1, <2>2, JobStepWhole
<1>8. CASE JobStatement(d)
  <2>1. /\ TypeOK' /\ UNCHANGED <<rows, run, file, saved>>
        /\ \A e \in Devices \ {d} : job'[e] = job[e] /\ store'[e] = store[e] /\ torn'[e] = torn[e]
    BY <1>1, <1>8, JobStatementTyped
  <2>2. DeviceFits(d)' BY <1>1, <1>8, <2>1, JobStatementKeeps
  <2>. QED BY <1>2, <2>1, <2>2, JobStepWhole
<1>9. CASE CommitJob(d)
  <2>1. TypeOK' /\ UNCHANGED <<rows, store, run, file, saved, torn>> /\ \A e \in Devices \ {d} : job'[e] = job[e]
    BY <1>1, <1>9, CommitJobTyped
  <2>2. DeviceFits(d)' BY <1>1, <1>9, <2>1, CommitJobKeeps
  <2>. QED BY <1>2, <2>1, <2>2, JobStepWhole
<1>10. CASE Reload(d) \/ FailJob(d) \/ Crash(d)
  <2>1. /\ TypeOK' /\ UNCHANGED <<rows, file, saved>>
        /\ \A e \in Devices \ {d} : /\ job'[e] = job[e] /\ store'[e] = store[e] /\ torn'[e] = torn[e]
                                    /\ run'[e] = run[e]
    BY <1>1, <1>10, JobEndsTyped
  <2>2. DeviceFits(d)' BY <1>1, <1>10, <2>1, JobEndsKeeps
  <2>. QED BY <1>2, <2>1, <2>2, JobStepWhole
<1>. QED BY <1>3, <1>4, <1>5, <1>6, <1>7, <1>8, <1>9, <1>10 DEF JobStep

\* A step that changes nothing keeps the invariant.
LEMMA StutterKeeps ==
  ASSUME IInv, UNCHANGED vars
  PROVE  IInv'
<1>1. TypeOK /\ LogFits /\ TypeOK' /\ ServerMoves
  BY TypesTogether, ServerStays DEF IInv, vars, syncVars, backupVars, TypeOK
<1>2. LogFits' BY <1>1, FileInLog, LogFitsStays DEF vars, backupVars
<1>3. ASSUME NEW e \in Devices PROVE DeviceFits(e)'
  <2>1. DeviceFits(e) BY DEF IInv
  <2>2. /\ run'[e] = run[e] /\ store'[e] = store[e] /\ job'[e] = job[e]
        /\ saved'[e] = saved[e] /\ torn'[e] = torn[e]
    BY DEF vars, syncVars, backupVars
  <2>. QED BY <1>1, <2>1, <2>2, DeviceStays
<1>. QED BY <1>1, <1>2, <1>3 DEF IInv

\* Every step keeps the invariant.
LEMMA NextKeeps ==
  ASSUME IInv, [Next]_vars
  PROVE  IInv'
<1>1. ASSUME Next PROVE IInv'
  <2>1. PICK d \in bound.devices :
          \/ Beside(d, SyncNext(d)) \/ StartBackup(d)
          \/ \E kind \in {"restore", "merge"} : Begin(d, kind)
          \/ JobStep(d) \/ FailJob(d) \/ Crash(d)
    BY <1>1 DEF Next
  <2>2. d \in Devices BY BoundFields DEF IInv, TypeOK
  <2>. QED BY <2>1, <2>2, BesideKeeps, JobKeeps
<1>. QED BY <1>1, StutterKeeps

\* The invariant of Backup, Restore, Merge, Sync and the user, all on the one
\* connection of each Device.
THEOREM BackupsInvariant == Spec => []IInv
<1>1. Init => IInv BY InitFits
<1>2. IInv /\ [Next]_vars => IInv' BY NextKeeps
<1>. QED BY <1>1, <1>2, PTL DEF Spec

\* restoreFromBackup and catchUpRowShapeEpoch: whatever the database a closed
\* app leaves behind lacks of the Server's rows, the next run of sync() reads.
THEOREM CursorsCovered == Spec => []CursorsCover
<1>1. ASSUME IInv PROVE CursorsCover
  <2>. SUFFICES ASSUME NEW d \in Devices, NEW s \in Streams \ torn[d] PROVE Covers(Durable(d), s)
    BY DEF CursorsCover, Covered
  <2>1. TypeOK /\ LogFits /\ DeviceFits(d) BY <1>1 DEF IInv
  <2>2. CASE s \notin Behind(Durable(d)) BY <2>1, <2>2, DurableCovers
  <2>3. CASE s \in Behind(Durable(d))
    <3>1. Position(Durable(d), s) = 0 BY <2>3 DEF Position
    <3>2. CoversIn(rows[s], Durable(d).rows[s], 0) BY <2>1, NothingToCover
    <3>. QED BY <3>1, <3>2 DEF Covers, CoversIn, Has, HasIn, PendingRows
  <2>. QED BY <2>2, <2>3
<1>2. IInv => CursorsCover BY <1>1
<1>. QED BY <1>2, BackupsInvariant, PTL

\* A Restore or Merge that is committed has nothing left to do.
LEMMA NothingLeft ==
  ASSUME TypeOK, NEW d \in Devices, JobFits(d), job[d].kind \in {"restore", "merge"}, ~job[d].open
  PROVE  job[d].todo = <<>> /\ DOMAIN job[d].todo = {}
<1>1. job[d].todo = <<>> BY DEF JobFits
<1>2. DOMAIN <<>> = {} OBVIOUS
<1>. QED BY <1>1, <1>2

\* restoreTable: a Restore nobody wrote into leaves the rows of the file, every
\* one and no other, and the next run of sync() reads every stream from 0.
THEOREM RestoresAreTheBackup == Spec => []RestoreIsTheBackup
<1>1. ASSUME IInv PROVE RestoreIsTheBackup
  <2>. SUFFICES ASSUME NEW d \in Devices, job[d].kind = "restore", ~job[d].open, job[d].alone, NEW s \in Streams
                PROVE  /\ Held(store[d].rows[s]) = Held(job[d].copy.rows[s])
                       /\ \A id \in Held(store[d].rows[s]) :
                            SameRow(store[d].rows[s][id], job[d].copy.rows[s][id])
                       /\ Position(store[d], s) = 0
    BY DEF RestoreIsTheBackup
  <2>. DEFINE todo == job[d].todo
              c == store[d].cursor[s]
              l == store[d].rows[s]
              b == job[d].copy.rows[s]
  <2>1. TypeOK /\ JobFits(d) /\ RestoreFollowsFile(d, s) BY <1>1 DEF IInv, DeviceFits, JobSide
  <2>2. DOMAIN todo = {} BY <2>1, NothingLeft
  <2>3. RestoreIn(todo, c, l, b, s) BY <2>1, RestoreSame
  <2>. HIDE DEF todo, c, l, b
  <2>4. c = 0 /\ \A id \in Ids : \/ b[id] = NoRow /\ l[id] = NoRow
                                 \/ b[id] # NoRow /\ SameRow(l[id], b[id])
    BY <2>2, <2>3 DEF RestoreIn, ResetAhead, DoneOrDue
  <2>5. Held(l) = Held(b) /\ \A id \in Held(l) : SameRow(l[id], b[id]) BY <2>4 DEF Held, SameRow
  <2>6. Position(store[d], s) = 0 BY <2>4 DEF Position, c
  <2>. QED BY <2>5, <2>6 DEF l, b
<1>2. IInv => RestoreIsTheBackup BY <1>1
<1>. QED BY <1>2, BackupsInvariant, PTL

\* What mergeTable makes of one row.
LEMMA MergedRow ==
  ASSUME NEW s, NEW old \in Maybe(Row), NEW backup \in Maybe(Row), NEW new, NEW merged, merged = AsPending(backup),
         \/ backup # NoRow /\ Merges(s, old, merged) /\ new = merged
         \/ new = old /\ ~(backup # NoRow /\ Merges(s, old, merged))
  PROVE  /\ new = NoRow <=> old = NoRow /\ backup = NoRow
         /\ new # old => SameRow(backup, new) /\ new.seq = Pending
         /\ (old # NoRow /\ new # NoRow) =>
              /\ old.deleted => new = old
              /\ new.deleted \/ new.upd >= old.upd
         /\ (backup # NoRow /\ new # NoRow /\ s \notin AppendOnly) =>
              /\ backup.deleted => new.deleted
              /\ new.deleted \/ SameContent(new, backup) \/ new.upd >= backup.upd
<1>1. ASSUME backup # NoRow
      PROVE  /\ merged \in Row /\ merged # NoRow /\ merged.seq = Pending
             /\ merged.body = backup.body /\ merged.deleted = backup.deleted /\ merged.upd = backup.upd
             /\ merged.upd \in Nat /\ merged.deleted \in BOOLEAN /\ SameRow(backup, merged)
  <2>1. backup \in Row BY <1>1 DEF Maybe
  <2>2. merged \in Row /\ merged.seq = Pending
        /\ merged.body = backup.body /\ merged.deleted = backup.deleted /\ merged.upd = backup.upd
        /\ merged.upd \in Nat /\ merged.deleted \in BOOLEAN
    BY <2>1 DEF Row, AsPending, Pending
  <2>3. [backup EXCEPT !.seq = 0] = [merged EXCEPT !.seq = 0] BY <2>1 DEF AsPending, Row
  <2>. QED BY <1>1, <2>2, <2>3, NoRowIsNoRow DEF SameRow
<1>2. ASSUME old # NoRow PROVE old.upd \in Nat /\ old.deleted \in BOOLEAN
  BY <1>2 DEF Maybe, Row
<1>3. CASE backup # NoRow /\ Merges(s, old, merged) /\ new = merged
  BY <1>1, <1>2, <1>3 DEF Merges, SameContent
<1>4. CASE new = old /\ ~(backup # NoRow /\ Merges(s, old, merged))
  BY <1>1, <1>2, <1>4 DEF Merges, SameContent
<1>. QED BY <1>3, <1>4

\* merge.ts: a Merge nobody wrote into loses no row, keeps deletions deletions,
\* never replaces a newer row by an older one, and marks what it brought as a
\* local edit.
THEOREM MergesLoseNothing == Spec => []MergeLosesNothing
<1>1. ASSUME IInv PROVE MergeLosesNothing
  <2>. SUFFICES ASSUME NEW d \in Devices, job[d].kind = "merge", ~job[d].open, job[d].alone,
                       NEW s \in Streams, NEW id \in Ids
                PROVE  LET old == saved[d].rows[s][id]
                           backup == job[d].copy.rows[s][id]
                           new == store[d].rows[s][id]
                       IN  /\ new = NoRow <=> old = NoRow /\ backup = NoRow
                           /\ new # old => SameRow(backup, new) /\ new.seq = Pending
                           /\ (old # NoRow /\ new # NoRow) =>
                                /\ old.deleted => new = old
                                /\ new.deleted \/ new.upd >= old.upd
                           /\ (backup # NoRow /\ new # NoRow /\ s \notin AppendOnly) =>
                                /\ backup.deleted => new.deleted
                                /\ new.deleted \/ SameContent(new, backup) \/ new.upd >= backup.upd
    BY DEF MergeLosesNothing
  <2>. DEFINE todo == job[d].todo
              old == saved[d].rows[s][id]
              backup == job[d].copy.rows[s][id]
              new == store[d].rows[s][id]
              merged == AsPending(backup)
  <2>1. TypeOK /\ JobFits(d) /\ MergeFollowsRules(d, s, id) BY <1>1 DEF IInv, DeviceFits, JobSide
  <2>2. DOMAIN todo = {} BY <2>1, NothingLeft
  <2>3. MergeIn(todo, old, new, backup, s, id) BY <2>1, MergeSame
  <2>4. old \in Maybe(Row) /\ backup \in Maybe(Row) BY <2>1, DeviceFields, JobFields, DatabaseFields
  <2>. HIDE DEF todo, old, new, backup
  <2>5. \/ backup # NoRow /\ Merges(s, old, merged) /\ new = merged
        \/ new = old /\ ~(backup # NoRow /\ Merges(s, old, merged))
    BY <2>2, <2>3 DEF MergeIn, AsPending
  <2>. HIDE DEF merged
  <2>6. merged = AsPending(backup) BY DEF merged
  <2>7. /\ new = NoRow <=> old = NoRow /\ backup = NoRow
        /\ new # old => SameRow(backup, new) /\ new.seq = Pending
        /\ (old # NoRow /\ new # NoRow) =>
             /\ old.deleted => new = old
             /\ new.deleted \/ new.upd >= old.upd
        /\ (backup # NoRow /\ new # NoRow /\ s \notin AppendOnly) =>
             /\ backup.deleted => new.deleted
             /\ new.deleted \/ SameContent(new, backup) \/ new.upd >= backup.upd
    BY <2>4, <2>5, <2>6, MergedRow
  <2>. QED BY <2>7 DEF old, new, backup
<1>2. IInv => MergeLosesNothing BY <1>1
<1>. QED BY <1>2, BackupsInvariant, PTL

=============================================================================

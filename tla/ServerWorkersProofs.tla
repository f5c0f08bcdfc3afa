------------------------- MODULE ServerWorkersProofs -------------------------
(***************************************************************************)
(* For every set of Entries, Periods, readers and PATCHes, and every batch *)
(* size, budget and attempt cap: what the Server's workers leave in the    *)
(* database is about the rows as they are, and the flags are the row's.    *)
(***************************************************************************)
EXTENDS ServerWorkers, TLAPS

-----------------------------------------------------------------------------
(* Tables                                                                  *)

LEMMA StoredIsRow ==
  ASSUME NEW pushed \in Row, NEW seq \in Nat
  PROVE  /\ Stored(pushed, seq) \in Row
         /\ Stored(pushed, seq).seq = seq
         /\ Stored(pushed, seq) # NoRow
BY NoRowIsNoRow DEF Stored, Row

LEMMA EmptyTableIsTable == EmptyTable \in Table /\ Held(EmptyTable) = {}
BY DEF EmptyTable, Table, Maybe, Held

LEMMA OnlyIsTable ==
  ASSUME NEW t \in Table, NEW ids
  PROVE  /\ Only(t, ids) \in Table
         /\ Held(Only(t, ids)) = Held(t) \cap ids
         /\ \A id \in Held(Only(t, ids)) : Only(t, ids)[id] = t[id]
BY DEF Only, Table, Maybe, Held

LEMMA HeldRows ==
  ASSUME NEW t \in Table, NEW id \in Held(t)
  PROVE  id \in Ids /\ t[id] \in Row /\ t[id] # NoRow /\ t[id].seq \in Nat
           /\ t[id].body \in Bodies \cup {Blank}
BY DEF Held, Table, Maybe, Row

\* The watermark of a nonempty read is the seq of one of its rows, and none of
\* them is above it.
LEMMA LastOfHeld ==
  ASSUME NEW t \in Table, Held(t) # {}, NEW last \in Last(t, 0)
  PROVE  /\ last \in Nat
         /\ \A id \in Held(t) : t[id].seq <= last
         /\ last = 0 \/ \E id \in Held(t) : t[id].seq = last
BY HeldRows DEF Last

\* A push of one Entry changes what its own Period can read and no other.
LEMMA PushReads ==
  ASSUME TypeOK, NEW id \in Ids, NEW row \in Row, NEW p \in Periods,
         rows' = [rows EXCEPT ![id] = row],
         PeriodOf[id] # p
  PROVE  Readable(p)' = Readable(p)
<1>1. \A e \in Within(p) : e \in Ids /\ e # id /\ rows'[e] = rows[e]
  BY DEF Within, TypeOK, Table
<1>2. Within(p)' = Within(p)
  BY DEF Within
<1>3. \A e \in Within(p) : e \in Live' <=> e \in Live
  BY <1>1 DEF Live, Held
<1>4. QED
  BY <1>1, <1>2, <1>3 DEF Readable, Only

LEMMA PushHolds ==
  ASSUME TypeOK, NEW id \in Ids, NEW row \in Row,
         rows' = [rows EXCEPT ![id] = row]
  PROVE  /\ Held(rows') = Held(rows) \cup {id}
         /\ rows'[id] = row
         /\ \A e \in Ids \ {id} : rows'[e] = rows[e]
BY NoRowIsNoRow DEF TypeOK, Table, Held, Maybe

-----------------------------------------------------------------------------
(* Types                                                                   *)

LEMMA RestIsEmbedder ==
  ASSUME NEW todo \in SUBSET Ids
  PROVE  Rest(todo) \in Embedder /\ Rest(todo).pc # "asked"
BY DEF Rest, AtSelect, Embedder, Maybe

LEMMA NoScanIsScan == NoScan \in ScanState /\ NoScan.pc # "asked"
BY EmptyTableIsTable DEF NoScan, ScanState

LEMMA NoAskIsAsk == NoAsk \in AskState /\ NoAsk.pc # "asked"
BY EmptyTableIsTable DEF NoAsk, AskState

LEMMA OnwardsIsScan ==
  ASSUME scan \in ScanState, NEW left \in Nat
  PROVE  Onwards(left) \in ScanState /\ Onwards(left).pc # "asked"
BY NoScanIsScan, EmptyTableIsTable DEF Onwards, ScanState

LEMMA ReadableIsTable == ASSUME TypeOK, NEW p PROVE Readable(p) \in Table
BY OnlyIsTable DEF Readable, TypeOK

LEMMA WrittenIsRevision ==
  ASSUME NEW read \in Table, Held(read) # {}, NEW covered,
         NEW by \in {"worker", "reader"}, NEW rev \in Written(read, covered, by)
  PROVE  rev \in Revision /\ rev.by = by
<1>1. rev.source \in Nat
  BY LastOfHeld DEF Written, SourceSeq
<1>2. QED
  BY <1>1, OnlyIsTable DEF Written, Revision

LEMMA ResolvedIsFlags == ASSUME NEW row PROVE Resolved(row) \in [Features -> BOOLEAN]
BY DEF Resolved

LEMMA HostIsHost == ASSUME TypeOK PROVE host \in Host
BY HostsAreHosts DEF TypeOK

LEMMA MergeIsSettings ==
  ASSUME NEW row \in Settings, NEW change \in NamedChanges
  PROVE  Merge(row, change) \in Settings
BY DEF Merge, Settings, NamedChanges

LEMMA InitTypeOK == Init => TypeOK
<1> SUFFICES ASSUME Init PROVE TypeOK
  OBVIOUS
<1>1. host \in Host
  BY HostsAreHosts DEF Init
<1>2. stored \in Settings
  BY <1>1 DEF Init, SettingsInit, Host
<1>3. patch \in [Patchers -> PatchState]
  BY <1>2 DEF Init, SettingsInit, PatchState
<1>4. /\ embedder \in Embedder
      /\ embedding \in [Ids -> Bodies \cup {NoVector, Blank}]
      /\ hints \subseteq Ids /\ overtaken \subseteq Ids /\ attempts \in [Ids -> Nat]
  BY DEF Init, EmbeddingInit, AtSelect, Embedder, Maybe
<1>5. /\ today \in Periods
      /\ digests \in [Periods -> Seq(Revision)]
      /\ scan \in ScanState /\ tries \in [Periods -> Nat] /\ ask \in [Asks -> AskState]
  BY NoScanIsScan, NoAskIsAsk, DigestAssumption DEF Init, DigestInit
<1>6. flags \in [Features -> BOOLEAN]
  BY ResolvedIsFlags DEF Init, SettingsInit
<1>7. rows \in Table /\ host \in Hosts /\ nextSeq \in Nat \ {0} /\ restarts \in Nat
  BY EmptyTableIsTable DEF Init
<1>8. QED
  BY <1>2, <1>3, <1>4, <1>5, <1>6, <1>7 DEF TypeOK

LEMMA PushTypeOK ==
  ASSUME TypeOK, NEW id \in Ids, NEW pushed \in host.pushes[id], Push(id, pushed)
  PROVE  TypeOK'
<1>1. host.pushes \in [Ids -> SUBSET Row]
  BY HostIsHost DEF Host
<1>1a. pushed \in Row
  BY <1>1
<1>2. rows' \in Table /\ nextSeq' \in Nat \ {0}
  <2>1. rows \in Table /\ nextSeq \in Nat \ {0}
    BY DEF TypeOK
  <2>2. rows' = [rows EXCEPT ![id] = Stored(pushed, nextSeq)] /\ nextSeq' = nextSeq + 1
    BY DEF Push
  <2>3. Stored(pushed, nextSeq) \in Row
    BY <1>1a, <2>1, StoredIsRow
  <2>4. QED
    BY <2>1, <2>2, <2>3 DEF Table, Maybe
<1>3. /\ embedding' \in [Ids -> Bodies \cup {NoVector, Blank}]
      /\ hints' \subseteq Ids /\ overtaken' \subseteq Ids
      /\ UNCHANGED <<embedder, attempts>>
  BY DEF Push, QueueChanged, TypeOK
<1>4. QED
  BY <1>2, <1>3 DEF Push, TypeOK, digestVars, settingsVars

LEMMA EmbedTypeOK == ASSUME TypeOK, BodyAsRead, Embed PROVE TypeOK'
<1> SUFFICES /\ embedding' \in [Ids -> Bodies \cup {NoVector, Blank}]
             /\ hints' \subseteq Ids /\ embedder' \in Embedder
             /\ attempts' \in [Ids -> Nat] /\ overtaken' \subseteq Ids
  BY DEF Embed, TypeOK, digestVars, settingsVars
<1> USE RestIsEmbedder
<1>0. /\ rows \in Table /\ embedding \in [Ids -> Bodies \cup {NoVector, Blank}]
      /\ hints \subseteq Ids /\ embedder \in Embedder /\ embedder.todo \subseteq Ids
      /\ attempts \in [Ids -> Nat] /\ overtaken \subseteq Ids
  BY DEF TypeOK, Embedder
<1>1. ASSUME NEW id \in Ids, TakeHint(id)
      PROVE  /\ embedder' \in Embedder /\ hints' \subseteq Ids
             /\ UNCHANGED <<embedding, attempts, overtaken>>
  BY <1>0, <1>1 DEF TakeHint
<1>2. ASSUME NEW id \in Ids, LoadBody(id)
      PROVE  embedder' \in Embedder /\ UNCHANGED <<embedding, hints, attempts, overtaken>>
  <2>1. embedder.todo \ {id} \subseteq Ids
    BY <1>0
  <2>2. CASE attempts[id] < MaxAttempts /\ id \in Unembedded
    <3>1. id \in Held(rows)
      BY <2>2 DEF Unembedded, Live
    <3>2. rows[id].body \in Bodies \cup {Blank} /\ rows[id].seq \in Nat
      BY <1>0, <3>1, HeldRows
    <3>3. QED
      BY <1>2, <2>1, <2>2, <3>2 DEF LoadBody, Embedder, Maybe
  <2>3. CASE ~(attempts[id] < MaxAttempts /\ id \in Unembedded)
    BY <1>2, <2>1, <2>3 DEF LoadBody
  <2>4. QED
    BY <2>2, <2>3
<1>3. ASSUME NEW id \in Ids, LoadFails(id)
      PROVE  /\ embedder' \in Embedder /\ attempts' \in [Ids -> Nat]
             /\ UNCHANGED <<embedding, hints, overtaken>>
  <2>1. embedder.todo \ {id} \subseteq Ids
    BY <1>0
  <2>2. QED
    BY <1>0, <1>3, <2>1 DEF LoadFails
<1>4. ASSUME Scan
      PROVE  embedder' \in Embedder /\ UNCHANGED <<embedding, hints, attempts, overtaken>>
  <2>1. ScanResult \subseteq Ids
    BY DEF ScanResult, Unembedded, Live, Held
  <2>2. QED
    BY <1>4, <2>1 DEF Scan
<1>5. ASSUME StoreVector
      PROVE  /\ embedding' \in [Ids -> Bodies \cup {NoVector, Blank}]
             /\ embedder' \in Embedder /\ attempts' \in [Ids -> Nat]
             /\ overtaken' \subseteq Ids /\ hints' = hints
  <2>1. embedder.body \in Bodies \cup {Blank}
    BY <1>0 DEF Embedder
  <2>2. embedder.id \in Ids
    BY <1>5 DEF StoreVector, BodyAsRead, Held
  <2>3. Rest(embedder.todo) \in Embedder
    BY <1>0
  <2>4. QED
    BY <1>0, <1>5, <2>1, <2>2, <2>3 DEF StoreVector
<1>6. ASSUME EmbedFails
      PROVE  /\ embedder' \in Embedder /\ attempts' \in [Ids -> Nat]
             /\ UNCHANGED <<embedding, hints, overtaken>>
  <2>1. embedder.id \in Ids
    BY <1>6 DEF EmbedFails, BodyAsRead, Held
  <2>2. QED
    BY <1>0, <1>6, <2>1 DEF EmbedFails
<1>7. QED
  BY <1>0, <1>1, <1>2, <1>3, <1>4, <1>5, <1>6 DEF Embed, EmbedStep

LEMMA DigestTypeOK == ASSUME TypeOK, BudgetLeft, ReadsHold, Digest PROVE TypeOK'
<1> SUFFICES /\ today' \in Periods /\ digests' \in [Periods -> Seq(Revision)]
             /\ scan' \in ScanState /\ tries' \in [Periods -> Nat]
             /\ ask' \in [Asks -> AskState]
  BY DEF Digest, TypeOK, embeddingVars, settingsVars
<1>0. /\ today \in Periods /\ digests \in [Periods -> Seq(Revision)]
      /\ scan \in ScanState /\ tries \in [Periods -> Nat] /\ ask \in [Asks -> AskState]
      /\ \A p : Readable(p) \in Table
  BY ReadableIsTable DEF TypeOK
<1> USE <1>0
<1>1. CASE Midnight
  BY <1>1 DEF Midnight
<1>2. CASE Tick
  <2>1. Starts \subseteq Periods
    BY DEF Starts, Eligible
  <2>2. QED
    BY <1>2, <2>1, DigestAssumption, EmptyTableIsTable DEF Tick, NoScan, ScanState
<1>3. CASE WriteDigest
  <2>1. scan.period \in Periods /\ scan.read \in Table /\ Held(scan.read) # {}
    BY <1>3, DigestAssumption DEF WriteDigest, ReadsHold, ReadHolds, ScanState, Within, Held
  <2>2. PICK covered \in SUBSET Held(scan.read) \ {{}} :
          \E rev \in Written(scan.read, covered, "worker") : InsertFirst(scan.period, rev)
    BY <1>3 DEF WriteDigest
  <2>3. PICK rev \in Written(scan.read, covered, "worker") : InsertFirst(scan.period, rev)
    BY <2>2
  <2>4. rev \in Revision
    BY <2>1, WrittenIsRevision
  <2>5. digests' \in [Periods -> Seq(Revision)]
    BY <2>1, <2>3, <2>4 DEF InsertFirst
  <2>6. scan' \in ScanState
    <3>1. scan.left \in Nat \ {0}
      BY <1>3 DEF WriteDigest, BudgetLeft, ScanState
    <3>2. QED
      BY <1>3, <3>1, OnwardsIsScan DEF WriteDigest
  <2>7. QED
    BY <1>3, <2>1, <2>5, <2>6 DEF WriteDigest
<1>4. CASE DigestFails
  <2>1. scan.period \in Periods /\ scan.left \in Nat
    BY <1>4, DigestAssumption DEF DigestFails, ReadsHold, ReadHolds, ScanState, Within, Held
  <2>2. QED
    BY <1>4, <2>1, OnwardsIsScan DEF DigestFails
<1>5. ASSUME NEW p \in Periods, ReadPeriod(p)
      PROVE  scan' \in ScanState /\ UNCHANGED <<today, digests, tries, ask>>
  BY <1>5, NoScanIsScan DEF ReadPeriod, ScanState
<1>6. ASSUME NEW p \in Periods, ReadFails(p)
      PROVE  /\ scan' \in ScanState /\ tries' \in [Periods -> Nat]
             /\ UNCHANGED <<today, digests, ask>>
  <2>1. [scan EXCEPT !.todo = @ \ {p}] \in ScanState
    BY DEF ScanState
  <2>2. tries[p] + 1 \in Nat
    OBVIOUS
  <2>3. QED
    BY <1>6, <2>1, <2>2, NoScanIsScan DEF ReadFails
<1>7. ASSUME NEW a \in Asks, NEW p \in Periods, Regenerate(a, p)
      PROVE  ask' \in [Asks -> AskState] /\ UNCHANGED <<today, digests, scan, tries>>
  BY <1>7 DEF Regenerate, AskState
<1>8. ASSUME NEW a \in Asks, WriteRevision(a)
      PROVE  /\ digests' \in [Periods -> Seq(Revision)] /\ ask' \in [Asks -> AskState]
             /\ UNCHANGED <<today, scan, tries>>
  <2>1. ask[a].period \in Periods /\ ask[a].read \in Table /\ Held(ask[a].read) # {}
    BY <1>8, DigestAssumption DEF WriteRevision, ReadsHold, ReadHolds, AskState, Within, Held
  <2>2. PICK covered \in SUBSET Held(ask[a].read) \ {{}} :
          \E rev \in Written(ask[a].read, covered, "reader") :
            digests' = [digests EXCEPT ![ask[a].period] = Append(@, rev)]
    BY <1>8 DEF WriteRevision
  <2>3. PICK rev \in Written(ask[a].read, covered, "reader") :
          digests' = [digests EXCEPT ![ask[a].period] = Append(@, rev)]
    BY <2>2
  <2>4. rev \in Revision
    BY <2>1, WrittenIsRevision
  <2>5. digests' \in [Periods -> Seq(Revision)]
    BY <2>1, <2>3, <2>4
  <2>6. QED
    BY <1>8, <2>5, NoAskIsAsk DEF WriteRevision
<1>9. ASSUME NEW a \in Asks, RegenerateFails(a)
      PROVE  ask' \in [Asks -> AskState] /\ UNCHANGED <<today, digests, scan, tries>>
  BY <1>9, NoAskIsAsk DEF RegenerateFails
<1>10. QED
  BY <1>1, <1>2, <1>3, <1>4, <1>5, <1>6, <1>7, <1>8, <1>9 DEF Digest, DigestStep

LEMMA PatchTypeOK == ASSUME TypeOK, Patch PROVE TypeOK'
<1> SUFFICES /\ stored' \in Settings /\ flags' \in [Features -> BOOLEAN]
             /\ patch' \in [Patchers -> PatchState]
  BY DEF Patch, TypeOK, embeddingVars, digestVars
<1>0. /\ stored \in Settings /\ flags \in [Features -> BOOLEAN]
      /\ patch \in [Patchers -> PatchState]
      /\ host.changes \subseteq NamedChanges
  BY HostIsHost DEF TypeOK, Host
<1> USE <1>0
<1>1. ASSUME NEW p \in Patchers, NEW change \in host.changes, LoadStored(p, change)
      PROVE  patch' \in [Patchers -> PatchState] /\ UNCHANGED <<stored, flags>>
  <2>1. Merge(stored, change) \in Settings
    BY MergeIsSettings
  <2>2. QED
    BY <1>1, <2>1 DEF LoadStored, PatchState
<1>2. ASSUME NEW p \in Patchers, Upsert(p) \/ ApplyFlags(p) \/ PatchFails(p)
      PROVE  /\ stored' \in Settings /\ flags' \in [Features -> BOOLEAN]
             /\ patch' \in [Patchers -> PatchState]
  BY <1>2, ResolvedIsFlags DEF Upsert, ApplyFlags, PatchFails, PatchState
<1>3. QED
  BY <1>1, <1>2 DEF Patch, SettingsStep

LEMMA RestartTypeOK == ASSUME TypeOK, Restart PROVE TypeOK'
<1>1. embedder' \in Embedder /\ hints' \subseteq Ids /\ attempts' \in [Ids -> Nat]
  BY DEF Restart, EmbeddingRestart, AtSelect, Embedder, Maybe
<1>2. scan' \in ScanState /\ tries' \in [Periods -> Nat] /\ ask' \in [Asks -> AskState]
  BY NoScanIsScan, NoAskIsAsk DEF Restart, DigestRestart
<1>3. flags' \in [Features -> BOOLEAN]
  BY ResolvedIsFlags DEF Restart, SettingsRestart
<1>4. patch' \in [Patchers -> PatchState]
  <2>1. patch \in [Patchers -> PatchState]
    BY DEF TypeOK
  <2>2. QED
    BY <2>1 DEF Restart, SettingsRestart, PatchState
<1>5. /\ UNCHANGED <<rows, nextSeq, host, embedding, overtaken, today, digests, stored>>
      /\ restarts' = restarts + 1
  BY DEF Restart, EmbeddingRestart, DigestRestart, SettingsRestart
<1>6. QED
  BY <1>1, <1>2, <1>3, <1>4, <1>5 DEF TypeOK

-----------------------------------------------------------------------------
(* What the embedding worker's answers are about                           *)

LEMMA PushVectors ==
  ASSUME IInv, NEW id \in Ids, NEW pushed \in host.pushes[id], Push(id, pushed)
  PROVE  RowsDrawn' /\ BodyAsRead' /\ VectorsAreCurrent'
<1> DEFINE row == Stored(pushed, nextSeq)
<1>1. /\ TypeOK /\ nextSeq \in Nat \ {0} /\ nextSeq' = nextSeq + 1
      /\ embedder' = embedder /\ rows' = [rows EXCEPT ![id] = row]
      /\ RowsDrawn /\ BodyAsRead /\ VectorsAreCurrent
  BY DEF IInv, TypeOK, Push, QueueChanged
<1>2. pushed \in Row
  <2>1. host.pushes \in [Ids -> SUBSET Row]
    BY <1>1, HostIsHost DEF Host
  <2>2. QED
    BY <2>1
<1>3. row \in Row /\ row.seq = nextSeq
  BY <1>1, <1>2, StoredIsRow
<1> HIDE DEF row
<1>4. /\ Held(rows') = Held(rows) \cup {id} /\ rows'[id] = row
      /\ \A e \in Ids \ {id} : rows'[e] = rows[e]
  BY <1>1, <1>3, PushHolds
<1>5. RowsDrawn'
  <2> SUFFICES ASSUME NEW e \in Held(rows') PROVE rows'[e].seq \in 1 .. nextSeq' - 1
    BY DEF RowsDrawn
  <2>1. e = id \/ (e \in Held(rows) /\ rows'[e] = rows[e])
    BY <1>4 DEF Held
  <2>2. QED
    BY <1>1, <1>3, <1>4, <2>1 DEF RowsDrawn
<1>6. BodyAsRead'
  <2> SUFFICES ASSUME embedder.pc = "asked"
               PROVE  /\ embedder.id \in Held(rows') /\ embedder.seq < nextSeq'
                      /\ rows'[embedder.id].seq = embedder.seq =>
                           rows'[embedder.id].body = embedder.body
    BY <1>1 DEF BodyAsRead
  <2>1. embedder.seq \in Nat
    BY <1>1 DEF TypeOK, Embedder
  <2>2. /\ embedder.id \in Held(rows) /\ embedder.seq < nextSeq
        /\ rows[embedder.id].seq = embedder.seq => rows[embedder.id].body = embedder.body
    BY <1>1 DEF BodyAsRead
  <2>3. QED
    BY <1>1, <1>3, <1>4, <2>1, <2>2 DEF Held
<1>7. VectorsAreCurrent'
  <2> SUFFICES ASSUME NEW e \in Live' \ overtaken'
               PROVE  embedding'[e] \in {NoVector, rows'[e].body}
    BY DEF VectorsAreCurrent
  <2>1. /\ embedding' = [embedding EXCEPT ![id] = NoVector]
        /\ overtaken' = overtaken \ {id}
        /\ embedding \in [Ids -> Bodies \cup {NoVector, Blank}]
    BY <1>1 DEF Push, QueueChanged, TypeOK
  <2>2. CASE e = id
    BY <2>1, <2>2
  <2>3. CASE e # id
    <3>1. e \in Ids /\ e \in Live /\ e \notin overtaken /\ rows'[e] = rows[e]
      BY <1>4, <2>1, <2>3 DEF Live, Held
    <3>2. QED
      BY <1>1, <2>1, <2>3, <3>1 DEF VectorsAreCurrent
  <2>4. QED
    BY <2>2, <2>3
<1>8. QED
  BY <1>5, <1>6, <1>7

LEMMA EmbedVectors ==
  ASSUME IInv, Embed
  PROVE  RowsDrawn' /\ BodyAsRead' /\ VectorsAreCurrent'
<1>1. /\ TypeOK /\ RowsDrawn /\ BodyAsRead /\ VectorsAreCurrent
      /\ rows' = rows /\ nextSeq' = nextSeq
      /\ nextSeq \in Nat /\ rows \in Table /\ embedder \in Embedder
      /\ embedding \in [Ids -> Bodies \cup {NoVector, Blank}]
  BY DEF IInv, TypeOK, Embed
<1> USE <1>1
<1>2. RowsDrawn'
  BY DEF RowsDrawn
<1>3. ASSUME embedder'.pc # "asked", embedding' = embedding, overtaken' = overtaken
      PROVE  BodyAsRead' /\ VectorsAreCurrent'
  BY <1>3 DEF BodyAsRead, VectorsAreCurrent, Live
<1>4. ASSUME NEW id \in Ids, TakeHint(id)
      PROVE  BodyAsRead' /\ VectorsAreCurrent'
  <2>1. embedder'.pc # "asked"
    BY <1>4, RestIsEmbedder DEF TakeHint
  <2>2. QED
    BY <1>3, <1>4, <2>1 DEF TakeHint
<1>5. ASSUME NEW id \in Ids, LoadBody(id)
      PROVE  BodyAsRead' /\ VectorsAreCurrent'
  <2>1. CASE attempts[id] < MaxAttempts /\ id \in Unembedded
    <3>1. id \in Held(rows)
      BY <2>1 DEF Unembedded, Live
    <3>2. rows[id].seq < nextSeq
      BY <3>1, HeldRows DEF RowsDrawn
    <3>3. embedder'.id = id /\ embedder'.seq = rows[id].seq /\ embedder'.body = rows[id].body
      BY <1>5, <2>1 DEF LoadBody
    <3>4. QED
      BY <1>5, <3>1, <3>2, <3>3 DEF LoadBody, BodyAsRead, VectorsAreCurrent, Live
  <2>2. CASE ~(attempts[id] < MaxAttempts /\ id \in Unembedded)
    <3>1. embedder' = Rest(embedder.todo \ {id})
      BY <1>5, <2>2 DEF LoadBody
    <3>2. embedder'.pc # "asked"
      BY <3>1, RestIsEmbedder DEF Embedder
    <3>3. QED
      BY <1>3, <1>5, <3>2 DEF LoadBody
  <2>3. QED
    BY <2>1, <2>2
<1>6. ASSUME NEW id \in Ids, LoadFails(id)
      PROVE  BodyAsRead' /\ VectorsAreCurrent'
  <2>1. embedder'.pc # "asked"
    BY <1>6, RestIsEmbedder DEF LoadFails, Embedder
  <2>2. QED
    BY <1>3, <1>6, <2>1 DEF LoadFails
<1>7. ASSUME Scan
      PROVE  BodyAsRead' /\ VectorsAreCurrent'
  <2>1. ScanResult \subseteq Ids
    BY DEF ScanResult, Unembedded, Live, Held
  <2>2. embedder'.pc # "asked"
    BY <1>7, <2>1, RestIsEmbedder DEF Scan
  <2>3. QED
    BY <1>3, <1>7, <2>2 DEF Scan
<1>8. ASSUME StoreVector
      PROVE  BodyAsRead' /\ VectorsAreCurrent'
  <2>1. embedder'.pc # "asked"
    BY <1>8, RestIsEmbedder DEF StoreVector, Embedder
  <2>2. BodyAsRead'
    BY <2>1 DEF BodyAsRead
  <2>3. /\ embedding' = [embedding EXCEPT ![embedder.id] = embedder.body]
        /\ overtaken' = IF rows[embedder.id].seq = embedder.seq
                          THEN overtaken ELSE overtaken \cup {embedder.id}
        /\ rows[embedder.id].seq = embedder.seq => rows[embedder.id].body = embedder.body
    BY <1>8 DEF StoreVector, BodyAsRead
  <2>4. ASSUME NEW e \in Live \ overtaken'
        PROVE  embedding'[e] \in {NoVector, rows[e].body}
    <3>1. e \in Ids /\ e \in Live \ overtaken
      BY <2>3, <2>4 DEF Live, Held
    <3>2. CASE e = embedder.id
      BY <2>3, <2>4, <3>1, <3>2
    <3>3. CASE e # embedder.id
      BY <2>3, <3>1, <3>3 DEF VectorsAreCurrent
    <3>4. QED
      BY <3>2, <3>3
  <2>5. QED
    BY <2>2, <2>4 DEF VectorsAreCurrent, Live
<1>9. ASSUME EmbedFails
      PROVE  BodyAsRead' /\ VectorsAreCurrent'
  <2>1. embedder'.pc # "asked"
    BY <1>9, RestIsEmbedder DEF EmbedFails, Embedder
  <2>2. QED
    BY <1>3, <1>9, <2>1 DEF EmbedFails
<1>10. QED
  BY <1>2, <1>4, <1>5, <1>6, <1>7, <1>8, <1>9 DEF Embed, EmbedStep

-----------------------------------------------------------------------------
(* What the Digests are about                                              *)

\* What a push does to the table, as the lemmas below need it.
PushedRow(id, row) ==
  /\ row \in Row /\ row.seq = nextSeq /\ nextSeq' = nextSeq + 1
  /\ rows' = [rows EXCEPT ![id] = row]

LEMMA PushIsOneRow ==
  ASSUME TypeOK, NEW id \in Ids, NEW pushed \in host.pushes[id], Push(id, pushed)
  PROVE  PushedRow(id, Stored(pushed, nextSeq))
<1>1. host.pushes \in [Ids -> SUBSET Row] /\ nextSeq \in Nat
  BY HostIsHost DEF Host, TypeOK
<1>2. pushed \in Row
  BY <1>1
<1>3. QED
  BY <1>1, <1>2, StoredIsRow DEF PushedRow, Push

LEMMA PushKeepsRead ==
  ASSUME TypeOK, NEW id \in Ids, NEW row, PushedRow(id, row),
         NEW p \in Periods, NEW read \in Table, ReadHolds(p, read)
  PROVE  ReadHolds(p, read)'
<1>1. /\ row \in Row /\ row.seq = nextSeq /\ nextSeq' = nextSeq + 1 /\ nextSeq \in Nat
      /\ rows' = [rows EXCEPT ![id] = row]
  BY DEF PushedRow, TypeOK
<1>2. /\ Held(rows') = Held(rows) \cup {id} /\ rows'[id] = row
      /\ \A e \in Ids \ {id} : rows'[e] = rows[e]
  BY <1>1, PushHolds
<1>3. \A e \in Held(read) : read[e].seq \in 1 .. nextSeq - 1
  BY DEF ReadHolds
<1>4. Within(p)' = Within(p)
  BY DEF Within
<1>5. read = Readable(p)' \/ Outdated(p, read)'
  <2>1. CASE PeriodOf[id] = p
    <3>1. id \in Within(p) /\ id \in Held(rows')
      BY <1>2, <2>1 DEF Within
    <3>2. \A e \in Held(read) : rows'[id].seq > read[e].seq
      BY <1>1, <1>2, <1>3
    <3>3. QED
      BY <1>4, <3>1, <3>2 DEF Outdated
  <2>2. CASE PeriodOf[id] # p
    <3>1. Readable(p)' = Readable(p)
      BY <1>1, <2>2, PushReads
    <3>2. ASSUME Outdated(p, read)
          PROVE  Outdated(p, read)'
      <4>1. PICK e \in Within(p) \cap Held(rows) :
              \A other \in Held(read) : rows[e].seq > read[other].seq
        BY <3>2 DEF Outdated
      <4>2. e # id /\ e \in Ids
        BY <2>2, <4>1 DEF Within
      <4>3. rows'[e] = rows[e] /\ e \in Held(rows')
        BY <1>2, <4>1, <4>2
      <4>4. QED
        BY <1>4, <4>1, <4>3 DEF Outdated
    <3>3. QED
      BY <3>1, <3>2 DEF ReadHolds
  <2>3. QED
    BY <2>1, <2>2
<1>6. \A e \in Held(read) : read[e].seq \in 1 .. nextSeq' - 1
  BY <1>1, <1>3
<1>7. QED
  BY <1>2, <1>4, <1>5, <1>6 DEF ReadHolds

LEMMA PushKeepsRevision ==
  ASSUME TypeOK, NEW id \in Ids, NEW row, PushedRow(id, row),
         NEW p \in Periods, NEW rev \in Revision, RevisionHolds(p, rev)
  PROVE  RevisionHolds(p, rev)'
<1>1. /\ row \in Row /\ row.seq = nextSeq /\ nextSeq' = nextSeq + 1 /\ nextSeq \in Nat
      /\ rows' = [rows EXCEPT ![id] = row] /\ rev.source \in Nat /\ rev.source < nextSeq
  BY DEF PushedRow, TypeOK, Revision, RevisionHolds
<1>2. /\ Held(rows') = Held(rows) \cup {id} /\ rows'[id] = row
      /\ \A e \in Ids \ {id} : rows'[e] = rows[e]
  BY <1>1, PushHolds
<1>3. Within(p)' = Within(p)
  BY DEF Within
<1>4. CASE PeriodOf[id] = p
  <2>1. id \in Within(p) /\ id \in Held(rows') /\ rows'[id].seq > rev.source
    BY <1>1, <1>2, <1>4 DEF Within
  <2>2. QED
    BY <1>1, <1>3, <2>1 DEF RevisionHolds, IsStale
<1>5. CASE PeriodOf[id] # p
  <2>1. Readable(p)' = Readable(p)
    BY <1>1, <1>5, PushReads
  <2>2. ASSUME IsStale(p, rev)
        PROVE  IsStale(p, rev)'
    <3>1. PICK e \in Within(p) \cap Held(rows) : rows[e].seq > rev.source
      BY <2>2 DEF IsStale
    <3>2. e # id /\ e \in Ids
      BY <1>5, <3>1 DEF Within
    <3>3. rows'[e] = rows[e] /\ e \in Held(rows')
      BY <1>2, <3>1, <3>2
    <3>4. QED
      BY <1>3, <3>1, <3>3 DEF IsStale
  <2>3. QED
    BY <1>1, <2>1, <2>2 DEF RevisionHolds
<1>6. QED
  BY <1>4, <1>5

LEMMA ReadHoldsWhenRead ==
  ASSUME TypeOK, RowsDrawn, NEW p, Held(Readable(p)) # {}
  PROVE  ReadHolds(p, Readable(p))
<1>1. /\ Held(Readable(p)) = Held(rows) \cap (Within(p) \cap Live)
      /\ \A e \in Held(Readable(p)) : Readable(p)[e] = rows[e]
  BY OnlyIsTable DEF Readable, TypeOK
<1>2. QED
  BY <1>1 DEF ReadHolds, RowsDrawn

LEMMA WrittenHolds ==
  ASSUME TypeOK, RowsDrawn, NEW p \in Periods, NEW read \in Table, ReadHolds(p, read),
         NEW covered \in SUBSET Held(read) \ {{}}, NEW by,
         NEW rev \in Written(read, covered, by)
  PROVE  RevisionHolds(p, rev)
<1>1. /\ Held(read) # {} /\ Held(read) \subseteq Within(p) \cap Held(rows)
      /\ \A e \in Held(read) : read[e].seq \in 1 .. nextSeq - 1
      /\ read = Readable(p) \/ Outdated(p, read)
      /\ nextSeq \in Nat \ {0}
  BY DEF ReadHolds, TypeOK
<1>2. rev.source \in SourceSeq(read, covered) /\ rev.read = Only(read, covered)
  BY DEF Written
<1>3. CASE covered = Held(read)
  <2>1. rev.source \in Last(read, 0)
    BY <1>2, <1>3 DEF SourceSeq
  <2>2. PICK e \in Held(read) : read[e].seq = rev.source
    <3>1. /\ \A e \in Held(read) : read[e].seq <= rev.source
          /\ rev.source = 0 \/ \E e \in Held(read) : read[e].seq = rev.source
      BY <1>1, <2>1, LastOfHeld
    <3>2. rev.source # 0
      BY <1>1, <3>1
    <3>3. QED
      BY <3>1, <3>2
  <2>3. rev.read = read
    BY <1>2, <1>3 DEF Only, Held, Table
  <2>4. Outdated(p, read) => IsStale(p, rev)
    BY <2>2 DEF Outdated, IsStale
  <2>5. QED
    BY <1>1, <2>2, <2>3, <2>4 DEF RevisionHolds
<1>4. CASE covered # Held(read)
  <2>1. rev.source = 0
    BY <1>2, <1>4 DEF SourceSeq
  <2>2. PICK e \in Held(read) : TRUE
    BY <1>1
  <2>3. e \in Within(p) \cap Held(rows) /\ rows[e].seq > 0
    BY <1>1, <2>2 DEF RowsDrawn
  <2>4. QED
    BY <1>1, <2>1, <2>3 DEF RevisionHolds, IsStale
<1>5. QED
  BY <1>3, <1>4

\* A push reads or writes no Digest and ends no call; what it changes, the
\* calls in flight and the revisions written are still true of.
LEMMA PushDigests ==
  ASSUME IInv, NEW id \in Ids, NEW pushed \in host.pushes[id], Push(id, pushed)
  PROVE  BudgetLeft' /\ ReadsHold' /\ RevisionsHold' /\ WorkerWritesFirst'
<1>1. /\ TypeOK /\ BudgetLeft /\ ReadsHold /\ RevisionsHold /\ WorkerWritesFirst
      /\ scan' = scan /\ ask' = ask /\ digests' = digests
  BY DEF IInv, Push, digestVars
<1>2. /\ scan \in ScanState /\ ask \in [Asks -> AskState]
      /\ digests \in [Periods -> Seq(Revision)]
  BY <1>1 DEF TypeOK
<1>3. PICK row : PushedRow(id, row)
  BY <1>1, PushIsOneRow
<1>4. ASSUME NEW p, NEW read \in Table, ReadHolds(p, read)
      PROVE  ReadHolds(p, read)'
  <2>1. p \in Periods
    BY <1>4, DigestAssumption DEF ReadHolds, Within
  <2>2. QED
    BY <1>1, <1>3, <1>4, <2>1, PushKeepsRead
<1>5. ReadsHold'
  <2>1. ASSUME scan.pc = "asked"
        PROVE  ReadHolds(scan.period, scan.read)'
    <3>1. PICK p \in Periods \cup {0}, read \in Table : p = scan.period /\ read = scan.read
      BY <1>2 DEF ScanState
    <3>2. ReadHolds(p, read)'
      BY <1>1, <1>4, <2>1, <3>1 DEF ReadsHold
    <3>3. scan'.period = p /\ scan'.read = read
      BY <1>1, <3>1
    <3>4. QED
      BY <3>2, <3>3 DEF ReadHolds, Outdated, Readable, Within
  <2>2. ASSUME NEW a \in Asks, ask[a].pc = "asked"
        PROVE  ReadHolds(ask[a].period, ask[a].read)'
    <3>1. PICK p \in Periods \cup {0}, read \in Table : p = ask[a].period /\ read = ask[a].read
      BY <1>2 DEF AskState
    <3>2. ReadHolds(p, read)'
      BY <1>1, <1>4, <2>2, <3>1 DEF ReadsHold
    <3>3. ask'[a].period = p /\ ask'[a].read = read
      BY <1>1, <3>1
    <3>4. QED
      BY <3>2, <3>3 DEF ReadHolds, Outdated
  <2>3. QED
    BY <1>1, <2>1, <2>2 DEF ReadsHold
<1>6. RevisionsHold'
  <2> SUFFICES ASSUME NEW p \in Periods, NEW i \in DOMAIN digests[p]
               PROVE  RevisionHolds(p, digests[p][i])'
    BY <1>1 DEF RevisionsHold
  <2>1. PICK rev \in Revision : rev = digests[p][i]
    BY <1>2
  <2>2. RevisionHolds(p, rev)'
    BY <1>1, <1>3, <2>1, PushKeepsRevision DEF RevisionsHold
  <2>3. digests'[p][i] = rev
    BY <1>1, <2>1
  <2>4. QED
    BY <2>2, <2>3 DEF RevisionHolds, IsStale
<1>7. QED
  BY <1>1, <1>5, <1>6 DEF BudgetLeft, WorkerWritesFirst

\* With the table as it was, what was true of a read or a revision still is.
LEMMA ReadKept ==
  ASSUME rows' = rows, nextSeq' = nextSeq
  PROVE  /\ \A p, read : ReadHolds(p, read)' <=> ReadHolds(p, read)
         /\ \A p, rev : RevisionHolds(p, rev)' <=> RevisionHolds(p, rev)
         /\ \A p : Readable(p)' = Readable(p)
BY DEF ReadHolds, Outdated, Readable, Only, Within, Live, Held, RevisionHolds, IsStale

\* A step that leaves the table alone and inserts nothing.
LEMMA DigestsKept ==
  ASSUME IInv, rows' = rows, nextSeq' = nextSeq, digests' = digests
  PROVE  RevisionsHold' /\ WorkerWritesFirst'
<1>1. ASSUME NEW p \in Periods, NEW i \in DOMAIN digests[p]
      PROVE  RevisionHolds(p, digests[p][i])'
  <2>1. PICK rev : rev = digests[p][i]
    OBVIOUS
  <2>2. RevisionHolds(p, rev)'
    BY <2>1, ReadKept DEF IInv, RevisionsHold
  <2>3. digests'[p][i] = rev
    BY <2>1
  <2>4. QED
    BY <2>2, <2>3 DEF RevisionHolds, IsStale
<1>2. QED
  BY <1>1 DEF IInv, RevisionsHold, WorkerWritesFirst

\* A step that leaves the table alone and starts no call of the scan, ...
LEMMA ScanKept ==
  ASSUME IInv, rows' = rows, nextSeq' = nextSeq, scan' = scan \/ scan'.pc # "asked",
         scan'.pc = "asked"
  PROVE  ReadHolds(scan.period, scan.read)'
<1>1. PICK p, read : p = scan.period /\ read = scan.read
  OBVIOUS
<1>2. ReadHolds(p, read)'
  BY <1>1, ReadKept DEF IInv, ReadsHold
<1>3. scan'.period = p /\ scan'.read = read
  BY <1>1
<1>4. QED
  BY <1>2, <1>3 DEF ReadHolds, Outdated, Readable, Within

\* ... or none of this request.
LEMMA AskKept ==
  ASSUME IInv, rows' = rows, nextSeq' = nextSeq, NEW a \in Asks,
         ask'[a] = ask[a] \/ ask'[a].pc # "asked", ask'[a].pc = "asked"
  PROVE  ReadHolds(ask[a].period, ask[a].read)'
<1>1. PICK p, read : p = ask[a].period /\ read = ask[a].read
  OBVIOUS
<1>2. ReadHolds(p, read)'
  BY <1>1, ReadKept DEF IInv, ReadsHold
<1>3. ask'[a].period = p /\ ask'[a].read = read
  BY <1>1
<1>4. QED
  BY <1>2, <1>3 DEF ReadHolds, Outdated, Readable, Within

LEMMA OnwardsKeepsBudget ==
  ASSUME NEW left \in Nat, Onwards(left).pc # "idle"
  PROVE  scan \in ScanState => Onwards(left).left > 0
BY DEF Onwards, NoScan, ScanState

\* One insert: the revision holds, and a worker's is the first.
LEMMA InsertDigests ==
  ASSUME IInv, rows' = rows, nextSeq' = nextSeq,
         NEW p \in Periods, NEW rev \in Revision, RevisionHolds(p, rev),
         \/ InsertFirst(p, rev)
         \/ rev.by = "reader" /\ digests' = [digests EXCEPT ![p] = Append(@, rev)]
  PROVE  RevisionsHold' /\ WorkerWritesFirst'
<1>1. digests \in [Periods -> Seq(Revision)]
  BY DEF IInv, TypeOK
<1>2. ASSUME NEW q \in Periods, NEW i \in DOMAIN digests'[q]
      PROVE  \/ i \in DOMAIN digests[q] /\ digests'[q][i] = digests[q][i]
             \/ q = p /\ digests'[q][i] = rev /\ (rev.by = "reader" \/ i = 1)
  <2>1. CASE InsertFirst(p, rev)
    BY <1>1, <1>2, <2>1 DEF InsertFirst
  <2>2. CASE rev.by = "reader" /\ digests' = [digests EXCEPT ![p] = Append(@, rev)]
    <3>1. CASE q = p
      <4>1. digests'[q] = Append(digests[q], rev) /\ digests[q] \in Seq(Revision)
        BY <1>1, <2>2, <3>1
      <4>2. i \in 1 .. Len(digests[q]) + 1
        BY <1>2, <4>1
      <4>3. QED
        BY <2>2, <3>1, <4>1, <4>2
    <3>2. CASE q # p
      BY <1>1, <1>2, <2>2, <3>2
    <3>3. QED
      BY <3>1, <3>2
  <2>3. QED
    BY <2>1, <2>2
<1>3. WorkerWritesFirst'
  BY <1>2 DEF IInv, WorkerWritesFirst
<1>4. ASSUME NEW q \in Periods, NEW i \in DOMAIN digests'[q]
      PROVE  RevisionHolds(q, digests[q][i])'
  <2>1. PICK other : other = digests'[q][i]
    OBVIOUS
  <2>2. RevisionHolds(q, other)
    BY <1>2, <2>1 DEF IInv, RevisionsHold
  <2>3. RevisionHolds(q, other)'
    BY <2>2, ReadKept
  <2>4. QED
    BY <2>1, <2>3 DEF RevisionHolds, IsStale
<1>5. QED
  BY <1>3, <1>4 DEF RevisionsHold

LEMMA DigestDigests ==
  ASSUME IInv, Digest
  PROVE  BudgetLeft' /\ ReadsHold' /\ RevisionsHold' /\ WorkerWritesFirst'
<1>1. /\ TypeOK /\ RowsDrawn /\ BudgetLeft /\ ReadsHold
      /\ rows' = rows /\ nextSeq' = nextSeq
      /\ scan \in ScanState /\ ask \in [Asks -> AskState]
  BY DEF IInv, TypeOK, Digest
<1> DEFINE ScanOK == BudgetLeft' /\ (scan'.pc = "asked" => ReadHolds(scan.period, scan.read)')
           AskOK == \A a \in Asks : ask'[a].pc = "asked" => ReadHolds(ask[a].period, ask[a].read)'
           DigestsOK == RevisionsHold' /\ WorkerWritesFirst'
<1> SUFFICES ScanOK /\ AskOK /\ DigestsOK
  BY DEF ReadsHold
<1>2. /\ scan' = scan => ScanOK
      /\ ask' = ask => AskOK
      /\ digests' = digests => DigestsOK
  BY <1>1, ScanKept, AskKept, DigestsKept DEF BudgetLeft
<1>3. (scan'.pc # "idle" => scan'.left > 0) /\ scan'.pc # "asked" => ScanOK
  BY DEF BudgetLeft
<1>4. ASSUME NEW p, Held(Readable(p)) # {}
      PROVE  ReadHolds(p, Readable(p))'
  BY <1>1, <1>4, ReadHoldsWhenRead, ReadKept
<1>5. ASSUME NEW a \in Asks, NEW b \in Asks, b # a, ask' = [ask EXCEPT ![a] = NoAsk]
      PROVE  ask'[b] = ask[b] /\ ask'[a].pc # "asked"
  BY <1>1, <1>5, NoAskIsAsk
<1>6. ASSUME NEW a \in Asks, ask' = [ask EXCEPT ![a] = NoAsk]
      PROVE  AskOK
  <2>1. ask'[a].pc # "asked" /\ \A b \in Asks \ {a} : ask'[b] = ask[b]
    BY <1>1, <1>6, NoAskIsAsk
  <2>2. QED
    BY <1>1, <2>1, AskKept
<1> HIDE DEF ScanOK, AskOK, DigestsOK
<1>7. CASE Midnight
  BY <1>2, <1>7 DEF Midnight
<1>8. CASE Tick
  BY <1>2, <1>3, <1>8, DigestAssumption DEF Tick, NoScan
<1>9. CASE WriteDigest
  <2>1. /\ scan.pc = "asked" /\ ReadHolds(scan.period, scan.read)
        /\ scan.read \in Table /\ Held(scan.read) # {} /\ scan.period \in Periods
        /\ scan.left \in Nat \ {0}
    BY <1>1, <1>9, DigestAssumption
       DEF WriteDigest, BudgetLeft, ReadsHold, ReadHolds, ScanState, Within, Held
  <2>2. PICK covered \in SUBSET Held(scan.read) \ {{}} :
          \E rev \in Written(scan.read, covered, "worker") : InsertFirst(scan.period, rev)
    BY <1>9 DEF WriteDigest
  <2>3. PICK rev \in Written(scan.read, covered, "worker") : InsertFirst(scan.period, rev)
    BY <2>2
  <2>4. rev \in Revision /\ RevisionHolds(scan.period, rev)
    BY <1>1, <2>1, WrittenIsRevision, WrittenHolds
  <2>5. DigestsOK
    BY <1>1, <2>1, <2>3, <2>4, InsertDigests DEF DigestsOK
  <2>6. PICK left \in Nat : scan' = Onwards(left)
    BY <1>9, <2>1 DEF WriteDigest
  <2>7. ScanOK
    BY <1>1, <1>3, <2>6, OnwardsIsScan, OnwardsKeepsBudget
  <2>8. QED
    BY <1>2, <1>9, <2>5, <2>7 DEF WriteDigest
<1>10. CASE DigestFails
  <2>1. scan.left \in Nat /\ scan' = Onwards(scan.left)
    BY <1>1, <1>10 DEF DigestFails, ScanState
  <2>2. ScanOK
    BY <1>1, <1>3, <2>1, OnwardsIsScan, OnwardsKeepsBudget
  <2>3. QED
    BY <1>2, <1>10, <2>2 DEF DigestFails
<1>11. ASSUME NEW p \in Periods, ReadPeriod(p)
       PROVE  ScanOK /\ AskOK /\ DigestsOK
  <2>1. scan.pc = "next" /\ scan.left > 0
    BY <1>1, <1>11 DEF ReadPeriod, BudgetLeft
  <2>2. CASE tries[p] < MaxTries /\ Held(Readable(p)) # {}
    <3>1. /\ scan'.left = scan.left /\ scan'.period = p /\ scan'.read = Readable(p)
      BY <1>1, <1>11, <2>2 DEF ReadPeriod, ScanState
    <3>2. PICK read : read = Readable(p)
      OBVIOUS
    <3>3. ReadHolds(p, read)
      BY <1>1, <2>2, <3>2, ReadHoldsWhenRead
    <3>4. ReadHolds(p, read)'
      BY <1>1, <3>3, ReadKept
    <3>5. ReadHolds(scan.period, scan.read)'
      BY <3>1, <3>2, <3>4 DEF ReadHolds, Outdated, Readable, Within
    <3>6. QED
      BY <1>2, <1>11, <2>1, <3>1, <3>5 DEF ReadPeriod, ScanOK, BudgetLeft
  <2>3. CASE ~(tries[p] < MaxTries /\ Held(Readable(p)) # {})
    <3>1. scan' = NoScan \/ scan' = [scan EXCEPT !.todo = scan.todo \ {p}]
      BY <1>11, <2>3 DEF ReadPeriod
    <3>2. ScanOK
      BY <1>1, <1>3, <2>1, <3>1 DEF NoScan, ScanState
    <3>3. QED
      BY <1>2, <1>11, <3>2 DEF ReadPeriod
  <2>4. QED
    BY <2>2, <2>3
<1>12. ASSUME NEW p \in Periods, ReadFails(p)
       PROVE  ScanOK /\ AskOK /\ DigestsOK
  <2>1. scan.pc = "next" /\ scan.left > 0
    BY <1>1, <1>12 DEF ReadFails, BudgetLeft
  <2>2. scan' = NoScan \/ scan' = [scan EXCEPT !.todo = scan.todo \ {p}]
    BY <1>12 DEF ReadFails
  <2>3. ScanOK
    BY <1>1, <1>3, <2>1, <2>2 DEF NoScan, ScanState
  <2>4. QED
    BY <1>2, <1>12, <2>3 DEF ReadFails
<1>13. ASSUME NEW a \in Asks, NEW p \in Periods, Regenerate(a, p)
       PROVE  ScanOK /\ AskOK /\ DigestsOK
  <2>1. PICK read : read = Readable(p)
    OBVIOUS
  <2>2. /\ ask'[a].period = p /\ ask'[a].read = read
        /\ \A b \in Asks \ {a} : ask'[b] = ask[b]
    BY <1>1, <1>13, <2>1 DEF Regenerate
  <2>3. ReadHolds(p, read)'
    BY <1>1, <1>13, <2>1, ReadHoldsWhenRead, ReadKept DEF Regenerate
  <2>4. ReadHolds(ask[a].period, ask[a].read)'
    BY <2>2, <2>3 DEF ReadHolds, Outdated, Readable, Within
  <2>5. AskOK
    BY <1>1, <2>2, <2>4, AskKept DEF AskOK
  <2>6. QED
    BY <1>2, <1>13, <2>5 DEF Regenerate
<1>14. ASSUME NEW a \in Asks, WriteRevision(a)
       PROVE  ScanOK /\ AskOK /\ DigestsOK
  <2>1. /\ ReadHolds(ask[a].period, ask[a].read)
        /\ ask[a].read \in Table /\ Held(ask[a].read) # {} /\ ask[a].period \in Periods
    BY <1>1, <1>14, DigestAssumption
       DEF WriteRevision, ReadsHold, ReadHolds, AskState, Within, Held
  <2>2. PICK covered \in SUBSET Held(ask[a].read) \ {{}} :
          \E rev \in Written(ask[a].read, covered, "reader") :
            digests' = [digests EXCEPT ![ask[a].period] = Append(@, rev)]
    BY <1>14 DEF WriteRevision
  <2>3. PICK rev \in Written(ask[a].read, covered, "reader") :
          digests' = [digests EXCEPT ![ask[a].period] = Append(@, rev)]
    BY <2>2
  <2>4. rev \in Revision /\ rev.by = "reader" /\ RevisionHolds(ask[a].period, rev)
    BY <1>1, <2>1, WrittenIsRevision, WrittenHolds
  <2>5. DigestsOK
    BY <1>1, <2>1, <2>3, <2>4, InsertDigests DEF DigestsOK
  <2>6. QED
    BY <1>2, <1>6, <1>14, <2>5 DEF WriteRevision
<1>15. ASSUME NEW a \in Asks, RegenerateFails(a)
       PROVE  ScanOK /\ AskOK /\ DigestsOK
  BY <1>2, <1>6, <1>15 DEF RegenerateFails
<1>16. QED
  BY <1>7, <1>8, <1>9, <1>10, <1>11, <1>12, <1>13, <1>14, <1>15 DEF Digest, DigestStep

-----------------------------------------------------------------------------
(* What the flags are of                                                   *)

LEMMA PatchFlags == ASSUME IInv, Patch PROVE AloneIsAlone' /\ FlagsOrPatch'
<1>1. /\ AloneIsAlone /\ FlagsOrPatch /\ host' = host
      /\ patch \in [Patchers -> PatchState]
  BY DEF IInv, TypeOK, Patch
<1> USE <1>1
<1>2. ASSUME NEW p \in Patchers, NEW change \in host.changes, LoadStored(p, change)
      PROVE  AloneIsAlone' /\ FlagsOrPatch'
  <2>1. /\ patch[p].pc = "due" /\ patch'[p].pc = "merged"
        /\ patch'[p].alone = (\A r \in Patchers : ~InFlight(r))
        /\ \A q \in Patchers \ {p} :
             /\ patch'[q].pc = patch[q].pc /\ patch'[q].row = patch[q].row
             /\ patch'[q].alone = (patch[q].alone /\ ~InFlight(q))
        /\ stored' = stored /\ flags' = flags
    BY <1>2 DEF LoadStored, PatchState
  <2>2. AloneIsAlone'
    <3>1. ASSUME NEW q \in Patchers, patch'[q].pc = "due"
          PROVE  patch'[q].alone
      <4>1. q # p /\ patch[q].pc = "due" /\ ~InFlight(q)
        BY <2>1, <3>1 DEF InFlight
      <4>2. patch[q].alone
        BY <4>1 DEF AloneIsAlone
      <4>3. QED
        BY <2>1, <4>1, <4>2
    <3>2. ASSUME NEW q \in Patchers, NEW r \in Patchers,
                 InFlight(q)', patch'[q].alone, InFlight(r)'
          PROVE  q = r
      BY <2>1, <3>2 DEF InFlight
    <3>3. QED
      BY <3>1, <3>2 DEF AloneIsAlone
  <2>3. FlagsOrPatch'
    <3> SUFFICES ASSUME \A q \in Patchers : patch'[q].pc # "failed" /\ patch'[q].alone
                 PROVE  /\ \A q \in Patchers : patch'[q].pc # "written"
                        /\ flags' = Resolved(stored)'
      BY DEF FlagsOrPatch
    <3>1. \A q \in Patchers : patch[q].pc # "written"
      BY <2>1 DEF InFlight
    <3>2. \A q \in Patchers : patch[q].alone
      <4>1. patch[p].alone
        BY <2>1 DEF AloneIsAlone
      <4>2. QED
        BY <2>1, <4>1
    <3>3. QED
      BY <2>1, <3>1, <3>2 DEF FlagsOrPatch, Resolved
  <2>4. QED
    BY <2>2, <2>3
<1>3. ASSUME NEW p \in Patchers, Upsert(p)
      PROVE  AloneIsAlone' /\ FlagsOrPatch'
  <2>1. /\ patch[p].pc = "merged" /\ patch'[p].pc = "written"
        /\ patch'[p].row = patch[p].row /\ patch'[p].alone = patch[p].alone
        /\ \A q \in Patchers \ {p} : patch'[q] = patch[q]
        /\ stored' = patch[p].row
    BY <1>3 DEF Upsert, PatchState
  <2>2. QED
    BY <2>1 DEF AloneIsAlone, FlagsOrPatch, InFlight
<1>4. ASSUME NEW p \in Patchers, ApplyFlags(p)
      PROVE  AloneIsAlone' /\ FlagsOrPatch'
  <2>1. /\ patch[p].pc = "written" /\ patch'[p].pc = "done"
        /\ patch'[p].row = patch[p].row /\ patch'[p].alone = patch[p].alone
        /\ \A q \in Patchers \ {p} : patch'[q] = patch[q]
        /\ stored' = stored /\ flags' = Resolved(patch[p].row)
    BY <1>4 DEF ApplyFlags, PatchState
  <2>2. AloneIsAlone'
    BY <2>1 DEF AloneIsAlone, InFlight
  <2>3. FlagsOrPatch'
    <3> SUFFICES ASSUME \A q \in Patchers : patch'[q].pc # "failed" /\ patch'[q].alone
                 PROVE  /\ \A q \in Patchers : patch'[q].pc # "written"
                        /\ flags' = Resolved(stored)'
      BY DEF FlagsOrPatch
    <3>1. \A q \in Patchers : patch[q].pc = "written" => q = p
      BY <2>1 DEF AloneIsAlone, InFlight
    <3>2. \A q \in Patchers : patch[q].pc # "failed" /\ patch[q].alone
      BY <2>1
    <3>3. patch[p].row = stored
      BY <2>1, <3>1, <3>2 DEF FlagsOrPatch
    <3>4. QED
      BY <2>1, <3>1, <3>3 DEF Resolved
  <2>4. QED
    BY <2>2, <2>3
<1>5. ASSUME NEW p \in Patchers, PatchFails(p)
      PROVE  AloneIsAlone' /\ FlagsOrPatch'
  <2>1. /\ patch[p].pc = "merged" /\ patch'[p].pc = "failed"
        /\ \A q \in Patchers \ {p} : patch'[q] = patch[q]
    BY <1>5 DEF PatchFails, PatchState
  <2>2. QED
    BY <2>1 DEF AloneIsAlone, FlagsOrPatch, InFlight
<1>6. QED
  BY <1>2, <1>3, <1>4, <1>5 DEF Patch, SettingsStep

LEMMA FlagsKept ==
  ASSUME IInv, UNCHANGED <<stored, patch, flags, host>>
  PROVE  AloneIsAlone' /\ FlagsOrPatch'
BY DEF IInv, AloneIsAlone, FlagsOrPatch, InFlight, Resolved

\* Steps that touch neither the table nor the embedding worker.
LEMMA VectorsKept ==
  ASSUME IInv, UNCHANGED <<rows, nextSeq, embedding, overtaken>>,
         embedder' = embedder \/ embedder' = AtSelect
  PROVE  RowsDrawn' /\ BodyAsRead' /\ VectorsAreCurrent'
BY DEF IInv, RowsDrawn, BodyAsRead, VectorsAreCurrent, Live, AtSelect

-----------------------------------------------------------------------------
(* The invariant                                                           *)

LEMMA InitInv == Init => IInv
<1> SUFFICES ASSUME Init PROVE IInv
  OBVIOUS
<1>1. Held(rows) = {}
  BY EmptyTableIsTable DEF Init
<1>2. RowsDrawn /\ BodyAsRead /\ VectorsAreCurrent
  BY <1>1 DEF Init, EmbeddingInit, AtSelect, RowsDrawn, BodyAsRead, VectorsAreCurrent, Live
<1>3. BudgetLeft /\ ReadsHold /\ RevisionsHold /\ WorkerWritesFirst
  BY DEF Init, DigestInit, NoScan, NoAsk, BudgetLeft, ReadsHold, RevisionsHold, WorkerWritesFirst
<1>4. AloneIsAlone /\ FlagsOrPatch
  BY DEF Init, SettingsInit, AloneIsAlone, FlagsOrPatch, InFlight
<1>5. QED
  BY <1>2, <1>3, <1>4, InitTypeOK DEF IInv

LEMMA RestartInv == ASSUME IInv, Restart PROVE IInv'
<1>1. TypeOK /\ TypeOK'
  BY RestartTypeOK DEF IInv
<1>2. RowsDrawn' /\ BodyAsRead' /\ VectorsAreCurrent'
  BY VectorsKept DEF Restart, EmbeddingRestart
<1>3. BudgetLeft' /\ ReadsHold'
  BY DEF Restart, DigestRestart, NoScan, NoAsk, BudgetLeft, ReadsHold
<1>4. RevisionsHold' /\ WorkerWritesFirst'
  BY DigestsKept DEF Restart, DigestRestart
<1>5. AloneIsAlone' /\ FlagsOrPatch'
  <2>1. patch \in [Patchers -> PatchState] /\ AloneIsAlone
    BY DEF IInv, TypeOK
  <2>2. \A p \in Patchers : \/ patch[p].pc = "due" /\ patch'[p] = patch[p]
                            \/ patch'[p].pc = "done" /\ patch'[p].alone
    BY <2>1 DEF Restart, SettingsRestart, PatchState
  <2>3. flags' = Resolved(stored)'
    BY DEF Restart, SettingsRestart, Resolved
  <2>4. QED
    BY <2>1, <2>2, <2>3 DEF AloneIsAlone, FlagsOrPatch, InFlight
<1>6. QED
  BY <1>1, <1>2, <1>3, <1>4, <1>5 DEF IInv

LEMMA StepInv == IInv /\ [Next]_vars => IInv'
<1> SUFFICES ASSUME IInv, [Next]_vars PROVE IInv'
  OBVIOUS
<1> USE DEF embeddingVars, digestVars, settingsVars
<1>0. TypeOK /\ BodyAsRead /\ BudgetLeft /\ ReadsHold
  BY DEF IInv
<1>1. ASSUME NEW id \in Ids, NEW pushed \in host.pushes[id], Push(id, pushed)
      PROVE  IInv'
  <2>1. UNCHANGED <<stored, patch, flags, host>>
    BY <1>1 DEF Push
  <2>2. QED
    BY <1>0, <1>1, <2>1, PushTypeOK, PushVectors, PushDigests, FlagsKept DEF IInv
<1>2. CASE Embed
  <2>1. /\ UNCHANGED <<stored, patch, flags, host>>
        /\ UNCHANGED <<rows, nextSeq, digests, scan, ask>>
    BY <1>2 DEF Embed
  <2>2. BudgetLeft' /\ ReadsHold'
    BY <1>0, <2>1, ScanKept, AskKept DEF BudgetLeft, ReadsHold
  <2>3. QED
    BY <1>0, <1>2, <2>1, <2>2, EmbedTypeOK, EmbedVectors, DigestsKept, FlagsKept DEF IInv
<1>3. CASE Digest
  <2>1. /\ UNCHANGED <<stored, patch, flags, host>>
        /\ UNCHANGED <<rows, nextSeq, embedding, overtaken, embedder>>
    BY <1>3 DEF Digest
  <2>2. QED
    BY <1>0, <1>3, <2>1, DigestTypeOK, DigestDigests, VectorsKept, FlagsKept DEF IInv
<1>4. CASE Patch
  <2>1. /\ UNCHANGED <<rows, nextSeq, embedding, overtaken, embedder>>
        /\ UNCHANGED <<digests, scan, ask>>
    BY <1>4 DEF Patch
  <2>2. BudgetLeft' /\ ReadsHold'
    BY <1>0, <2>1, ScanKept, AskKept DEF BudgetLeft, ReadsHold
  <2>3. QED
    BY <1>0, <1>4, <2>1, <2>2, PatchTypeOK, PatchFlags, VectorsKept, DigestsKept DEF IInv
<1>5. CASE Restart
  BY <1>5, RestartInv
<1>6. CASE UNCHANGED vars
  <2>1. TypeOK'
    BY <1>0, <1>6 DEF vars, TypeOK
  <2>2. BudgetLeft' /\ ReadsHold'
    BY <1>0, <1>6, ScanKept, AskKept DEF vars, BudgetLeft, ReadsHold
  <2>3. QED
    BY <1>6, <2>1, <2>2, VectorsKept, DigestsKept, FlagsKept DEF vars, IInv
<1>7. QED
  BY <1>1, <1>2, <1>3, <1>4, <1>5, <1>6 DEF Next

\* Everything the workers rely on about the rows, the calls in flight, the
\* revisions and the PATCHes is inductive.
THEOREM Invariance == Spec => []IInv
<1>1. QED
  BY InitInv, StepInv, PTL DEF Spec

\* The types of all the Server's workers keep, whatever they interleave.
THEOREM TypeCorrect == Spec => []TypeOK
<1>1. IInv => TypeOK
  BY DEF IInv
<1>2. QED
  BY <1>1, Invariance, PTL

\* No vector in the table describes a body its row no longer has, except
\* where a push replaced the row during the model call.
THEOREM VectorsCurrent == Spec => []VectorsAreCurrent
<1>1. IInv => VectorsAreCurrent
  BY DEF IInv
<1>2. QED
  BY <1>1, Invariance, PTL

\* A Digest not reported stale was written from its Period's live rows.
THEOREM FreshDigestsTrue == Spec => []FreshIsTrue
<1>1. IInv => FreshIsTrue
  <2> SUFFICES ASSUME IInv, NEW p \in Digested, ~IsStale(p, Newest(p))
               PROVE  Newest(p).read = Readable(p)
    BY DEF FreshIsTrue
  <2>1. digests[p] \in Seq(Revision) /\ digests[p] # <<>> /\ p \in Periods
    BY DEF IInv, TypeOK, Digested
  <2>2. Len(digests[p]) \in DOMAIN digests[p]
    BY <2>1
  <2>3. QED
    BY <2>1, <2>2 DEF IInv, RevisionsHold, RevisionHolds, Newest
<1>2. QED
  BY <1>1, Invariance, PTL

\* A revision of the worker's is the first of its Period.
THEOREM WorkerNeverOverrules == Spec => []WorkerWritesFirst
<1>1. IInv => WorkerWritesFirst
  BY DEF IInv
<1>2. QED
  BY <1>1, Invariance, PTL

\* With every PATCH answered and none overlapped, the flags are the row's.
THEOREM FlagsFollow == Spec => []FlagsFollowRow
<1>1. IInv => FlagsFollowRow
  BY DEF IInv, FlagsOrPatch, FlagsFollowRow
<1>2. QED
  BY <1>1, Invariance, PTL

=============================================================================

--------------------------- MODULE MCServerWorkers ---------------------------
(***************************************************************************)
(* ServerWorkers for TLC.  Each process runs one of the workers with one   *)
(* PATCH of its switch, or none of them with two PATCHes of every kind, so *)
(* the state space is the sum of the three and not their product.          *)
(***************************************************************************)
EXTENDS ServerWorkers, TLC

CONSTANTS e1, e2, e3, e4, b1, b2, p1, p2

\* Two Entries share the first Period.
MCPeriodOf == (e1 :> 1) @@ (e2 :> 1) @@ (e3 :> 2) @@ (e4 :> 3)

Saying(body) == [body |-> body, deleted |-> FALSE, upd |-> 1, seq |-> Pending]

Deletion == [Saying(Blank) EXCEPT !.deleted = TRUE]

Quiet == [id \in Ids |-> {}]

Unset == [f \in Features |-> "unset"]

\* One toggle switched off; either or both switched either way.
TurnOff(f) == {[g \in Features |-> IF g = f THEN "off" ELSE NotNamed]}

AnySwitch == [Features -> {"on", "off", NotNamed}]

Process(workers) ==
  [workers |-> workers, stored |-> Unset, locked |-> FALSE,
   patchers |-> {}, changes |-> {}, pushes |-> Quiet, maxSeq |-> 0, until |-> 1,
   maxRevs |-> 0]

Embeds ==
  [Process({"embeddings"}) EXCEPT
     !.patchers = {p1}, !.changes = TurnOff("embeddings"), !.maxSeq = 3,
     !.pushes = (e1 :> {Saying(b1), Saying(b2), Deletion}) @@ (e2 :> {Saying(b1)}) @@ Quiet]

Digests(patchers, count, last) ==
  [Process({"digest"}) EXCEPT
     !.patchers = patchers, !.changes = TurnOff("digest"),
     !.maxSeq = count, !.until = last]

\* An Entry is added to, and one deleted from, a Period in the making.
Moving(patchers, count, last, revisions) ==
  [Digests(patchers, count, last) EXCEPT !.maxRevs = revisions,
     !.pushes = (e1 :> {Saying(b1), Deletion}) @@ (e2 :> {Saying(b1)})
                  @@ (e3 :> {Saying(b1)}) @@ Quiet]

\* Three Periods with an Entry each, so that a scan can find two of them.
Backlog ==
  [Digests({}, 3, 4) EXCEPT
     !.pushes = (e1 :> {Saying(b1)}) @@ (e3 :> {Saying(b1)}) @@ (e4 :> {Saying(b1)}) @@ Quiet]

MCBacklog == {Backlog}

Configured(row, isLocked) ==
  [Process({}) EXCEPT !.stored = row, !.locked = isLocked,
     !.patchers = {p1, p2}, !.changes = AnySwitch]

MCHosts ==
  {Embeds, Moving({}, 3, 3, 0), Moving({p1}, 2, 2, 2), Backlog}
    \cup {Configured(row, isLocked) : row \in {Unset, [Unset EXCEPT !["digest"] = "off"]},
                                     isLocked \in BOOLEAN}

=============================================================================

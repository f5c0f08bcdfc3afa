----------------------------- MODULE MCBackups -----------------------------
(***************************************************************************)
(* Backups for TLC: one stream whose rows change and the append-only one.  *)
(* What the user may do in one behaviour is bounded by one of these scenes.*)
(***************************************************************************)
EXTENDS Backups, TLC

CONSTANTS d1, d2, x, y, tasks, events, kv

InSyncOrder == <<tasks, events>>
ByName == <<events, kv, tasks>>

OneDevice(stream, shared, allowed, fails) ==
  [devices |-> {d1}, online |-> {d1}, streams |-> {stream}, ids |-> {x},
   bodies |-> Bodies \ {FirstBody}, shared |-> shared,
   clock |-> [d \in Devices |-> IF shared THEN 2 ELSE 1],
   jobs |-> [d \in Devices |-> allowed], fails |-> fails]

TwoDevices(online, writes, bodies, on1) ==
  [devices |-> {d1, d2}, online |-> online, streams |-> {tasks}, ids |-> {x},
   bodies |-> bodies, shared |-> TRUE, clock |-> writes,
   jobs |-> (d1 :> on1 @@ d2 :> {"backup"}), fails |-> 0]

\* A Device goes back to a Backup it took at any earlier moment of its life.
Restored ==
  {OneDevice(tasks, TRUE, {"backup", "restore"}, 0),
   OneDevice(tasks, FALSE, {"backup", "restore"}, 1),
   OneDevice(events, FALSE, {"backup", "restore"}, 0)}

\* A Backup, its own or another Device's, is merged in.
Merged ==
  {OneDevice(tasks, FALSE, {"backup", "merge"}, 1),
   TwoDevices({d1}, d1 :> 2 @@ d2 :> 2, Bodies, {"merge"}),
   TwoDevices({d1, d2}, d1 :> 1 @@ d2 :> 2, {}, {"merge"})}

\* Sync alone.  Two Devices change the same row while a failure cuts one of
\* them short; and a backlog of more than a batch, which the user keeps
\* editing: two rows as everybody has them, so that a change taken back leaves
\* no page to read.
Synced ==
  {[TwoDevices({d1, d2}, d1 :> 2 @@ d2 :> 2, Bodies \ {FirstBody}, {}) EXCEPT
      !.jobs[d2] = {}, !.fails = 1],
   [OneDevice(tasks, TRUE, {}, 0) EXCEPT
      !.ids = {x, y}, !.bodies = Bodies, !.clock[d1] = 4]}

Scenes == Restored \cup Merged \cup Synced

\* A Device that records Events restores its Backup while it syncs.
Raced == {OneDevice(events, FALSE, {"backup", "restore"}, 0)}

=============================================================================

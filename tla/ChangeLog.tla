------------------------------ MODULE ChangeLog ------------------------------
(***************************************************************************)
(* What the Server's compacted change log promises to every reader (ADR    *)
(* 0002, ADR 0028): a push takes effect at one instant, a row it changes   *)
(* re-enters the log above every row any reader could already have seen,   *)
(* a push that changes nothing moves nothing, and a deleted row never      *)
(* changes again.  Nothing here knows of locks or transactions: SyncServer *)
(* implements this module, and EntrySync is built on the same step.        *)
(***************************************************************************)
EXTENDS EntryRows

CONSTANT Pushes   \* the batches a Device can push: tables of pending rows

VARIABLE rows     \* the committed entries table

\* One push, applied as a whole.
Commit(push) ==
  LET changed == {id \in Held(push) : Changes(rows[id], push[id])}
  IN  /\ \A id \in Ids \ changed : rows'[id] = rows[id]
      /\ \A id \in changed :
           /\ rows'[id] = Stored(push[id], rows'[id].seq)
           /\ rows'[id].seq \in Nat \ {Pending}
           /\ \A other \in Held(rows) : rows[other].seq < rows'[id].seq
           /\ \A other \in changed \ {id} : rows'[other].seq # rows'[id].seq

Init == rows = EmptyTable

Next == rows' \in Table /\ \E push \in Pushes : Commit(push)

Spec == Init /\ [][Next]_rows

=============================================================================

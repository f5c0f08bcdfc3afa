---------------------------- MODULE MCSyncServer ----------------------------
(***************************************************************************)
(* SyncServer for TLC.  updated_at is copied and never compared by the     *)
(* Server, so one stamp is enough.  One id is created, edited and deleted; *)
(* the others are only ever created, which is all it takes for two         *)
(* transactions to draw seqs side by side.                                 *)
(***************************************************************************)
EXTENDS SyncServer

Edits == CHOOSE id \in Ids : TRUE

Live(bodies) == [body : bodies, deleted : {FALSE}, upd : {1}, seq : {Pending}]

Tombstones == [body : {Blank}, deleted : {TRUE}, upd : {1}, seq : {Pending}]

MCPushes ==
  {push \in [Ids -> Maybe(Live(Bodies) \cup Tombstones)] :
     \A id \in Ids \ {Edits} :
       push[id] \in Maybe(Live({CHOOSE b \in Bodies : TRUE}))}

=============================================================================

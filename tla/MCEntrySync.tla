----------------------------- MODULE MCEntrySync -----------------------------
(***************************************************************************)
(* EntrySync for TLC.                                                      *)
(***************************************************************************)
EXTENDS EntrySync, TLC

\* Devices are told apart by nothing but their names; so are bodies.
Interchangeable == Permutations(Devices) \cup Permutations(Bodies)

=============================================================================

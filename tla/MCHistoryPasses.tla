--------------------------- MODULE MCHistoryPasses ---------------------------
(***************************************************************************)
(* HistoryPasses for TLC.                                                  *)
(***************************************************************************)
EXTENDS HistoryPasses, TLC

\* Two Entries, the first one captured first.
TwoEntries == 1 .. 2

\* Ids of Tasks are only ever compared.
Interchangeable == Permutations(TaskIds)

=============================================================================

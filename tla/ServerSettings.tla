--------------------------- MODULE ServerSettings ---------------------------
(***************************************************************************)
(* PATCH /v1/config (server/src/settings.rs) for the toggles the workers   *)
(* read: apply_patch loads the one settings row, merges the fields the     *)
(* request names and writes the whole row back, with no transaction around *)
(* the two statements; only then are the in-memory flags re-derived from   *)
(* the row this request wrote.                                             *)
(***************************************************************************)
EXTENDS ServerState

VARIABLES
  stored,   \* the server_settings row
  patch     \* each PATCH request

settingsVars == <<stored, patch>>

\* row: the row as merged.  alone: history, no other request was in flight
\* between this one's load and the end of its handler.
PatchState == [pc : {"due", "merged", "written", "done", "failed"},
               row : Settings, alone : BOOLEAN]

InFlight(p) == patch[p].pc \in {"merged", "written"}

Merge(row, change) ==
  [f \in Features |-> IF change[f] = NotNamed THEN row[f] ELSE change[f]]

\* resolve_toggle and enabled(): a locked Server reads every toggle as unset,
\* and unset means on.
Resolved(row) == [f \in Features |-> host.locked \/ row[f] # "off"]

SettingsInit ==
  /\ stored = host.stored
  /\ flags = Resolved(stored)
  /\ patch = [p \in Patchers |->
                [pc |-> "due", row |-> stored, alone |-> TRUE]]

\* load_stored, and the merge.
LoadStored(p, change) ==
  /\ p \in host.patchers
  /\ patch[p].pc = "due"
  /\ patch' = [q \in Patchers |->
       IF q = p
         THEN [pc |-> "merged", row |-> Merge(stored, change),
               alone |-> \A r \in Patchers : ~InFlight(r)]
         ELSE [patch[q] EXCEPT !.alone = @ /\ ~InFlight(q)]]
  /\ UNCHANGED <<stored, flags>>

\* upsert: the whole row.
Upsert(p) ==
  /\ patch[p].pc = "merged"
  /\ stored' = patch[p].row
  /\ patch' = [patch EXCEPT ![p].pc = "written"]
  /\ UNCHANGED flags

\* Defect: the flags are left to the next restart.
AnswerOnly(p) ==
  /\ patch[p].pc = "written"
  /\ patch' = [patch EXCEPT ![p].pc = "done"]
  /\ UNCHANGED <<stored, flags>>

\* flags.apply(&resolve_now(&stored, locked))
ApplyFlags(p) ==
  /\ patch[p].pc = "written"
  /\ flags' = Resolved(patch[p].row)
  /\ patch' = [patch EXCEPT ![p].pc = "done"]
  /\ UNCHANGED stored

\* A statement fails; the upsert's answer may be lost after it committed.
PatchFails(p) ==
  /\ patch[p].pc = "merged"
  /\ stored' \in {stored, patch[p].row}
  /\ patch' = [patch EXCEPT ![p].pc = "failed"]
  /\ UNCHANGED flags

SettingsStep ==
  \E p \in Patchers :
    \/ \E change \in host.changes : LoadStored(p, change)
    \/ Upsert(p) \/ ApplyFlags(p) \/ PatchFails(p)

\* RuntimeFlags::seed at boot.  A request in flight is never answered.
SettingsRestart ==
  /\ flags' = Resolved(stored)
  /\ patch' = [p \in Patchers |->
                 IF patch[p].pc = "due" THEN patch[p]
                 ELSE [patch[p] EXCEPT !.pc = "done", !.alone = TRUE]]
  /\ UNCHANGED stored

=============================================================================

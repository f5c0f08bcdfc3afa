----------------------------- MODULE ServerState -----------------------------
(***************************************************************************)
(* What the Server's request handlers and its two background workers share *)
(* (server/src/main.rs): the committed entries table, the in-memory        *)
(* feature flags, and what this process was started with.  SyncServer      *)
(* shows that a push is one atomic step of the table and that seqs commit  *)
(* in the order they are drawn; here a push is that one step.              *)
(***************************************************************************)
EXTENDS EntryRows

CONSTANTS
  Hosts,      \* the processes main.rs can start, see Host
  Patchers    \* the PATCH /v1/config requests one behaviour can hold

VARIABLES
  rows,       \* the committed entries table
  nextSeq,    \* the next value of the entries.seq sequence
  flags,      \* RuntimeFlags: the switches the workers read
  host        \* the process: chosen at boot, never changed

Features == {"embeddings", "digest"}

\* Stored toggles: null, true, false.
Toggles == {"unset", "on", "off"}

Settings == [Features -> Toggles]

\* A PATCH names some fields, each with a toggle to store.
NotNamed == "absent"

NamedChanges == [Features -> Toggles \cup {NotNamed}]

\* workers: the background workers whose endpoints were configured when
\* main.rs spawned them.  stored: the settings row at first boot.  locked:
\* MEOLOGUE_CONFIG_LOCKED.  The rest bounds what happens to it: patchers and
\* changes, the PATCH requests that will arrive and what they can name;
\* pushes, what Devices push of each Entry; maxSeq, how often; until, the
\* last Period now() reaches; maxRevs, of how many revisions of a Period a
\* regenerate is still asked for.
Host == [workers : SUBSET Features, stored : Settings, locked : BOOLEAN,
         patchers : SUBSET Patchers, changes : SUBSET NamedChanges,
         pushes : [Ids -> SUBSET Row], maxSeq : Nat, until : Nat,
         maxRevs : Nat]

ASSUME HostsAreHosts == Hosts \subseteq Host

\* select ... where deleted_at is null
Live == {id \in Held(rows) : ~rows[id].deleted}

=============================================================================

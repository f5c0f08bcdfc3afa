----------------------------- MODULE SyncRunner -----------------------------
(***************************************************************************)
(* What decides when sync() runs on the web (apps/web/src/lib/             *)
(* sync-runner.ts): requestSync's single flight and its one rerun, the     *)
(* Server URL read once per run and again per request, and the attempt the *)
(* Sync status shows.  JavaScript runs one callback at a time, so a step   *)
(* is the code between two awaits, and every await lets any caller in -    *)
(* the last one, between the end of the async function and its finally     *)
(* callback, included.                                                     *)
(*                                                                         *)
(* The tab stays visible and the store stays open: a hidden tab ticks and  *)
(* wakes no sync.  sync() itself is EntrySync; here it is some number of   *)
(* requests, any of which may fail.                                        *)
(***************************************************************************)
EXTENDS Naturals

CONSTANTS
  Urls,         \* Server URLs that can be typed into Settings
  Off,          \* the empty Server URL: Sync is off
  Callers,      \* whoever calls requestSync
  Tick,         \* the caller that comes back by itself: the interval query
  NoAttempt,    \* lastAttempt is null
  MaxRequests,  \* bound: requests one sync() makes
  MaxSaves      \* bound: saves of the Server URL

ASSUME RunnerAssumption ==
  /\ Off \notin Urls
  /\ Tick \in Callers
  /\ MaxRequests \in Nat \ {0}
  /\ MaxSaves \in Nat

VARIABLES
  url,      \* serverUrl in useSettingsStore
  run,      \* requestSync's promise: where it is, and runSyncOnce's locals
  rerun,    \* rerunRequested
  ticking,  \* the interval query is awaiting requestSync's promise
  attempt,  \* lastAttempt in useSyncStatusStore
  waiting,  \* history: callers no run has begun for since they called
  saves     \* history: how often the URL was saved, for the bound

vars == <<url, run, rerun, ticking, attempt, waiting, saves>>

\* idle: syncInFlight is null.  loop, request: inside sync(), between requests
\* and with one in flight.  check: runSyncOnce has returned to the do-while.
\* settling: the loop is over, the finally callback has not run.
Pcs == {"idle", "loop", "request", "check", "settling"}

\* from: runSyncOnce's serverUrl.  to: where the latest request went; before
\* the first one, where it would.  left: requests sync() has still to make.
Run == [pc : Pcs, from : Urls \cup {Off}, to : Urls \cup {Off}, left : 0 .. MaxRequests]

Outcomes == {"working", "failing"}

\* server is history: the Server the attempt's latest request went to.
Attempt == [url : Urls, outcome : Outcomes, server : Urls \cup {Off}]

-----------------------------------------------------------------------------
Init ==
  /\ url \in Urls \cup {Off}
  /\ run = [pc |-> "idle", from |-> Off, to |-> Off, left |-> 0]
  /\ rerun = FALSE
  /\ ticking = FALSE
  /\ attempt = NoAttempt
  /\ waiting = {}
  /\ saves = 0

\* Settings saves a Server URL, or clears it.
SaveUrl(u) ==
  /\ saves < MaxSaves
  /\ saves' = saves + 1
  /\ u # url
  /\ url' = u
  /\ UNCHANGED <<run, rerun, ticking, attempt, waiting>>

\* Defect: the Server URL hoisted out of runSyncOnce, read on the first run.
StartRunHoisted ==
  /\ \E n \in 1 .. MaxRequests, u \in {IF run.from = Off THEN url ELSE run.from} :
       run' = IF u = Off THEN [pc |-> "check", from |-> Off, to |-> Off, left |-> 0]
                         ELSE [pc |-> "loop", from |-> u, to |-> u, left |-> n]
  /\ rerun' = FALSE
  /\ waiting' = {}

\* One turn of the do-while up to its first await: the flag is cleared, the
\* Server URL read, and without one runSyncOnce returns at once.
StartRun ==
  /\ \/ /\ url = Off
        /\ run' = [pc |-> "check", from |-> Off, to |-> Off, left |-> 0]
     \/ /\ url # Off
        /\ \E n \in 1 .. MaxRequests :
             run' = [pc |-> "loop", from |-> url, to |-> url, left |-> n]
  /\ rerun' = FALSE
  /\ waiting' = {}

\* Defect: the caller is handed the promise of the run before it (ticket 38).
RequestSyncJoins(c) ==
  /\ \/ run.pc = "idle" /\ StartRun
     \/ run.pc # "idle" /\ waiting' = waiting \cup {c} /\ UNCHANGED <<run, rerun>>
  /\ ticking' = (ticking \/ c = Tick)
  /\ UNCHANGED <<url, attempt, saves>>

\* A write, a wake signal or the interval query calls requestSync.  The query
\* is not fetched again while its own promise is pending.
RequestSync(c) ==
  /\ c = Tick => ~ticking
  /\ \/ run.pc = "idle" /\ StartRun
     \/ /\ run.pc # "idle"
        /\ rerun' = TRUE
        /\ waiting' = waiting \cup {c}
        /\ UNCHANGED run
  /\ ticking' = (ticking \/ c = Tick)
  /\ UNCHANGED <<url, attempt, saves>>

\* syncTransport reads the Server URL once more for every request.
SendRequest ==
  /\ run.pc = "loop"
  /\ run.left > 0
  /\ run' = [run EXCEPT !.pc = "request", !.to = url, !.left = @ - 1]
  /\ UNCHANGED <<url, rerun, ticking, attempt, waiting, saves>>

ReceiveResponse ==
  /\ run.pc = "request"
  /\ run' = [run EXCEPT !.pc = "loop"]
  /\ UNCHANGED <<url, rerun, ticking, attempt, waiting, saves>>

Record(outcome) ==
  /\ attempt' = [url |-> run.from, outcome |-> outcome, server |-> run.to]
  /\ run' = [run EXCEPT !.pc = "check", !.left = 0]
  /\ UNCHANGED <<url, rerun, ticking, waiting, saves>>

\* sync() has returned, both refreshes too.
Succeed == run.pc = "loop" /\ run.left = 0 /\ Record("working")

\* fetch() rejects, the Server refuses, a statement or a refresh throws.
Throw == run.pc \in {"loop", "request"} /\ Record("failing")

\* while (rerunRequested).
Repeat ==
  /\ run.pc = "check"
  /\ \/ rerun /\ StartRun
     \/ ~rerun /\ run' = [run EXCEPT !.pc = "settling"] /\ UNCHANGED <<rerun, waiting>>
  /\ UNCHANGED <<url, ticking, attempt, saves>>

\* Defect: cleaned up in a then(), which a run that failed skips.
SettleOnSuccess ==
  /\ run.pc = "settling"
  /\ run.from # Off => attempt.outcome = "working"
  /\ run' = [run EXCEPT !.pc = "idle"]
  /\ ticking' = FALSE
  /\ UNCHANGED <<url, rerun, attempt, waiting, saves>>

\* finally: syncInFlight = null; whoever awaited the promise goes on.
Settle ==
  /\ run.pc = "settling"
  /\ run' = [run EXCEPT !.pc = "idle"]
  /\ ticking' = FALSE
  /\ UNCHANGED <<url, rerun, attempt, waiting, saves>>

RunnerStep == SendRequest \/ ReceiveResponse \/ Succeed \/ Throw \/ Repeat \/ Settle

Next ==
  \/ \E u \in Urls \cup {Off} : SaveUrl(u)
  \/ \E c \in Callers : RequestSync(c)
  \/ RunnerStep

Spec == Init /\ [][Next]_vars

\* The interval query keeps coming back every SYNC_INTERVAL_MS, and promises
\* settle: the browser answers or rejects every fetch in the end.
Fairness == WF_vars(RequestSync(Tick)) /\ WF_vars(RunnerStep)

FairSpec == Spec /\ Fairness

-----------------------------------------------------------------------------
(* Properties                                                              *)

TypeOK ==
  /\ url \in Urls \cup {Off}
  /\ run \in Run
  /\ rerun \in BOOLEAN
  /\ ticking \in BOOLEAN
  /\ attempt \in Attempt \cup {NoAttempt}
  /\ waiting \subseteq Callers
  /\ saves \in Nat

\* Ticket 38: while runs are still being made, a caller whose write the
\* current run may have missed is not folded into it; another run follows.
MissedCallsRerun ==
  run.pc \notin {"idle", "settling"} /\ waiting # {} => rerun

\* Every call to requestSync is followed by a run that began after it, if need
\* be the one the interval query starts, whatever fails in between.
EveryCallServed == \A c \in Callers : c \in waiting ~> c \notin waiting

\* Once Settings is left alone, the Sync status settles on an attempt recorded
\* for, and made against, the Server that is configured.
StatusCatchesUp ==
  <>[](url # Off => /\ attempt # NoAttempt
                    /\ attempt.url = url
                    /\ attempt.server = url)

\* sync-runner.ts: an overlapping caller schedules exactly one more run right
\* after the current one finishes.  What the code does violates it.
NoCallLeftBehind == url # Off /\ run.pc = "idle" => waiting = {}

\* ADR 0011: the transport is only ever invoked once a Server URL exists.
\* What the code does violates it.
RequestsNeedAServer == run.pc = "request" => run.to # Off

-----------------------------------------------------------------------------
(* The inductive invariant behind MissedCallsRerun.                        *)

IInv ==
  /\ TypeOK
  /\ MissedCallsRerun
  /\ run.pc \in {"loop", "request"} => run.from \in Urls

=============================================================================

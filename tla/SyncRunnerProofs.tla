-------------------------- MODULE SyncRunnerProofs --------------------------
(***************************************************************************)
(* A call that overlaps a run is never folded into it, however many        *)
(* callers and Servers there are.                                          *)
(***************************************************************************)
EXTENDS SyncRunner, TLAPS

LEMMA InitInv == Init => IInv
<1> SUFFICES ASSUME Init PROVE IInv
  OBVIOUS
<1>1. run \in Run
  BY RunnerAssumption DEF Init, Run, Pcs
<1>2. TypeOK
  BY <1>1 DEF Init, TypeOK
<1>3. MissedCallsRerun
  BY DEF Init, MissedCallsRerun
<1>4. run.pc = "idle"
  BY DEF Init
<1> QED BY <1>2, <1>3, <1>4 DEF IInv

\* The turn of the do-while with which both RequestSync and Repeat begin.
LEMMA StartRunInv ==
  ASSUME IInv, StartRun,
         UNCHANGED <<url, attempt, saves>>,
         ticking' \in BOOLEAN
  PROVE  IInv'
<1>1. run' \in Run
  BY RunnerAssumption DEF IInv, TypeOK, StartRun, Run, Pcs
<1>2. rerun' \in BOOLEAN /\ waiting' = {}
  BY DEF StartRun
<1>3. TypeOK'
  BY <1>1, <1>2 DEF IInv, TypeOK
<1>4. MissedCallsRerun'
  BY <1>2 DEF MissedCallsRerun
<1>5. run'.pc \in {"loop", "request"} => run'.from \in Urls
  BY DEF StartRun, IInv, TypeOK
<1> QED BY <1>3, <1>4, <1>5 DEF IInv

LEMMA StepInv == IInv /\ [Next]_vars => IInv'
<1> SUFFICES ASSUME IInv, [Next]_vars PROVE IInv'
  OBVIOUS
<1>1. CASE UNCHANGED vars
  BY <1>1 DEF vars, IInv, TypeOK, MissedCallsRerun
<1>2. ASSUME NEW u \in Urls \cup {Off}, SaveUrl(u) PROVE IInv'
  BY <1>2 DEF SaveUrl, IInv, TypeOK, MissedCallsRerun
<1>3. ASSUME NEW c \in Callers, RequestSync(c) PROVE IInv'
  <2>1. ticking' \in BOOLEAN
    BY <1>3 DEF RequestSync
  <2>2. CASE StartRun
    <3>1. UNCHANGED <<url, attempt, saves>>
      BY <1>3 DEF RequestSync
    <3> QED BY <2>1, <2>2, <3>1, StartRunInv
  <2>3. CASE rerun' = TRUE /\ waiting' = waiting \cup {c} /\ UNCHANGED run
    BY <1>3, <2>1, <2>3 DEF RequestSync, IInv, TypeOK, MissedCallsRerun
  <2> QED BY <1>3, <2>2, <2>3 DEF RequestSync
<1>4. CASE SendRequest
  <2>1. run' \in Run /\ run'.from = run.from /\ run.pc = "loop"
    <3>1. run \in Run /\ url \in Urls \cup {Off}
      BY DEF IInv, TypeOK
    <3>2. run.left - 1 \in 0 .. MaxRequests
      BY <1>4, <3>1, RunnerAssumption DEF SendRequest, Run
    <3> QED BY <1>4, <3>1, <3>2 DEF SendRequest, Run, Pcs
  <2>2. UNCHANGED <<url, rerun, ticking, attempt, waiting, saves>>
    BY <1>4 DEF SendRequest
  <2>3. TypeOK'
    BY <2>1, <2>2 DEF IInv, TypeOK
  <2>4. MissedCallsRerun'
    BY <2>1, <2>2 DEF IInv, MissedCallsRerun
  <2> QED BY <2>1, <2>3, <2>4 DEF IInv
<1>5. CASE ReceiveResponse
  BY <1>5 DEF ReceiveResponse, IInv, TypeOK, Run, Pcs, MissedCallsRerun
<1>6. ASSUME NEW outcome \in Outcomes, run.pc \in {"loop", "request"}, Record(outcome)
      PROVE  IInv'
  <2>1. run' \in Run /\ run'.pc = "check"
    <3>1. run \in Run
      BY DEF IInv, TypeOK
    <3>2. 0 \in 0 .. MaxRequests
      BY RunnerAssumption
    <3> QED BY <1>6, <3>1, <3>2 DEF Record, Run, Pcs
  <2>2. attempt' \in Attempt
    BY <1>6 DEF Record, Attempt, IInv, TypeOK, Run
  <2>3. UNCHANGED <<url, rerun, ticking, waiting, saves>>
    BY <1>6 DEF Record
  <2>4. TypeOK'
    BY <2>1, <2>2, <2>3 DEF IInv, TypeOK
  <2>5. MissedCallsRerun'
    BY <1>6, <2>3 DEF IInv, MissedCallsRerun
  <2> QED BY <2>1, <2>4, <2>5 DEF IInv
<1>7. CASE Succeed
  BY <1>6, <1>7 DEF Succeed, Outcomes
<1>8. CASE Throw
  BY <1>6, <1>8 DEF Throw, Outcomes
<1>9. CASE Repeat
  <2>1. CASE StartRun
    <3>1. UNCHANGED <<url, ticking, attempt, saves>> /\ ticking \in BOOLEAN
      BY <1>9 DEF Repeat, IInv, TypeOK
    <3> QED BY <2>1, <3>1, StartRunInv
  <2>2. CASE run' = [run EXCEPT !.pc = "settling"] /\ UNCHANGED <<rerun, waiting>>
    BY <1>9, <2>2 DEF Repeat, IInv, TypeOK, Run, Pcs, MissedCallsRerun
  <2> QED BY <1>9, <2>1, <2>2 DEF Repeat
<1>10. CASE Settle
  BY <1>10 DEF Settle, IInv, TypeOK, Run, Pcs, MissedCallsRerun
<1> QED
  BY <1>1, <1>2, <1>3, <1>4, <1>5, <1>7, <1>8, <1>9, <1>10 DEF Next, RunnerStep

\* The runner's invariant, TypeOK and MissedCallsRerun among its parts:
\* whoever calls requestSync while runs are being made gets another run.
THEOREM MissedCallsGetARun == Spec => []IInv
<1> QED BY InitInv, StepInv, PTL DEF Spec

=============================================================================

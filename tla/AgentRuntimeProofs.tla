------------------------- MODULE AgentRuntimeProofs -------------------------
(* Theorems of AgentRuntime, for every number of runs, approvals, threads   *)
(* and iterations.                                                          *)
EXTENDS AgentRuntime, TLAPS

-----------------------------------------------------------------------------
(* Type correctness. *)

LEMMA InitTypeOK == Init => TypeOK
  BY RuntimeAssumption DEF Init, TypeOK, Conversation, Steps, Taken

LEMMA RunTypeOK ==
  ASSUME TypeOK, Contest, NEW t \in Threads,
         \/ Arrive(t) \/ SaveOpening(t) \/ RequestTool(t) \/ Drive(t)
         \/ Complete(t) \/ Fail(t) \/ Crash(t)
  PROVE  TypeOK'
<1>0. contested' \subseteq Runs
  BY DEF TypeOK, Contest, Overlapping
<1> USE <1>0, RuntimeAssumption DEF TypeOK, runVars, appVars, locals, Steps, Taken, Conversation
<1>1. ASSUME NEW step \in {"opened", "asked"}, CreateRun(t, step) PROVE TypeOK'
  BY <1>1, SMTT(30) DEF CreateRun, SetStatus, RunStatus
<1>2. CASE ReadApproval(t)
  BY <1>2 DEF ReadApproval, Resolvable
<1>3. CASE StartSweep(t)
  BY <1>3 DEF StartSweep, StaleRuns
<1>4. CASE SaveOpening(t)
  BY <1>4 DEF SaveOpening, Save
<1>5. CASE RequestTool(t)
  <2>1. CASE MeetsGate(t)
    <3>1. PICK a \in Approvals : appr' = [appr EXCEPT ![t] = a]
      BY <2>1 DEF MeetsGate
    <3>2. /\ pc' = [pc EXCEPT ![t] = "park"]
          /\ UNCHANGED <<run, conv, left, sweep>>
      BY <2>1 DEF MeetsGate
    <3> QED BY <1>5, <3>1, <3>2 DEF RequestTool, Save
  <2>2. CASE Goto(t, "complete")
    BY <1>5, <2>2 DEF RequestTool, Save, Goto
  <2>3. CASE Goto(t, "fail")
    BY <1>5, <2>3 DEF RequestTool, Save, Goto
  <2> QED BY <1>5, <2>1, <2>2, <2>3 DEF RequestTool
<1>6. CASE Drive(t)
  <2>1. CASE ModelRaises(t)
    BY <2>1 DEF ModelRaises, Finish
  <2>2. CASE Answer(t)
    BY <2>2 DEF Answer, Goto
  <2>3. CASE Turn(t)
    <3>1. left' \in [Threads -> 0 .. MaxIterations]
      BY <2>3 DEF Turn, Left
    <3> QED BY <2>3, <3>1 DEF Turn, Save
  <2>4. CASE ToolRaises(t) \/ Exhausted(t)
    <3>1. /\ pc[t] = "model" /\ pc' = [pc EXCEPT ![t] = "fail"]
          /\ UNCHANGED <<runVars, appVars, locals, executions, audit, crashes>>
      BY <2>4 DEF ToolRaises, Exhausted, Goto
    <3> QED BY <3>1
  <2>5. CASE Gated(t)
    BY <2>5 DEF Gated, MeetsGate
  <2> QED BY <1>6, <2>1, <2>2, <2>3, <2>4, <2>5 DEF Drive
<1>7. CASE Complete(t)
  BY <1>7 DEF Complete, SetStatus, RunStatus, Finish
<1>8. CASE Fail(t)
  BY <1>8 DEF Fail, SetStatus, RunStatus, Finish
<1>9. CASE Crash(t)
  BY <1>9 DEF Crash, Finish
<1> QED
  BY <1>1, <1>2, <1>3, <1>4, <1>5, <1>6, <1>7, <1>8, <1>9
     DEF Arrive, Run, RequestAction

LEMMA ContinueTypeOK ==
  ASSUME pc \in [Threads -> Steps], left \in [Threads -> 0 .. MaxIterations],
         NEW t \in Threads, NEW ending \in {"complete", "fail"}, Continue(t, ending)
  PROVE  /\ pc' \in [Threads -> Steps] /\ left' \in [Threads -> 0 .. MaxIterations]
         /\ pc' = [pc EXCEPT ![t] = ending] \/ pc' = [pc EXCEPT ![t] = "model"]
<1>1. MaxIterations \in 0 .. MaxIterations
  BY RuntimeAssumption
<1> QED BY <1>1 DEF Continue, Steps

LEMMA ResolveTypeOK ==
  ASSUME TypeOK, Contest, NEW t \in Threads,
         \/ Park(t) \/ CreateApproval(t) \/ Announce(t) \/ Resolve(t)
         \/ SweepRead(t) \/ SweepFail(t)
  PROVE  TypeOK'
<1>0. contested' \subseteq Runs
  BY DEF TypeOK, Contest, Overlapping
<1> USE <1>0, RuntimeAssumption DEF TypeOK, runVars, appVars, locals, Steps, Taken, Conversation
<1>1. CASE Park(t)
  BY <1>1, SMTT(30) DEF Park, SetStatus, RunStatus, Goto
<1>2. CASE CreateApproval(t)
  BY <1>2, SMTT(30) DEF CreateApproval, ApprovalStatus, Goto
<1>3. CASE Announce(t)
  BY <1>3 DEF Announce, Record, Events, Finish
<1>4. CASE Resolve(t)
  <2>1. CASE Reject(t)
    BY <2>1 DEF Reject, ApprovalStatus, Goto
  <2>8. CASE Grant(t)
    BY <2>8 DEF Grant, ApprovalStatus, Goto
  <2>2. CASE Deny(t)
    BY <2>2 DEF Deny, Record, Events, Goto
  <2>9. CASE AuditGrant(t)
    BY <2>9 DEF AuditGrant, Record, Events, Goto
  <2>10. CASE Abort(t)
    BY <2>10, SMTT(30) DEF Abort, Record, Events, Goto
  <2>3. CASE Cancel(t)
    BY <2>3 DEF Cancel, SetStatus, RunStatus, Finish
  <2>4. CASE Approve(t)
    BY <2>4 DEF Approve
  <2>5. CASE Resume(t)
    BY <2>5 DEF Resume, AfterResume, SetStatus, RunStatus, Goto
  <2>6. CASE Execute(t)
    BY <2>6 DEF Execute, Goto
  <2>7. CASE RecordExecution(t)
    <3>1. appr[t] \in Approvals
      BY <2>7 DEF RecordExecution
    <3>2. audit' \subseteq Events
      BY <2>7, <3>1 DEF RecordExecution, Record, Events
    <3>3. /\ pc' \in [Threads -> Steps] /\ left' \in [Threads -> 0 .. MaxIterations]
          /\ pc' = [pc EXCEPT ![t] = "complete"] \/ pc' = [pc EXCEPT ![t] = "model"]
      BY <2>7, ContinueTypeOK DEF RecordExecution
    <3> QED BY <2>7, <3>2, <3>3 DEF RecordExecution, Continue
  <2>11. CASE FailTool(t)
    <3>1. appr[t] \in Approvals
      BY <2>11 DEF FailTool
    <3>2. audit' \subseteq Events
      BY <2>11, <3>1 DEF FailTool, Record, Events
    <3>3. /\ pc' \in [Threads -> Steps] /\ left' \in [Threads -> 0 .. MaxIterations]
          /\ pc' = [pc EXCEPT ![t] = "fail"] \/ pc' = [pc EXCEPT ![t] = "model"]
      BY <2>11, ContinueTypeOK DEF FailTool
    <3> QED BY <2>11, <3>2, <3>3 DEF FailTool, Continue
  <2> QED
    BY <1>4, <2>1, <2>2, <2>3, <2>4, <2>5, <2>6, <2>7, <2>8, <2>9, <2>10, <2>11
       DEF Resolve
<1>5. CASE SweepRead(t)
  BY <1>5 DEF SweepRead, Events
<1>6. CASE SweepFail(t)
  BY <1>6 DEF SweepFail, SetStatus, RunStatus
<1> QED BY <1>1, <1>2, <1>3, <1>4, <1>5, <1>6

\* Every variable keeps its type, and a request names the run and the
\* approval its step needs.
THEOREM TypeCorrect == Spec => []TypeOK
<1>1. TypeOK /\ [Next]_vars => TypeOK'
  <2> SUFFICES ASSUME TypeOK, [Next]_vars PROVE TypeOK'
    OBVIOUS
  <2>1. ASSUME NEW r \in Runs, Age(r), Contest PROVE TypeOK'
    BY <2>1 DEF Age, TypeOK, appVars, locals, Contest, Overlapping
  <2>2. CASE UNCHANGED vars
    BY <2>2 DEF vars, runVars, appVars, locals, TypeOK
  <2> QED BY <2>1, <2>2, RunTypeOK, ResolveTypeOK DEF Next, Step, Serve
<1> QED BY InitTypeOK, <1>1, PTL DEF Spec

-----------------------------------------------------------------------------
(* A decision is spent by the request that took it up.                      *)

LEMMA InitSpent == Init => SpentInv
  BY DEF Init, SpentInv

\* The steps before a call is parked, and those of the sweep, neither decide
\* nor execute.
LEMMA RunSpent ==
  ASSUME TypeOK, SpentInv, NEW t \in Threads,
         \/ Arrive(t) \/ SaveOpening(t) \/ RequestTool(t) \/ Drive(t)
         \/ Complete(t) \/ Fail(t) \/ Crash(t) \/ SweepRead(t) \/ SweepFail(t)
  PROVE  SpentInv'
<1> USE DEF appVars, locals
<1>0. /\ pc \in [Threads -> Steps]
      /\ appr \in [Threads -> Approvals \cup {None}]
      /\ decision \in [Approvals -> ApprovalStatus \cup {"ABSENT"}]
      /\ executions \in [Approvals -> [Threads -> Nat]]
      /\ None \notin Approvals
      /\ \A u \in Threads : pc[u] \in {"park", "create"} \cup Taken => appr[u] \in Approvals
  BY RuntimeAssumption DEF TypeOK, Taken
<1>1. ASSUME NEW step \in {"opened", "asked"}, CreateRun(t, step) PROVE SpentInv'
  BY <1>0, <1>1 DEF CreateRun, SpentInv
<1>2. CASE ReadApproval(t)
  BY <1>0, <1>2 DEF ReadApproval, Resolvable, SpentInv
<1>3. CASE StartSweep(t)
  BY <1>0, <1>3 DEF StartSweep, SpentInv
<1>4. CASE SaveOpening(t)
  BY <1>0, <1>4 DEF SaveOpening, SpentInv
<1>5. ASSUME MeetsGate(t), UNCHANGED <<appVars, executions, audit>> PROVE SpentInv'
  <2>1. PICK a \in Approvals :
          /\ decision[a] = "ABSENT"
          /\ \A u \in Threads : appr[u] # a
          /\ appr' = [appr EXCEPT ![t] = a]
    BY <1>5 DEF MeetsGate, FreshCall
  <2>2. pc' = [pc EXCEPT ![t] = "park"]
    BY <1>5 DEF MeetsGate
  <2>3. \A u \in Threads : /\ pc'[u] = IF u = t THEN "park" ELSE pc[u]
                           /\ appr'[u] = IF u = t THEN a ELSE appr[u]
    BY <1>0, <2>1, <2>2
  <2>4. /\ decision' = decision
        /\ executions' = executions
        /\ audit' = audit
    BY <1>5
  <2>5. \A u \in Threads : pc'[u] \in {"park", "create"} =>
          /\ decision[appr'[u]] = "ABSENT"
          /\ \A v \in Threads : appr'[v] = appr'[u] => v = u
    BY <2>1, <2>3 DEF SpentInv
  <2> QED BY <1>0, <2>1, <2>3, <2>4, <2>5 DEF SpentInv, Taken
<1>6. ASSUME NEW step \in {"complete", "fail"}, Goto(t, step),
             UNCHANGED <<appVars, executions, audit>>
      PROVE  SpentInv'
  BY <1>0, <1>6 DEF Goto, SpentInv
<1>7. ASSUME Finish(t), UNCHANGED <<appVars, executions, audit>> PROVE SpentInv'
  BY <1>0, <1>7 DEF Finish, SpentInv
<1>8. CASE RequestTool(t)
  BY <1>5, <1>6, <1>8 DEF RequestTool
<1>9. CASE Drive(t)
  <2>1. CASE Turn(t)
    BY <1>0, <2>1 DEF Turn, SpentInv
  <2>2. CASE ModelRaises(t)
    BY <2>2, <1>7 DEF ModelRaises
  <2>3. CASE Answer(t) \/ ToolRaises(t) \/ Exhausted(t)
    BY <2>3, <1>6 DEF Answer, ToolRaises, Exhausted
  <2>4. CASE Gated(t)
    BY <2>4, <1>5 DEF Gated
  <2> QED BY <1>9, <2>1, <2>2, <2>3, <2>4 DEF Drive
<1>10. CASE Complete(t) \/ Fail(t) \/ Crash(t)
  BY <1>10, <1>7 DEF Complete, Fail, Crash
<1>11. CASE SweepRead(t)
  BY <1>0, <1>11 DEF SweepRead, SpentInv
<1>12. CASE SweepFail(t)
  BY <1>0, <1>12 DEF SweepFail, SpentInv
<1> QED
  BY <1>1, <1>2, <1>3, <1>4, <1>8, <1>9, <1>10, <1>11, <1>12
     DEF Arrive, Run, RequestAction

\* The steps of an approval, from the call that is parked to its outcome.
LEMMA ResolveSpent ==
  ASSUME TypeOK, SpentInv, NEW t \in Threads,
         Park(t) \/ CreateApproval(t) \/ Announce(t) \/ Resolve(t)
  PROVE  SpentInv'
<1> USE DEF appVars, locals
<1>0. /\ pc \in [Threads -> Steps]
      /\ appr \in [Threads -> Approvals \cup {None}]
      /\ decision \in [Approvals -> ApprovalStatus \cup {"ABSENT"}]
      /\ executions \in [Approvals -> [Threads -> Nat]]
      /\ None \notin Approvals
      /\ \A u \in Threads : pc[u] \in {"park", "create"} \cup Taken => appr[u] \in Approvals
  BY RuntimeAssumption DEF TypeOK, Taken
<1>1. CASE Park(t)
  BY <1>0, <1>1 DEF Park, Goto, SpentInv
<1>2. CASE CreateApproval(t)
  BY <1>0, <1>2 DEF CreateApproval, Goto, SpentInv
<1>3. CASE Announce(t)
  BY <1>0, <1>3 DEF Announce, Record, Finish, SpentInv
<1>4. CASE Reject(t)
  BY <1>0, <1>4 DEF Reject, Goto, Taken, SpentInv
<1>5. CASE Deny(t)
  BY <1>0, <1>5 DEF Deny, Record, Goto, SpentInv
<1>6. CASE Cancel(t)
  BY <1>0, <1>6 DEF Cancel, Finish, SpentInv
<1>7. CASE Approve(t)
  BY <1>0, <1>7 DEF Approve, SpentInv
<1>8. CASE Grant(t)
  BY <1>0, <1>8 DEF Grant, Goto, Taken, SpentInv
<1>9. CASE Resume(t)
  BY <1>0, <1>9 DEF Resume, AfterResume, Goto, SpentInv
<1>10. CASE AuditGrant(t)
  BY <1>0, <1>10 DEF AuditGrant, Record, Goto, SpentInv, Taken
<1>11. CASE Execute(t)
  <2>1. /\ pc[t] = "execute"
        /\ \E step \in {"record", "toolFailed", "abort"} : pc' = [pc EXCEPT ![t] = step]
        /\ UNCHANGED <<appr, decision, audit>>
    BY <1>11 DEF Execute, Goto
  <2>2. \A a \in Approvals, u \in Threads :
          executions'[a][u] = IF a = appr[t] /\ u = t THEN executions[a][u] + 1
                              ELSE executions[a][u]
    BY <1>0, <1>11 DEF Execute
  <2>3. decision[appr[t]] \in {"APPROVED", "REJECTED"}
    BY <2>1 DEF SpentInv
  <2> QED BY <1>0, <2>1, <2>2, <2>3 DEF SpentInv, Taken
<1>12. CASE RecordExecution(t)
  <2>1. /\ pc' = [pc EXCEPT ![t] = "complete"] \/ pc' = [pc EXCEPT ![t] = "model"]
        /\ appr' = appr
    BY <1>12 DEF RecordExecution, Continue
  <2> QED BY <1>0, <1>12, <2>1 DEF RecordExecution, Record, SpentInv
<1>13. CASE FailTool(t)
  <2>1. /\ pc' = [pc EXCEPT ![t] = "fail"] \/ pc' = [pc EXCEPT ![t] = "model"]
        /\ appr' = appr
    BY <1>13 DEF FailTool, Continue
  <2> QED BY <1>0, <1>13, <2>1 DEF FailTool, Record, SpentInv
<1>14. CASE Abort(t)
  BY <1>0, <1>14 DEF Abort, Record, Goto, SpentInv
<1> QED
  BY <1>1, <1>2, <1>3, <1>4, <1>5, <1>6, <1>7, <1>8, <1>9, <1>10, <1>11, <1>12,
     <1>13, <1>14
     DEF Resolve

\* The three facts of a spent decision hold in every reachable state.
THEOREM DecisionIsSpent == Spec => []SpentInv
<1>1. TypeOK /\ SpentInv /\ [Next]_vars => SpentInv'
  <2> SUFFICES ASSUME TypeOK, SpentInv, [Next]_vars PROVE SpentInv'
    OBVIOUS
  <2>1. ASSUME NEW r \in Runs, Age(r) PROVE SpentInv'
    BY <2>1 DEF Age, SpentInv, appVars, locals
  <2>2. CASE UNCHANGED vars
    BY <2>2 DEF vars, appVars, locals, SpentInv
  <2> QED BY <2>1, <2>2, RunSpent, ResolveSpent DEF Next, Step, Serve
<1> QED BY InitSpent, <1>1, TypeCorrect, PTL DEF Spec

\* Only Execute calls a gated tool, and only the one its thread has granted.
LEMMA OnlyExecute ==
  ASSUME TypeOK, SpentInv, [Next]_vars
  PROVE  \/ executions' = executions
         \/ \E t \in Threads : Execute(t)
<1> USE DEF appVars, locals
<1>1. ASSUME NEW t \in Threads, Arrive(t) \/ Crash(t)
      PROVE  executions' = executions
  BY <1>1 DEF Arrive, Run, RequestAction, CreateRun, ReadApproval, StartSweep, Crash
<1>2. ASSUME NEW t \in Threads, Drive(t) PROVE executions' = executions
  BY <1>2 DEF Drive, ModelRaises, Answer, Turn, ToolRaises, Gated, Exhausted
<1>3. ASSUME NEW t \in Threads, Resolve(t), ~Execute(t) PROVE executions' = executions
  BY <1>3 DEF Resolve, Reject, Deny, Cancel, Approve, Grant, Resume, AuditGrant,
              RecordExecution, FailTool, Abort
<1>4. ASSUME NEW t \in Threads, Serve(t), ~Execute(t) PROVE executions' = executions
  BY <1>2, <1>3, <1>4 DEF Serve, SaveOpening, RequestTool, Complete, Fail, Park,
                          CreateApproval, Announce, SweepRead, SweepFail
<1>5. ASSUME NEW r \in Runs, Age(r) PROVE executions' = executions
  BY <1>5 DEF Age
<1> QED BY <1>1, <1>4, <1>5 DEF Next, Step, vars

\* The audit trail is only added to.
LEMMA AuditGrows == ASSUME [Next]_vars PROVE audit \subseteq audit'
<1> USE DEF appVars, locals, Record
<1>1. ASSUME NEW t \in Threads, Arrive(t) \/ Crash(t) PROVE audit' = audit
  BY <1>1 DEF Arrive, Run, RequestAction, CreateRun, ReadApproval, StartSweep, Crash
<1>2. ASSUME NEW t \in Threads, Drive(t) PROVE audit' = audit
  BY <1>2 DEF Drive, ModelRaises, Answer, Turn, ToolRaises, Gated, Exhausted
<1>3. ASSUME NEW t \in Threads, Resolve(t) PROVE audit \subseteq audit'
  BY <1>3 DEF Resolve, Reject, Deny, Cancel, Approve, Grant, Resume, AuditGrant,
              Execute, RecordExecution, FailTool, Abort
<1>4. ASSUME NEW t \in Threads, Serve(t) PROVE audit \subseteq audit'
  BY <1>2, <1>3, <1>4 DEF Serve, SaveOpening, RequestTool, Complete, Fail, Park,
                          CreateApproval, Announce, SweepRead, SweepFail
<1>5. ASSUME NEW r \in Runs, Age(r) PROVE audit' = audit
  BY <1>5 DEF Age
<1> QED BY <1>1, <1>4, <1>5 DEF Next, Step, vars

\* However requests overlap, die or are repeated, a thread calls the tool of an
\* approval once: it found the approval pending, and nothing makes it so again.
THEOREM CalledOncePerThread == Spec => []OncePerThread
<1>1. Init => OncePerThread
  BY DEF Init, OncePerThread
<1>2. TypeOK /\ SpentInv /\ OncePerThread /\ [Next]_vars => OncePerThread'
  <2> SUFFICES ASSUME TypeOK, SpentInv, OncePerThread, [Next]_vars
               PROVE  OncePerThread'
    OBVIOUS
  <2>1. ASSUME NEW t \in Threads, Execute(t) PROVE OncePerThread'
    <3>1. /\ executions[appr[t]][t] = 0
          /\ executions' = [executions EXCEPT ![appr[t]][t] = @ + 1]
      BY <2>1 DEF Execute, SpentInv
    <3>2. \A a \in Approvals, u \in Threads :
            executions'[a][u] = IF a = appr[t] /\ u = t THEN 1 ELSE executions[a][u]
      BY <3>1 DEF TypeOK
    <3> QED BY <3>2 DEF OncePerThread
  <2>2. CASE executions' = executions
    BY <2>2 DEF OncePerThread
  <2> QED BY <2>1, <2>2, OnlyExecute
<1> QED BY <1>1, <1>2, TypeCorrect, DecisionIsSpent, PTL DEF Spec

\* No gated tool runs before a grant of its approval is in the audit trail.
THEOREM GatedRunsAreGranted == Spec => []ExecutedWasGranted
<1>1. Init => ExecutedWasGranted
  BY DEF Init, ExecutedWasGranted
<1>2. TypeOK /\ SpentInv /\ ExecutedWasGranted /\ [Next]_vars => ExecutedWasGranted'
  <2> SUFFICES ASSUME TypeOK, SpentInv, ExecutedWasGranted, [Next]_vars
               PROVE  ExecutedWasGranted'
    OBVIOUS
  <2>1. audit \subseteq audit'
    BY AuditGrows
  <2>2. ASSUME NEW t \in Threads, Execute(t) PROVE ExecutedWasGranted'
    <3>1. /\ [event |-> "APPROVAL_GRANTED", appr |-> appr[t]] \in audit
          /\ executions' = [executions EXCEPT ![appr[t]][t] = @ + 1]
      BY <2>2 DEF Execute, SpentInv
    <3>2. \A a \in Approvals, u \in Threads :
            a = appr[t] \/ executions'[a][u] = executions[a][u]
      BY <3>1 DEF TypeOK
    <3> QED BY <2>1, <3>1, <3>2 DEF ExecutedWasGranted
  <2>3. CASE executions' = executions
    BY <2>1, <2>3 DEF ExecutedWasGranted
  <2> QED BY <2>2, <2>3, OnlyExecute
<1> QED BY <1>1, <1>2, TypeCorrect, DecisionIsSpent, PTL DEF Spec

\* An approval stays its run's, and is never absent again.
LEMMA RunOfStays ==
  ASSUME TypeOK, SpentInv, [Next]_vars, NEW a \in Approvals, decision[a] # "ABSENT"
  PROVE  runOf'[a] = runOf[a]
<1> USE DEF appVars, locals
<1>1. ASSUME NEW t \in Threads, Arrive(t) \/ Crash(t) PROVE runOf' = runOf
  BY <1>1 DEF Arrive, Run, RequestAction, CreateRun, ReadApproval, StartSweep, Crash
<1>2. ASSUME NEW t \in Threads, Drive(t) PROVE runOf' = runOf
  BY <1>2 DEF Drive, ModelRaises, Answer, Turn, ToolRaises, Gated, Exhausted
<1>3. ASSUME NEW t \in Threads, Resolve(t) PROVE runOf' = runOf
  BY <1>3 DEF Resolve, Reject, Deny, Cancel, Approve, Grant, Resume, AuditGrant, Execute,
              RecordExecution, FailTool, Abort
<1>4. ASSUME NEW t \in Threads, CreateApproval(t) PROVE runOf'[a] = runOf[a]
  BY <1>4 DEF CreateApproval, SpentInv, TypeOK
<1>5. ASSUME NEW t \in Threads, Serve(t), ~CreateApproval(t) PROVE runOf' = runOf
  BY <1>2, <1>3, <1>5 DEF Serve, SaveOpening, RequestTool, Complete, Fail, Park, Announce,
                          SweepRead, SweepFail
<1>6. ASSUME NEW r \in Runs, Age(r) PROVE runOf' = runOf
  BY <1>6 DEF Age
<1> QED BY <1>1, <1>4, <1>5, <1>6 DEF Next, Step, vars

\* As long as nobody has died, nobody dies now.
LEMMA CrashesCount ==
  ASSUME TypeOK, [Next]_vars, crashes' = 0
  PROVE  crashes = 0 /\ \A u \in Threads : ~Crash(u)
<1>1. ASSUME NEW t \in Threads, Arrive(t) PROVE crashes' = crashes
  BY <1>1 DEF Arrive, Run, RequestAction, CreateRun, ReadApproval, StartSweep
<1>2. ASSUME NEW t \in Threads, Drive(t) PROVE crashes' = crashes
  BY <1>2 DEF Drive, ModelRaises, Answer, Turn, ToolRaises, Gated, Exhausted
<1>3. ASSUME NEW t \in Threads, Resolve(t) PROVE crashes' = crashes
  BY <1>3 DEF Resolve, Reject, Deny, Cancel, Approve, Grant, Resume, AuditGrant,
              Execute, RecordExecution, FailTool, Abort
<1>4. ASSUME NEW t \in Threads, Serve(t) PROVE crashes' = crashes
  BY <1>2, <1>3, <1>4 DEF Serve, SaveOpening, RequestTool, Complete, Fail, Park,
                          CreateApproval, Announce, SweepRead, SweepFail
<1>5. ASSUME NEW r \in Runs, Age(r) PROVE crashes' = crashes
  BY <1>5 DEF Age
<1>6. ASSUME NEW t \in Threads, Crash(t) PROVE FALSE
  BY <1>6 DEF Crash, TypeOK
<1> QED BY <1>1, <1>4, <1>5, <1>6 DEF Next, Step, vars

\* A request with an outcome to report stays where it is until it has written
\* it, or its process dies.
LEMMA OutcomeIsWritten ==
  ASSUME TypeOK, [Next]_vars, NEW u \in Threads,
         pc[u] \in {"record", "toolFailed", "abort"}
  PROVE  \/ pc'[u] = pc[u] /\ appr'[u] = appr[u]
         \/ RecordExecution(u) \/ FailTool(u) \/ Abort(u) \/ Crash(u)
<1> DEFINE Stays == pc'[u] = pc[u] /\ appr'[u] = appr[u]
<1> USE DEF locals
<1>0. /\ pc \in [Threads -> Steps]
      /\ appr \in [Threads -> Approvals \cup {None}]
  BY DEF TypeOK
<1>1. ASSUME NEW t \in Threads, t # u, Finish(t) PROVE Stays
  BY <1>0, <1>1 DEF Finish
<1>2. ASSUME NEW t \in Threads, t # u, NEW step \in Steps, Goto(t, step) PROVE Stays
  BY <1>0, <1>2 DEF Goto
<1>3. ASSUME NEW t \in Threads, t # u, MeetsGate(t) PROVE Stays
  BY <1>0, <1>3 DEF MeetsGate
<1>4. ASSUME NEW t \in Threads, t # u, NEW ending \in Steps, Continue(t, ending)
      PROVE  Stays
  <2>1. /\ pc' = [pc EXCEPT ![t] = ending] \/ pc' = [pc EXCEPT ![t] = "model"]
        /\ appr' = appr
    BY <1>4 DEF Continue
  <2> QED BY <1>0, <1>4, <2>1
<1>5. ASSUME NEW t \in Threads, Arrive(t) PROVE Stays
  <2>1. ASSUME NEW step \in {"opened", "asked"}, CreateRun(t, step) PROVE Stays
    BY <1>0, <2>1 DEF CreateRun
  <2>2. CASE ReadApproval(t)
    BY <1>0, <2>2 DEF ReadApproval
  <2>3. CASE StartSweep(t)
    BY <1>0, <2>3 DEF StartSweep
  <2> QED BY <1>5, <2>1, <2>2, <2>3 DEF Arrive, Run, RequestAction
<1>6. ASSUME NEW t \in Threads, t # u, Drive(t) PROVE Stays
  <2>1. CASE Turn(t)
    BY <1>0, <1>6, <2>1 DEF Turn
  <2> QED
    BY <1>1, <1>2, <1>3, <1>6, <2>1
       DEF Drive, ModelRaises, Answer, ToolRaises, Gated, Exhausted, Steps
<1>7. ASSUME NEW t \in Threads, t # u, Resolve(t) PROVE Stays
  <2>1. CASE Approve(t)
    BY <1>0, <1>7, <2>1 DEF Approve
  <2>2. CASE Cancel(t)
    BY <1>1, <1>7, <2>2 DEF Cancel
  <2>3. CASE Reject(t) \/ Deny(t) \/ Grant(t) \/ Resume(t) \/ AuditGrant(t) \/ Abort(t)
    BY <1>2, <1>7, <2>3
       DEF Reject, Deny, Grant, Resume, AfterResume, AuditGrant, Abort, Steps
  <2>4. CASE Execute(t)
    BY <1>2, <1>7, <2>4 DEF Execute, Steps
  <2>5. CASE RecordExecution(t) \/ FailTool(t)
    BY <1>4, <1>7, <2>5 DEF RecordExecution, FailTool, Steps
  <2> QED BY <1>7, <2>1, <2>2, <2>3, <2>4, <2>5 DEF Resolve
<1>8. ASSUME NEW t \in Threads, t # u, Serve(t) PROVE Stays
  <2>1. CASE SaveOpening(t)
    BY <1>0, <1>8, <2>1 DEF SaveOpening
  <2>2. CASE RequestTool(t)
    BY <1>2, <1>3, <1>8, <2>2 DEF RequestTool, Steps
  <2>3. CASE Complete(t) \/ Fail(t) \/ Announce(t)
    BY <1>1, <1>8, <2>3 DEF Complete, Fail, Announce
  <2>4. CASE Park(t) \/ CreateApproval(t)
    BY <1>2, <1>8, <2>4 DEF Park, CreateApproval, Steps
  <2>5. CASE SweepRead(t)
    BY <1>0, <1>8, <2>5 DEF SweepRead
  <2>6. CASE SweepFail(t)
    BY <1>0, <1>8, <2>6 DEF SweepFail
  <2> QED BY <1>6, <1>7, <1>8, <2>1, <2>2, <2>3, <2>4, <2>5, <2>6 DEF Serve
<1>9. ASSUME Serve(u) PROVE RecordExecution(u) \/ FailTool(u) \/ Abort(u)
  BY <1>9
     DEF Serve, SaveOpening, RequestTool, Drive, ModelRaises, Answer, Turn, ToolRaises,
         Gated, Exhausted, Complete, Fail, Park, CreateApproval, Announce, Resolve,
         Reject, Deny, Cancel, Approve, Grant, Resume, AuditGrant, Execute, SweepRead,
         SweepFail
<1>10. ASSUME NEW t \in Threads, t # u, Crash(t) PROVE Stays
  BY <1>1, <1>10 DEF Crash
<1>11. ASSUME NEW r \in Runs, Age(r) PROVE Stays
  BY <1>11 DEF Age
<1>12. CASE UNCHANGED vars
  BY <1>12 DEF vars
<1> QED BY <1>5, <1>8, <1>9, <1>10, <1>11, <1>12 DEF Next, Step

\* A gated tool that was called has its outcome in the audit trail, as long as
\* no process died and once no request is about to write it.
THEOREM CallsAreReported == Spec => []ExecutionIsReported
<1>1. Init => ExecutionIsReported
  BY DEF Init, ExecutionIsReported
<1>2. TypeOK /\ SpentInv /\ ExecutionIsReported /\ [Next]_vars => ExecutionIsReported'
  <2> SUFFICES ASSUME TypeOK, SpentInv, ExecutionIsReported, [Next]_vars,
                      NEW a \in Approvals, NEW t \in Threads,
                      executions'[a][t] > 0, crashes' = 0,
                      \A u \in Threads :
                        appr'[u] = a => pc'[u] \notin {"record", "toolFailed", "abort"}
               PROVE  \E e \in {"TOOL_EXECUTED", "TOOL_FAILED", "AGENT_FAILED"} :
                        [event |-> e, appr |-> a] \in audit'
    BY DEF ExecutionIsReported
  <2>1. crashes = 0 /\ \A u \in Threads : ~Crash(u)
    BY CrashesCount
  <2>2. executions[a][t] > 0
    <3>1. ASSUME NEW u \in Threads, Execute(u) PROVE executions[a][t] > 0
      <4>1. /\ executions' = [executions EXCEPT ![appr[u]][u] = @ + 1]
            /\ appr' = appr
            /\ pc'[u] \in {"record", "toolFailed", "abort"}
        BY <3>1 DEF Execute, Goto, locals, TypeOK
      <4>2. appr[u] # a
        BY <4>1
      <4> QED BY <4>1, <4>2 DEF TypeOK
    <3> QED BY <3>1, OnlyExecute
  <2>3. audit \subseteq audit'
    BY AuditGrows
  <2>4. ASSUME NEW u \in Threads, appr[u] = a,
               pc[u] \in {"record", "toolFailed", "abort"}
        PROVE  \E e \in {"TOOL_EXECUTED", "TOOL_FAILED", "AGENT_FAILED"} :
                 [event |-> e, appr |-> a] \in audit'
    <3>1. RecordExecution(u) \/ FailTool(u) \/ Abort(u)
      BY <2>1, <2>4, OutcomeIsWritten
    <3> QED BY <2>4, <3>1 DEF RecordExecution, FailTool, Abort, Record
  <2> QED BY <2>1, <2>2, <2>3, <2>4 DEF ExecutionIsReported
<1> QED BY <1>1, <1>2, TypeCorrect, DecisionIsSpent, PTL DEF Spec
-----------------------------------------------------------------------------
(* What is left of a request's hold on its run when requests overlap.       *)

\* The steps at which a request's run is RUNNING, and at which it waits.
AtWork == {"opened", "asked", "model", "park", "complete", "fail", "granted", "execute",
           "record", "toolFailed", "abort", "sweepFail"}
AtRest == {"create", "announce", "decide", "deny", "cancel", "grant", "resume"}

\* Whatever the others do: a request names the run of its approval, and no run
\* it is at work on is yet to be created.
Placed(t) ==
  /\ pc[t] \in Taken => runOf[appr[t]] = run[t]
  /\ sweep[t] # {} => pc[t] \in {"sweep", "sweepFail"}
  /\ pc[t] \in {"idle", "sweep"} => run[t] = None
  /\ pc[t] = "sweepFail" => run[t] \notin sweep[t]
  /\ pc[t] \notin {"idle", "sweep"} => status[run[t]] # "ABSENT"
  /\ \A r \in sweep[t] : status[r] # "ABSENT"

\* What no other request can change while a request is the only one on its run:
\* where the run is, which decision has been taken, and what it is parked at.
Alone(t) ==
  /\ pc[t] \in AtWork => status[run[t]] = "RUNNING"
  /\ pc[t] \in AtRest => status[run[t]] = "WAITING_FOR_APPROVAL"
  /\ pc[t] \in {"decide", "grant"} => decision[appr[t]] = "PENDING"
  /\ pc[t] \in {"deny", "cancel"} => decision[appr[t]] = "REJECTED"
  /\ pc[t] \in {"resume", "granted", "execute"} => decision[appr[t]] = "APPROVED"
  /\ pc[t] \in {"create", "deny", "cancel", "resume"} => Governed!Settled(run[t])
  /\ pc[t] = "create" => conversation[run[t]] \in {Empty, appr[t]}
  /\ pc[t] \in {"grant", "resume", "granted", "execute", "record", "toolFailed"}
       => conv[t] \in {Empty, appr[t]}
  /\ pc[t] \in {"resume", "granted", "execute"} => Governed!Unspent(appr[t])

Held(t) ==
  /\ Placed(t)
  /\ run[t] \notin contested => Alone(t)
  /\ \A r \in sweep[t] \ contested : status[r] = "RUNNING"

\* A pending approval of an uncontested run is the one the run is parked at, and
\* the only one.
Parked(a) ==
  decision[a] = "PENDING" /\ runOf[a] \notin contested =>
    /\ status[runOf[a]] = "WAITING_FOR_APPROVAL"
    /\ conversation[runOf[a]] \in {Empty, a}
    /\ \A b \in Approvals : decision[b] = "PENDING" /\ runOf[b] = runOf[a] => b = a

HoldInv ==
  /\ Overlapping \subseteq contested
  /\ \A t \in Threads : Held(t)
  /\ \A a \in Approvals :
       /\ Parked(a)
       /\ decision[a] # "ABSENT" => status[runOf[a]] # "ABSENT"

\* A step leaves the request of thread u where it is.
Keeps(u) ==
  /\ pc'[u] = pc[u] /\ run'[u] = run[u] /\ appr'[u] = appr[u]
  /\ conv'[u] = conv[u] /\ sweep'[u] = sweep[u]

\* A step of thread t is confined to one run, and to that run's approvals.
Confined(t, r) ==
  /\ \A q \in Runs \ {r} : status'[q] = status[q] /\ conversation'[q] = conversation[q]
  /\ \A a \in Approvals :
       \/ /\ decision'[a] = decision[a] /\ runOf'[a] = runOf[a]
          /\ executions'[a] = executions[a]
       \/ runOf'[a] = r /\ (decision[a] = "ABSENT" \/ runOf[a] = r)
  /\ \A q \in Runs : status[q] # "ABSENT" => status'[q] # "ABSENT"
  /\ \A u \in Threads \ {t} : Keeps(u) /\ (r \in Touches(u) => r \in contested)

\* What the requests of others hold is not disturbed by such a step.
LEMMA OthersHold ==
  ASSUME TypeOK, HoldInv, NEW t \in Threads, NEW r, Confined(t, r), Contest,
         NEW u \in Threads \ {t}
  PROVE  Held(u)'
<1> USE RuntimeAssumption
<1>0. /\ Keeps(u) /\ Held(u) /\ (r \in Touches(u) => r \in contested)
      /\ contested \subseteq contested' /\ contested \subseteq Runs
  BY DEF Confined, HoldInv, Contest, TypeOK
<1>1. Placed(u)'
  <2>1. pc[u] \in Taken => runOf'[appr[u]] = run[u]
    <3>1. pc[u] \in Taken =>
            /\ appr[u] \in Approvals /\ decision[appr[u]] # "ABSENT"
            /\ runOf[appr[u]] = run[u]
      BY <1>0 DEF TypeOK, Taken, Held, Placed
    <3> QED BY <3>1 DEF Confined
  <2>2. /\ pc[u] \notin {"idle", "sweep"} => status'[run[u]] # "ABSENT"
        /\ \A q \in sweep[u] : status'[q] # "ABSENT"
    BY <1>0 DEF Confined, Held, Placed, TypeOK
  <2> QED BY <1>0, <2>1, <2>2 DEF Placed, Held, Keeps
<1>2. \A q \in sweep[u] \ contested' : status'[q] = "RUNNING"
  <2>1. ASSUME NEW q \in sweep[u], q \notin contested' PROVE status'[q] = "RUNNING"
    <3>1. q \in Runs /\ q \in Touches(u)
      BY <1>0, <2>1 DEF Held, Placed, Touches, TypeOK
    <3>2. q # r
      BY <1>0, <2>1, <3>1
    <3> QED BY <1>0, <2>1, <3>1, <3>2 DEF Confined, Held
  <2> QED BY <2>1
<1>3. ASSUME run[u] \notin contested' PROVE Alone(u)'
  <2>1. /\ Alone(u)
        /\ pc[u] \notin {"idle", "sweep"} => run[u] \in Runs /\ run[u] # r
    BY <1>0, <1>3 DEF Held, Touches, TypeOK
  <2>2. pc[u] \in Taken =>
          /\ appr[u] \in Approvals /\ decision[appr[u]] # "ABSENT"
          /\ runOf[appr[u]] = run[u] /\ run[u] # r
          /\ decision'[appr[u]] = decision[appr[u]]
          /\ runOf'[appr[u]] = runOf[appr[u]]
          /\ executions'[appr[u]] = executions[appr[u]]
    BY <1>0, <2>1 DEF Confined, Taken, TypeOK, Held, Placed
  <2>3. \A b \in Approvals : runOf'[b] = run[u] /\ run[u] # r =>
          decision'[b] = decision[b] /\ runOf'[b] = runOf[b]
    BY DEF Confined
  <2>4. /\ pc[u] \in AtWork => status'[run[u]] = "RUNNING"
        /\ pc[u] \in AtRest => status'[run[u]] = "WAITING_FOR_APPROVAL"
        /\ pc[u] = "create" => conversation'[run[u]] \in {Empty, appr[u]}
    BY <2>1 DEF Confined, Alone, AtWork, AtRest
  <2>5. pc[u] \in {"create", "deny", "cancel", "resume"} => Governed!Settled(run[u])'
    BY <1>0, <2>1, <2>3 DEF Alone, Governed!Settled, Keeps
  <2>6. pc[u] \in {"resume", "granted", "execute"} => Governed!Unspent(appr[u])'
    BY <1>0, <2>1, <2>2 DEF Alone, Governed!Unspent, Keeps, Taken
  <2>7. /\ pc[u] \in {"decide", "grant"} => decision'[appr[u]] = "PENDING"
        /\ pc[u] \in {"deny", "cancel"} => decision'[appr[u]] = "REJECTED"
        /\ pc[u] \in {"resume", "granted", "execute"} => decision'[appr[u]] = "APPROVED"
    BY <2>1, <2>2 DEF Alone, Taken
  <2> QED BY <1>0, <2>1, <2>4, <2>5, <2>6, <2>7 DEF Alone, Keeps
<1> QED BY <1>0, <1>1, <1>2, <1>3 DEF Held, Keeps

\* So a step keeps the invariant if it keeps what its own request holds, and
\* leaves its run's pending approvals parked.
LEMMA ConfinedSteps ==
  ASSUME TypeOK, HoldInv, NEW t \in Threads, NEW r, Confined(t, r),
         Contest, Held(t)',
         \A a \in Approvals : \/ decision'[a] = "ABSENT"
                              \/ decision[a] # "ABSENT" /\ runOf'[a] = runOf[a]
                              \/ status'[runOf'[a]] # "ABSENT",
         \A a \in Approvals : decision'[a] = "PENDING" /\ runOf'[a] = r => Parked(a)'
  PROVE  HoldInv'
<1>0. /\ contested \subseteq contested'
      /\ (Overlapping \subseteq contested)'
  BY DEF Contest
<1>1. ASSUME NEW a \in Approvals, decision'[a] = "PENDING", runOf'[a] # r,
             runOf'[a] \notin contested'
      PROVE  Parked(a)'
  <2>1. /\ decision[a] = "PENDING" /\ runOf'[a] = runOf[a] /\ runOf[a] \in Runs
        /\ runOf[a] \notin contested /\ Parked(a)
    BY <1>0, <1>1 DEF Confined, HoldInv, TypeOK
  <2>2. /\ status'[runOf[a]] = status[runOf[a]]
        /\ conversation'[runOf[a]] = conversation[runOf[a]]
    BY <1>1, <2>1 DEF Confined
  <2>3. \A b \in Approvals :
          runOf'[b] = runOf'[a] => decision'[b] = decision[b] /\ runOf'[b] = runOf[b]
    BY <1>1 DEF Confined
  <2> QED BY <1>1, <2>1, <2>2, <2>3 DEF Parked
<1>2. \A a \in Approvals : Parked(a)'
  BY <1>1 DEF Parked
<1>3. ASSUME NEW a \in Approvals, decision'[a] # "ABSENT"
      PROVE  status'[runOf'[a]] # "ABSENT"
  <2>1. CASE decision[a] # "ABSENT" /\ runOf'[a] = runOf[a]
    BY <2>1 DEF Confined, HoldInv, TypeOK
  <2> QED BY <1>3, <2>1
<1> QED BY <1>0, <1>2, <1>3, OthersHold DEF HoldInv

\* A step of one request leaves the others where they are.
LEMMA OthersKeep ==
  ASSUME TypeOK, NEW t \in Threads, Arrive(t) \/ Serve(t) \/ Crash(t),
         NEW u \in Threads \ {t}
  PROVE  Keeps(u)
<1> USE DEF locals, Keeps
<1>0. /\ pc \in [Threads -> Steps]
      /\ run \in [Threads -> Runs \cup {None}]
      /\ appr \in [Threads -> Approvals \cup {None}]
      /\ conv \in [Threads -> Conversation]
      /\ sweep \in [Threads -> SUBSET Runs]
  BY DEF TypeOK
<1>1. ASSUME Finish(t) PROVE Keeps(u)
  BY <1>0, <1>1 DEF Finish
<1>2. ASSUME NEW step, Goto(t, step) PROVE Keeps(u)
  BY <1>0, <1>2 DEF Goto
<1>3. ASSUME MeetsGate(t) PROVE Keeps(u)
  BY <1>0, <1>3 DEF MeetsGate
<1>4. ASSUME NEW ending, Continue(t, ending) PROVE Keeps(u)
  <2>1. /\ pc' = [pc EXCEPT ![t] = ending] \/ pc' = [pc EXCEPT ![t] = "model"]
        /\ UNCHANGED <<run, appr, conv, sweep>>
    BY <1>4 DEF Continue
  <2> QED BY <1>0, <2>1
<1>5. CASE Arrive(t)
  <2>1. ASSUME NEW step, CreateRun(t, step) PROVE Keeps(u)
    BY <1>0, <2>1 DEF CreateRun
  <2>2. CASE ReadApproval(t)
    BY <1>0, <2>2 DEF ReadApproval
  <2>3. CASE StartSweep(t)
    BY <1>0, <2>3 DEF StartSweep
  <2> QED BY <1>5, <2>1, <2>2, <2>3 DEF Arrive, Run, RequestAction
<1>6. CASE Drive(t)
  <2>1. CASE Turn(t)
    BY <1>0, <2>1 DEF Turn
  <2> QED
    BY <1>1, <1>2, <1>3, <1>6, <2>1
       DEF Drive, ModelRaises, Answer, ToolRaises, Gated, Exhausted
<1>7. CASE Resolve(t)
  <2>1. CASE Approve(t)
    BY <1>0, <2>1 DEF Approve
  <2>2. CASE Cancel(t)
    BY <1>1, <2>2 DEF Cancel
  <2>3. CASE Reject(t) \/ Deny(t) \/ Grant(t) \/ Resume(t) \/ AuditGrant(t) \/ Abort(t)
    BY <1>2, <2>3 DEF Reject, Deny, Grant, Resume, AuditGrant, Abort
  <2>4. CASE Execute(t)
    BY <1>2, <2>4 DEF Execute
  <2>5. CASE RecordExecution(t) \/ FailTool(t)
    BY <1>4, <2>5 DEF RecordExecution, FailTool
  <2> QED BY <1>7, <2>1, <2>2, <2>3, <2>4, <2>5 DEF Resolve
<1>8. CASE SaveOpening(t)
  BY <1>0, <1>8 DEF SaveOpening
<1>9. CASE RequestTool(t)
  BY <1>2, <1>3, <1>9 DEF RequestTool
<1>10. CASE Complete(t) \/ Fail(t) \/ Announce(t) \/ Crash(t)
  BY <1>1, <1>10 DEF Complete, Fail, Announce, Crash
<1>11. CASE Park(t) \/ CreateApproval(t)
  BY <1>2, <1>11 DEF Park, CreateApproval
<1>12. CASE SweepRead(t)
  BY <1>0, <1>12 DEF SweepRead
<1>13. CASE SweepFail(t)
  BY <1>0, <1>13 DEF SweepFail
<1> QED
  BY <1>5, <1>6, <1>7, <1>8, <1>9, <1>10, <1>11, <1>12, <1>13 DEF Serve

\* Who shares a request's run contests it.
LEMMA HeldApart ==
  ASSUME TypeOK, HoldInv, NEW t \in Threads, pc[t] \notin {"idle", "sweep"}
  PROVE  /\ run[t] \in Runs /\ run[t] # None
         /\ \A u \in Threads \ {t} : run[t] \in Touches(u) => run[t] \in contested
<1>1. run[t] \in Runs /\ run[t] # None
  BY RuntimeAssumption DEF TypeOK
<1>2. run[t] \in Touches(t)
  BY <1>1 DEF Touches
<1>3. ASSUME NEW u \in Threads \ {t}, run[t] \in Touches(u) PROVE run[t] \in contested
  BY <1>1, <1>2, <1>3 DEF HoldInv, Overlapping
<1> QED BY <1>1, <1>3

\* An uncontested run at work has no approval pending.
LEMMA NonePending ==
  ASSUME TypeOK, HoldInv, NEW t \in Threads, pc[t] \in AtWork, run[t] \notin contested,
         NEW a \in Approvals, decision[a] = "PENDING"
  PROVE  runOf[a] # run[t]
  BY DEF HoldInv, Parked, Held, Alone

\* A step that writes neither a run, nor an approval, nor a call.
LEMMA QuietSteps ==
  ASSUME TypeOK, HoldInv, NEW t \in Threads,
         Arrive(t) \/ Serve(t) \/ Crash(t),
         UNCHANGED <<status, conversation, decision, runOf, executions>>,
         Contest, Held(t)'
  PROVE  HoldInv'
<1>1. None \notin Runs /\ \A u \in Threads : None \notin Touches(u)
  BY RuntimeAssumption DEF TypeOK, Touches
<1>2. Confined(t, None)
  BY <1>1, OthersKeep DEF Confined
<1>3. \A a \in Approvals : decision'[a] = "PENDING" => runOf'[a] # None
  BY <1>1 DEF TypeOK
<1> QED BY <1>2, <1>3, ConfinedSteps

\* A step that writes the run its request holds.
LEMMA WritesItsRun ==
  ASSUME TypeOK, HoldInv, NEW t \in Threads, Serve(t),
         pc[t] \notin {"idle", "sweep"},
         \A q \in Runs \ {run[t]} : status'[q] = status[q] /\ conversation'[q] = conversation[q],
         status'[run[t]] # "ABSENT",
         UNCHANGED <<decision, runOf, executions>>,
         run[t] \notin contested =>
           \A a \in Approvals : decision[a] = "PENDING" => runOf[a] # run[t],
         Contest, Held(t)'
  PROVE  HoldInv'
<1>1. Confined(t, run[t])
  BY HeldApart, OthersKeep DEF Confined
<1>2. \A a \in Approvals : decision'[a] = "PENDING" /\ runOf'[a] = run[t] => Parked(a)'
  BY DEF Parked, Contest
<1> QED BY <1>1, <1>2, ConfinedSteps

\* Requests arrive: a new run, a pending approval, the stale runs.
LEMMA ArriveHolds ==
  ASSUME TypeOK, SpentInv, HoldInv, NEW t \in Threads, Arrive(t), Contest
  PROVE  HoldInv'
<1> USE DEF appVars, Placed, Alone
<1>0. /\ pc \in [Threads -> Steps] /\ run \in [Threads -> Runs \cup {None}]
      /\ appr \in [Threads -> Approvals \cup {None}]
      /\ sweep \in [Threads -> SUBSET Runs]
      /\ status \in [Runs -> RunStatus \cup {"ABSENT"}]
      /\ conversation \in [Runs -> Conversation]
      /\ Held(t) /\ contested \subseteq contested'
  BY DEF Contest, TypeOK, HoldInv
<1>1. ASSUME NEW step \in {"opened", "asked"}, CreateRun(t, step) PROVE HoldInv'
  <2>1. PICK r \in Runs : /\ status[r] = "ABSENT"
                          /\ status' = [status EXCEPT ![r] = "RUNNING"]
                          /\ run' = [run EXCEPT ![t] = r]
    BY <1>1 DEF CreateRun, SetStatus
  <2>2. \A u \in Threads : r \notin Touches(u)
    <3>1. \A u \in Threads : Placed(u)
      BY DEF HoldInv, Held
    <3>2. \A u \in Threads : pc[u] # "idle" => r \notin sweep[u]
      BY <2>1, <3>1 DEF Placed
    <3>3. \A u \in Threads : pc[u] # "idle" => run[u] = None \/ run[u] # r
      BY <2>1, <3>1 DEF Placed
    <3> QED BY <3>2, <3>3 DEF Touches
  <2>3. Confined(t, r)
    BY <1>0, <1>1, <2>1, <2>2, OthersKeep DEF Confined, CreateRun, Arrive, Run, RequestAction
  <2>4. \A a \in Approvals : decision'[a] = "PENDING" => runOf'[a] # r
    BY <1>1, <2>1 DEF CreateRun, HoldInv
  <2>5. Held(t)'
    BY <1>0, <1>1, <2>1 DEF CreateRun, Held, AtWork, AtRest, Taken
  <2>6. \A a \in Approvals : decision'[a] = decision[a] /\ runOf'[a] = runOf[a]
    BY <1>1 DEF CreateRun
  <2> QED BY <2>3, <2>4, <2>5, <2>6, ConfinedSteps
<1>2. CASE ReadApproval(t)
  <2>1. PICK a \in Approvals : /\ decision[a] = "PENDING"
                               /\ appr' = [appr EXCEPT ![t] = a]
                               /\ run' = [run EXCEPT ![t] = runOf[a]]
    BY <1>2 DEF ReadApproval, Resolvable
  <2>2. /\ runOf[a] \notin contested => status[runOf[a]] = "WAITING_FOR_APPROVAL"
        /\ status[runOf[a]] # "ABSENT"
    BY <2>1 DEF HoldInv, Parked
  <2>3. Held(t)'
    BY <1>0, <1>2, <2>1, <2>2 DEF ReadApproval, runVars, Held, AtWork, AtRest, Taken
  <2> QED BY <1>2, <2>3, QuietSteps DEF ReadApproval, runVars
<1>3. CASE StartSweep(t)
  <2>1. Held(t)'
    BY <1>0, <1>3 DEF StartSweep, StaleRuns, runVars, Held, AtWork, AtRest, Taken
  <2> QED BY <1>3, <2>1, QuietSteps DEF StartSweep, runVars
<1> QED BY <1>1, <1>2, <1>3 DEF Arrive, Run, RequestAction

\* The steps of a request up to the parking of its call, and its end.
LEMMA DriveHolds ==
  ASSUME TypeOK, SpentInv, HoldInv, NEW t \in Threads, Contest,
         \/ SaveOpening(t) \/ RequestTool(t) \/ Drive(t) \/ Complete(t) \/ Fail(t)
         \/ Crash(t)
  PROVE  HoldInv'
<1> USE DEF appVars, locals, Placed, Alone
<1>0. /\ pc \in [Threads -> Steps] /\ run \in [Threads -> Runs \cup {None}]
      /\ appr \in [Threads -> Approvals \cup {None}]
      /\ conv \in [Threads -> Conversation]
      /\ sweep \in [Threads -> SUBSET Runs]
      /\ status \in [Runs -> RunStatus \cup {"ABSENT"}]
      /\ conversation \in [Runs -> Conversation]
      /\ pc[t] \notin {"idle", "sweep"} => run[t] \in Runs /\ status[run[t]] # "ABSENT"
      /\ Held(t) /\ contested \subseteq contested'
  BY DEF Contest, TypeOK, HoldInv, Held, Placed
<1>1. ASSUME Finish(t) PROVE Held(t)'
  BY <1>0, <1>1 DEF Finish, Held, AtWork, AtRest, Taken
<1>2. ASSUME pc[t] \in AtWork \ {"sweepFail"}, status'[run[t]] = status[run[t]],
             run'[t] = run[t], sweep'[t] = sweep[t],
             pc'[t] \in {"model", "park", "complete", "fail"}
      PROVE  Held(t)'
  BY <1>0, <1>2 DEF Held, AtWork, AtRest, Taken
<1>3. pc[t] \in AtWork /\ run[t] \notin contested =>
        \A a \in Approvals : decision[a] = "PENDING" => runOf[a] # run[t]
  BY NonePending
<1>4. CASE SaveOpening(t)
  <2>1. Held(t)'
    BY <1>0, <1>2, <1>4 DEF SaveOpening, AtWork
  <2> QED BY <1>0, <1>3, <1>4, <2>1, WritesItsRun DEF SaveOpening, Save, Serve, AtWork
<1>5. CASE RequestTool(t)
  <2>1. /\ pc[t] = "asked" /\ status' = status /\ run' = run /\ sweep' = sweep
        /\ pc' \in {[pc EXCEPT ![t] = s] : s \in {"park", "complete", "fail"}}
        /\ conversation' = [conversation EXCEPT ![run[t]] = Empty]
        /\ UNCHANGED <<decision, runOf, executions>>
    BY <1>5 DEF RequestTool, Save, MeetsGate, Goto
  <2>2. Held(t)'
    BY <1>0, <1>2, <2>1 DEF AtWork
  <2> QED BY <1>0, <1>3, <1>5, <2>1, <2>2, WritesItsRun DEF Serve, AtWork
<1>6. CASE Turn(t)
  <2>1. Held(t)'
    BY <1>0, <1>2, <1>6 DEF Turn, AtWork
  <2> QED BY <1>0, <1>3, <1>6, <2>1, WritesItsRun DEF Turn, Save, Serve, Drive, AtWork
<1>7. CASE ModelRaises(t) \/ Crash(t)
  BY <1>1, <1>7, QuietSteps DEF ModelRaises, Crash, runVars, Serve, Drive
<1>8. CASE Answer(t) \/ ToolRaises(t) \/ Gated(t) \/ Exhausted(t)
  <2>1. /\ pc[t] = "model" /\ run' = run /\ sweep' = sweep
        /\ pc' \in {[pc EXCEPT ![t] = s] : s \in {"park", "complete", "fail"}}
        /\ UNCHANGED <<status, conversation, decision, runOf, executions>>
    BY <1>8 DEF Answer, ToolRaises, Gated, Exhausted, MeetsGate, Goto, runVars
  <2>2. Held(t)'
    BY <1>0, <1>2, <2>1 DEF AtWork
  <2> QED BY <1>8, <2>1, <2>2, QuietSteps DEF Serve, Drive
<1>9. CASE Complete(t) \/ Fail(t)
  <2>1. pc[t] \in AtWork \ {"sweepFail"}
    BY <1>9 DEF Complete, Fail, AtWork
  <2>2. Held(t)'
    BY <1>1, <1>9 DEF Complete, Fail
  <2>3. /\ \A q \in Runs \ {run[t]} : status'[q] = status[q] /\ conversation'[q] = conversation[q]
        /\ UNCHANGED <<decision, runOf, executions>>
        /\ run[t] \in Runs /\ status'[run[t]] # "ABSENT"
    BY <1>0, <1>9 DEF Complete, Fail, SetStatus
  <2> QED BY <1>3, <1>9, <2>1, <2>2, <2>3, WritesItsRun DEF Serve, AtWork
<1> QED BY <1>4, <1>5, <1>6, <1>7, <1>8, <1>9 DEF Drive

\* The steps of an approval, from the call that is parked to its decision.
LEMMA DecideHolds ==
  ASSUME TypeOK, SpentInv, HoldInv, NEW t \in Threads, Contest,
         \/ Park(t) \/ CreateApproval(t) \/ Announce(t)
         \/ Reject(t) \/ Deny(t) \/ Cancel(t) \/ Approve(t) \/ Grant(t)
  PROVE  HoldInv'
<1> USE DEF appVars, locals, Placed, Alone
<1>0. /\ pc \in [Threads -> Steps] /\ run \in [Threads -> Runs \cup {None}]
      /\ appr \in [Threads -> Approvals \cup {None}]
      /\ conv \in [Threads -> Conversation]
      /\ sweep \in [Threads -> SUBSET Runs]
      /\ status \in [Runs -> RunStatus \cup {"ABSENT"}]
      /\ conversation \in [Runs -> Conversation]
      /\ decision \in [Approvals -> ApprovalStatus \cup {"ABSENT"}]
      /\ runOf \in [Approvals -> Runs \cup {None}]
      /\ executions \in [Approvals -> [Threads -> Nat]]
      /\ pc[t] \in {"park", "create", "announce"} \cup Taken
           => run[t] \in Runs /\ appr[t] \in Approvals
      /\ pc[t] \notin {"idle", "sweep"} => run[t] \in Runs /\ status[run[t]] # "ABSENT"
      /\ pc[t] \in Taken => decision[appr[t]] # "ABSENT"
      /\ Held(t) /\ contested \subseteq contested'
  BY DEF Contest, TypeOK, HoldInv, Held, Placed, Taken
<1>1. CASE Park(t)
  <2>1. run[t] \notin contested =>
          \A a \in Approvals : decision[a] = "PENDING" => runOf[a] # run[t]
    BY <1>1, NonePending DEF Park, AtWork
  <2>2. Held(t)'
    BY <1>0, <1>1, <2>1 DEF Park, Goto, SetStatus, Held, AtWork, AtRest, Taken, Governed!Settled
  <2> QED BY <1>0, <1>1, <2>1, <2>2, WritesItsRun DEF Park, SetStatus, Serve
<1>2. CASE CreateApproval(t)
  <2>1. /\ pc[t] = "create" /\ decision[appr[t]] = "ABSENT"
        /\ run[t] \in Runs /\ appr[t] \in Approvals
        /\ decision' = [decision EXCEPT ![appr[t]] = "PENDING"]
        /\ runOf' = [runOf EXCEPT ![appr[t]] = run[t]]
        /\ UNCHANGED <<status, conversation, executions, run, appr, conv, sweep>>
        /\ pc' = [pc EXCEPT ![t] = "announce"]
    BY <1>0, <1>2 DEF CreateApproval, Goto, runVars, SpentInv
  <2>2. Confined(t, run[t])
    BY <1>0, <1>2, <2>1, HeldApart, OthersKeep DEF Confined, Serve
  <2>3. Held(t)'
    BY <1>0, <2>1 DEF Held, AtWork, AtRest, Taken
  <2>4. run[t] \notin contested =>
          \A b \in Approvals : decision'[b] = "PENDING" /\ runOf'[b] = run[t] => b = appr[t]
    BY <1>0, <2>1 DEF Held, Governed!Settled
  <2>5. run[t] \notin contested =>
          /\ status[run[t]] = "WAITING_FOR_APPROVAL"
          /\ conversation[run[t]] \in {Empty, appr[t]}
    BY <2>1, <1>0 DEF Held, AtRest
  <2>6. ASSUME NEW a \in Approvals, decision'[a] = "PENDING", runOf'[a] = run[t]
        PROVE  Parked(a)'
    <3>1. run[t] \notin contested => a = appr[t]
      BY <2>4, <2>6
    <3> QED BY <1>0, <2>1, <2>4, <2>5, <2>6, <3>1 DEF Parked
  <2>7. \A a \in Approvals : \/ decision'[a] = decision[a] /\ runOf'[a] = runOf[a]
                             \/ status'[runOf'[a]] # "ABSENT"
    BY <1>0, <2>1 DEF Held
  <2> QED BY <2>2, <2>3, <2>6, <2>7, ConfinedSteps
<1>3. CASE Announce(t)
  <2>1. Held(t)'
    BY <1>0, <1>3 DEF Announce, Finish, Held, AtWork, AtRest, Taken
  <2> QED BY <1>3, <2>1, QuietSteps DEF Announce, runVars, Serve
<1>4. CASE Reject(t) \/ Grant(t)
  <2>1. /\ pc[t] \in {"decide", "grant"}
        /\ run[t] \in Runs /\ appr[t] \in Approvals
        /\ decision[appr[t]] # "ABSENT" /\ runOf[appr[t]] = run[t]
        /\ run[t] \notin contested => decision[appr[t]] = "PENDING"
        /\ \/ /\ decision' = [decision EXCEPT ![appr[t]] = "REJECTED"]
              /\ pc' = [pc EXCEPT ![t] = "deny"]
           \/ /\ pc[t] = "grant"
              /\ decision' = [decision EXCEPT ![appr[t]] = "APPROVED"]
              /\ pc' = [pc EXCEPT ![t] = "resume"]
        /\ UNCHANGED <<status, conversation, runOf, executions, run, appr, conv, sweep>>
    BY <1>0, <1>4 DEF Reject, Grant, Goto, runVars, Held, Taken
  <2>2. Confined(t, run[t])
    BY <1>0, <1>4, <2>1, HeldApart, OthersKeep DEF Confined, Serve, Resolve
  <2>3. run[t] \notin contested =>
          \A b \in Approvals : runOf[b] = run[t] => decision'[b] # "PENDING"
    BY <1>0, <2>1 DEF HoldInv, Parked
  <2>4. run[t] \notin contested => \A u \in Threads : executions[appr[t]][u] = 0
    BY <1>0, <2>1 DEF SpentInv
  <2>5. Held(t)'
    BY <1>0, <2>1, <2>3, <2>4
       DEF Held, AtWork, AtRest, Taken, Governed!Settled, Governed!Unspent
  <2>6. /\ \A a \in Approvals : decision'[a] = "PENDING" /\ runOf'[a] = run[t] => Parked(a)'
        /\ \A a \in Approvals : decision'[a] # "ABSENT" => decision[a] # "ABSENT"
    BY <1>0, <2>1, <2>3 DEF Parked
  <2> QED BY <2>1, <2>2, <2>5, <2>6, ConfinedSteps
<1>5. CASE Deny(t)
  <2>1. Held(t)'
    BY <1>0, <1>5
       DEF Deny, Goto, runVars, Held, AtWork, AtRest, Taken, Governed!Settled
  <2> QED BY <1>5, <2>1, QuietSteps DEF Deny, runVars, Goto, Serve, Resolve
<1>6. CASE Cancel(t)
  <2>1. run[t] \notin contested => \A a \in Approvals : decision[a] = "PENDING" => runOf[a] # run[t]
    BY <1>0, <1>6 DEF Cancel, Held, Governed!Settled
  <2>2. Held(t)'
    BY <1>0, <1>6 DEF Cancel, Finish, Held, AtWork, AtRest, Taken
  <2> QED BY <1>0, <1>6, <2>1, <2>2, WritesItsRun DEF Cancel, SetStatus, Serve, Resolve
<1>7. CASE Approve(t)
  <2>1. run[t] \notin contested => conversation[run[t]] \in {Empty, appr[t]}
    BY <1>0, <1>7 DEF Approve, Held, Taken, HoldInv, Parked
  <2>2. Held(t)'
    BY <1>0, <1>7, <2>1 DEF Approve, runVars, Held, AtWork, AtRest, Taken
  <2> QED BY <1>7, <2>2, QuietSteps DEF Approve, runVars, Serve, Resolve
<1> QED BY <1>1, <1>2, <1>3, <1>4, <1>5, <1>6, <1>7

\* The steps of a granted approval, and those of the sweep.
LEMMA ResumeHolds ==
  ASSUME TypeOK, SpentInv, HoldInv, NEW t \in Threads, Contest,
         \/ Resume(t) \/ AuditGrant(t) \/ Execute(t) \/ RecordExecution(t)
         \/ FailTool(t) \/ Abort(t) \/ SweepRead(t) \/ SweepFail(t)
  PROVE  HoldInv'
<1> USE DEF appVars, locals, Placed, Alone
<1>0. /\ pc \in [Threads -> Steps] /\ run \in [Threads -> Runs \cup {None}]
      /\ appr \in [Threads -> Approvals \cup {None}]
      /\ conv \in [Threads -> Conversation]
      /\ sweep \in [Threads -> SUBSET Runs]
      /\ status \in [Runs -> RunStatus \cup {"ABSENT"}]
      /\ executions \in [Approvals -> [Threads -> Nat]]
      /\ pc[t] \in Taken => run[t] \in Runs /\ appr[t] \in Approvals
      /\ pc[t] \notin {"idle", "sweep"} => run[t] \in Runs /\ status[run[t]] # "ABSENT"
      /\ Held(t) /\ contested \subseteq contested'
  BY DEF Contest, TypeOK, HoldInv, Held, Placed, Taken
<1>1. CASE Resume(t)
  <2>1. run[t] \notin contested => \A a \in Approvals : decision[a] = "PENDING" => runOf[a] # run[t]
    BY <1>0, <1>1 DEF Resume, Held, Governed!Settled
  <2>2. /\ pc[t] = "resume" /\ run[t] \in Runs
        /\ status' = [status EXCEPT ![run[t]] = "RUNNING"]
        /\ pc' = [pc EXCEPT ![t] = "granted"]
        /\ UNCHANGED <<conversation, decision, runOf, executions, run, appr, conv, sweep>>
    BY <1>0, <1>1 DEF Resume, AfterResume, Goto, SetStatus, Taken
  <2>3. Held(t)'
    BY <1>0, <2>2 DEF Held, AtWork, AtRest, Taken, Governed!Unspent
  <2> QED BY <1>0, <1>1, <2>1, <2>2, <2>3, WritesItsRun DEF Serve, Resolve
<1>2. CASE AuditGrant(t)
  <2>1. Held(t)'
    BY <1>0, <1>2
       DEF AuditGrant, Goto, runVars, Held, AtWork, AtRest, Taken, Governed!Unspent
  <2> QED BY <1>2, <2>1, QuietSteps DEF AuditGrant, Goto, runVars, Serve, Resolve
<1>3. CASE Execute(t)
  <2>0. pc[t] = "execute" /\ pc[t] \in Taken
    BY <1>3 DEF Execute, Taken
  <2>1. /\ pc[t] = "execute" /\ run[t] \in Runs /\ appr[t] \in Approvals
        /\ runOf[appr[t]] = run[t]
        /\ executions' = [executions EXCEPT ![appr[t]][t] = @ + 1]
        /\ pc' \in {[pc EXCEPT ![t] = s] : s \in {"record", "toolFailed", "abort"}}
        /\ UNCHANGED <<status, conversation, decision, runOf, run, appr, conv, sweep>>
    <3>1. run[t] \in Runs /\ appr[t] \in Approvals /\ runOf[appr[t]] = run[t]
      BY <1>0, <2>0 DEF Held
    <3> QED BY <1>3, <2>0, <3>1 DEF Execute, Goto, runVars
  <2>2. \A a \in Approvals : a # appr[t] => executions'[a] = executions[a]
    BY <1>0, <2>1
  <2>3. Confined(t, run[t])
    BY <1>3, <2>1, <2>2, HeldApart, OthersKeep DEF Confined, Serve, Resolve
  <2>4. Held(t)'
    BY <1>0, <2>1 DEF Held, AtWork, AtRest, Taken
  <2>5. run[t] \notin contested =>
          \A a \in Approvals : decision[a] = "PENDING" => runOf[a] # run[t]
    BY <2>1, NonePending DEF AtWork
  <2>6. \A a \in Approvals : decision'[a] = "PENDING" /\ runOf'[a] = run[t] => Parked(a)'
    BY <1>0, <2>1, <2>5 DEF Parked
  <2> QED BY <2>1, <2>3, <2>4, <2>6, ConfinedSteps
<1>4. CASE RecordExecution(t) \/ FailTool(t)
  <2>1. /\ pc[t] \in {"record", "toolFailed"}
        /\ pc' \in {[pc EXCEPT ![t] = s] : s \in {"model", "complete", "fail"}}
        /\ UNCHANGED <<status, conversation, decision, runOf, executions, run, appr, conv,
                       sweep>>
    BY <1>4 DEF RecordExecution, FailTool, Continue, runVars
  <2>2. Held(t)'
    BY <1>0, <2>1 DEF Held, AtWork, AtRest, Taken
  <2> QED BY <1>4, <2>1, <2>2, QuietSteps DEF Serve, Resolve
<1>5. CASE Abort(t)
  <2>1. Held(t)'
    BY <1>0, <1>5 DEF Abort, Goto, runVars, Held, AtWork, AtRest, Taken
  <2> QED BY <1>5, <2>1, QuietSteps DEF Abort, Goto, runVars, Serve, Resolve
<1>6. CASE SweepRead(t)
  <2>1. Held(t)'
    BY <1>0, <1>6 DEF SweepRead, runVars, Held, AtWork, AtRest, Taken
  <2> QED BY <1>6, <2>1, QuietSteps DEF SweepRead, runVars, Serve
<1>7. CASE SweepFail(t)
  <2>1. run[t] \notin contested => \A a \in Approvals : decision[a] = "PENDING" => runOf[a] # run[t]
    BY <1>7, NonePending DEF SweepFail, AtWork
  <2>2. Held(t)'
    BY <1>0, <1>7 DEF SweepFail, SetStatus, Held, AtWork, AtRest, Taken
  <2> QED BY <1>0, <1>7, <2>1, <2>2, WritesItsRun DEF SweepFail, SetStatus, Serve
<1> QED BY <1>1, <1>2, <1>3, <1>4, <1>5, <1>6, <1>7

LEMMA InitHolds == Init => HoldInv
  BY RuntimeAssumption
     DEF Init, HoldInv, Overlapping, Touches, Held, Placed, Alone, Parked, AtWork, AtRest,
         Taken

\* However requests overlap, what a request holds of a run that it never shared
\* stays as it is until the request moves it on; and whoever shares a run
\* contests that run and no other.
THEOREM HoldInvariant == Spec => []HoldInv
<1>1. TypeOK /\ SpentInv /\ HoldInv /\ [Next]_vars => HoldInv'
  <2> SUFFICES ASSUME TypeOK, SpentInv, HoldInv, [Next]_vars PROVE HoldInv'
    OBVIOUS
  <2>1. ASSUME UNCHANGED <<status, conversation, appVars, pc, locals, executions>>,
               Contest
        PROVE  HoldInv'
    <3>1. /\ Overlapping' = Overlapping
          /\ contested' = contested
      BY <2>1 DEF appVars, locals, Overlapping, Touches, Contest, HoldInv
    <3> QED
      BY <2>1, <3>1
         DEF appVars, locals, HoldInv, Held, Placed, Alone, Parked,
             Governed!Settled, Governed!Unspent
  <2>2. ASSUME NEW r \in Runs, Age(r), Contest PROVE HoldInv'
    BY <2>1, <2>2 DEF Age
  <2>3. CASE UNCHANGED vars
    <3>1. Overlapping' = Overlapping
      BY <2>3 DEF vars, locals, Overlapping, Touches
    <3>2. Contest
      BY <2>3, <3>1 DEF vars, Contest, HoldInv
    <3> QED BY <2>1, <2>3, <3>2 DEF vars, runVars
  <2> QED
    BY <2>2, <2>3, ArriveHolds, DriveHolds, DecideHolds, ResumeHolds
       DEF Next, Step, Serve, Resolve
<1> QED BY InitHolds, <1>1, TypeCorrect, DecisionIsSpent, PTL DEF Spec

\* A resumed run answers another call than the one it was approved for only if
\* two requests were at work on the run at once: keeping the requests of one run
\* apart would be enough (resolve_approval reads the conversation after the
\* approval, and writes unconditionally).
THEOREM WrongAnswersAreContested ==
  Spec => [](\A t \in Threads :
               /\ pc[t] \in {"grant", "resume", "granted", "execute", "record",
                             "toolFailed"}
               /\ conv[t] \notin {Empty, appr[t]}
               => run[t] \in contested)
<1>1. HoldInv =>
        \A t \in Threads :
          /\ pc[t] \in {"grant", "resume", "granted", "execute", "record", "toolFailed"}
          /\ conv[t] \notin {Empty, appr[t]}
          => run[t] \in contested
  BY DEF HoldInv, Held, Alone
<1> QED BY <1>1, HoldInvariant, PTL

\* Two calls of the tool that one approval releases are calls of two requests
\* that were at work on its run at once: one that finds the approval decided, or
\* its run alone, never calls the tool again.
THEOREM RepeatedCallsAreContested ==
  Spec => [](\A a \in Approvals, t, u \in Threads :
               executions[a][t] > 0 /\ executions[a][u] > 0
                 => t = u \/ runOf[a] \in contested)
<1> DEFINE Once == \A a \in Approvals, t, u \in Threads :
                     executions[a][t] > 0 /\ executions[a][u] > 0
                       => t = u \/ runOf[a] \in contested
<1>1. Init => Once
  BY DEF Init
<1>2. TypeOK /\ SpentInv /\ HoldInv /\ Once /\ [Next]_vars => Once'
  <2> SUFFICES ASSUME TypeOK, SpentInv, HoldInv, Once, [Next]_vars PROVE Once'
    OBVIOUS
  <2>0. contested \subseteq contested'
    BY DEF Next, Contest, vars
  <2>1. \A a \in Approvals, t \in Threads :
          executions[a][t] > 0 => runOf'[a] = runOf[a]
    BY RunOfStays DEF SpentInv
  <2>2. ASSUME NEW t \in Threads, Execute(t) PROVE Once'
    <3>1. /\ executions' = [executions EXCEPT ![appr[t]][t] = @ + 1]
          /\ appr[t] \in Approvals /\ pc[t] = "execute" /\ runOf' = runOf
          /\ executions \in [Approvals -> [Threads -> Nat]]
      BY <2>2 DEF Execute, TypeOK, appVars
    <3>2. runOf[appr[t]] = run[t]
      BY <3>1 DEF HoldInv, Held, Placed, Taken
    <3>3. run[t] \in contested \/ \A u \in Threads : executions[appr[t]][u] = 0
      BY <3>1 DEF HoldInv, Held, Alone, Governed!Unspent
    <3>4. \A u \in Threads \ {t} : executions'[appr[t]][u] = executions[appr[t]][u]
      BY <3>1
    <3>5. \A a \in Approvals \ {appr[t]} : executions'[a] = executions[a]
      BY <3>1
    <3> QED BY <2>0, <3>1, <3>2, <3>3, <3>4, <3>5
  <2>3. CASE UNCHANGED executions
    BY <2>0, <2>1, <2>3
  <2> QED BY <2>2, <2>3, OnlyExecute
<1> HIDE DEF Once
<1>3. Spec => []Once
  BY <1>1, <1>2, TypeCorrect, DecisionIsSpent, HoldInvariant, PTL DEF Spec
<1> QED BY <1>3 DEF Once

-----------------------------------------------------------------------------
(* The run diagram: what an observer of the tables may see.                 *)

LEMMA InitGoverned == Init => Governed!Init
  BY DEF Init, Governed!Init

\* A step that moves one run along an edge of the diagram.
LEMMA Moves ==
  ASSUME TypeOK, NEW r \in Runs, NEW s, SetStatus(r, s),
         UNCHANGED <<decision, runOf, executions, contested>>
  PROVE  Governed!Move(r, status[r], s)
  BY DEF TypeOK, SetStatus, Governed!Move

\* A request that takes up no further run contests none.
LEMMA Uncontesting ==
  ASSUME TypeOK, HoldInv, Contest, NEW t \in Threads, Serve(t),
         pc[t] # "idle", run'[t] \in {run[t], None}, sweep'[t] \subseteq sweep[t]
  PROVE  contested' = contested
<1>1. Touches(t)' \subseteq Touches(t)
  BY DEF Touches
<1>2. \A u \in Threads \ {t} : Touches(u)' = Touches(u)
  BY OthersKeep DEF Touches, Keeps
<1>3. Overlapping' \subseteq Overlapping
  BY <1>1, <1>2 DEF Overlapping
<1> QED BY <1>3 DEF Contest, HoldInv

LEMMA StepsGoverned ==
  ASSUME TypeOK, SpentInv, HoldInv, [Next]_vars
  PROVE  [Governed!Next]_(Governed!vars)
<1> DEFINE Quiet == UNCHANGED <<status, decision, runOf, executions>>
<1> USE DEF appVars, runVars
<1>1. ASSUME Quiet, Contest PROVE Governed!Next
  <2>1. Overlapping' \in SUBSET Runs
    BY DEF Overlapping
  <2>2. Governed!Overlap(Overlapping')
    BY <1>1 DEF Governed!Overlap, Contest
  <2> QED BY <2>1, <2>2 DEF Governed!Contested, Governed!Next
<1>2. \A t \in Threads :
        /\ Held(t) /\ Placed(t) /\ (run[t] \notin contested => Alone(t))
        /\ pc[t] \notin {"idle", "sweep"} => run[t] \in Runs
        /\ pc[t] \in Taken \cup {"create"} => appr[t] \in Approvals
        /\ pc[t] \in Taken => decision[appr[t]] # "ABSENT"
  BY DEF HoldInv, Held, TypeOK, Taken
<1>a. /\ run \in [Threads -> Runs \cup {None}]
      /\ sweep \in [Threads -> SUBSET Runs]
  BY DEF TypeOK
<1>3. ASSUME NEW t \in Threads, NEW step, CreateRun(t, step), step # "idle", Contest,
             Arrive(t)
      PROVE  Governed!Next
  <2>1. PICK r \in Runs : /\ status[r] = "ABSENT" /\ SetStatus(r, "RUNNING")
                          /\ run' = [run EXCEPT ![t] = r] /\ sweep' = sweep
    BY <1>3 DEF CreateRun
  <2>2. \A u \in Threads \ {t} : Touches(u)' = Touches(u) /\ r \notin Touches(u)
    <3>1. \A u \in Threads \ {t} : Touches(u)' = Touches(u)
      BY <1>3, OthersKeep DEF Touches, Keeps
    <3>2. \A u \in Threads : pc[u] # "idle" => r \notin sweep[u]
      BY <1>2, <2>1 DEF Placed
    <3>3. \A u \in Threads : pc[u] # "idle" => run[u] = None \/ run[u] # r
      BY <1>2, <2>1 DEF Placed
    <3> QED BY <3>1, <3>2, <3>3 DEF Touches
  <2>3. Touches(t)' \subseteq {r}
    <3>1. pc[t] = "idle" /\ sweep[t] = {}
      BY <1>2, <1>3 DEF CreateRun, Placed
    <3> QED BY <1>a, <2>1, <3>1 DEF Touches
  <2>4. contested' = contested
    <3>1. Overlapping' \subseteq Overlapping
      BY <2>2, <2>3 DEF Overlapping
    <3> QED BY <1>3, <3>1 DEF Contest, HoldInv
  <2>5. Governed!Start(r)
    BY <1>3, <2>1, <2>4, Moves DEF CreateRun, Governed!Start
  <2> QED BY <2>5 DEF Governed!Next
<1>b. ASSUME NEW t \in Threads, run[t] \in contested, contested' = contested,
             pc[t] \notin {"idle", "sweep"}, NEW s \in RunStatus, SetStatus(run[t], s),
             UNCHANGED <<decision, runOf, executions>>
      PROVE  Governed!Next
  <2>1. run[t] \in Runs /\ status[run[t]] # "ABSENT"
    BY <1>2, <1>b DEF Placed
  <2>2. Governed!Overwrite(run[t], s)
    BY <1>b, <2>1, Moves DEF Governed!Overwrite
  <2>3. s \in {"RUNNING", "WAITING_FOR_APPROVAL", "COMPLETED", "FAILED", "CANCELLED"}
    BY <1>b DEF RunStatus
  <2> QED BY <2>1, <2>2, <2>3 DEF Governed!Contested, Governed!Next
<1>4. ASSUME NEW t \in Threads, Complete(t) \/ Fail(t) \/ SweepFail(t), Contest, Serve(t)
      PROVE  Governed!Next
  <2>0. /\ pc[t] \in {"complete", "fail", "sweepFail"}
        /\ run'[t] \in {run[t], None} /\ sweep'[t] \subseteq sweep[t]
    BY <1>a, <1>4 DEF Complete, Fail, SweepFail, Finish
  <2>1. contested' = contested
    BY <1>4, <2>0, Uncontesting
  <2>2. /\ SetStatus(run[t], "COMPLETED") \/ SetStatus(run[t], "FAILED")
        /\ UNCHANGED <<decision, runOf, executions>>
    BY <1>4 DEF Complete, Fail, SweepFail
  <2>3. CASE run[t] \notin contested
    <3>1. run[t] \in Runs /\ status[run[t]] = "RUNNING"
      BY <1>2, <2>0, <2>3 DEF AtWork, Alone
    <3>2. Governed!End(run[t])
      BY <2>1, <2>2, <3>1, Moves DEF Governed!End
    <3> QED BY <3>1, <3>2 DEF Governed!Next
  <2>4. CASE run[t] \in contested
    BY <1>b, <2>0, <2>1, <2>2, <2>4 DEF RunStatus
  <2> QED BY <2>3, <2>4
<1>5. ASSUME NEW t \in Threads, Park(t), Contest, Serve(t) PROVE Governed!Next
  <2>0. pc[t] = "park" /\ run' = run /\ sweep' = sweep
    BY <1>5 DEF Park, Goto, locals
  <2>1. contested' = contested
    BY <1>5, <2>0, Uncontesting
  <2>2. CASE run[t] \notin contested
    <3>1. run[t] \in Runs /\ status[run[t]] = "RUNNING"
      BY <1>2, <2>0, <2>2 DEF AtWork, Alone
    <3>2. Governed!Wait(run[t])
      BY <1>5, <2>1, <3>1, Moves DEF Park, Governed!Wait
    <3> QED BY <3>1, <3>2 DEF Governed!Next
  <2>3. CASE run[t] \in contested
    BY <1>5, <1>b, <2>0, <2>1, <2>3 DEF Park, RunStatus
  <2> QED BY <2>2, <2>3
<1>6. ASSUME NEW t \in Threads, CreateApproval(t), Contest, Serve(t) PROVE Governed!Next
  <2>0. pc[t] = "create" /\ run' = run /\ sweep' = sweep
    BY <1>6 DEF CreateApproval, Goto, locals
  <2>1. contested' = contested
    BY <1>6, <2>0, Uncontesting
  <2>2. run[t] \in Runs /\ appr[t] \in Approvals /\ decision[appr[t]] = "ABSENT"
    BY <1>2, <2>0 DEF SpentInv
  <2>3. CASE run[t] \notin contested
    <3>1. status[run[t]] = "WAITING_FOR_APPROVAL" /\ Governed!Settled(run[t])
      BY <1>2, <2>0, <2>3 DEF AtRest, Alone
    <3>2. Governed!Ask(appr[t], run[t])
      BY <1>6, <2>1, <2>2, <3>1 DEF CreateApproval, Governed!Ask
    <3> QED BY <2>2, <3>2 DEF Governed!Next
  <2>4. CASE run[t] \in contested
    <3>1. Governed!AskBeside(appr[t], run[t])
      BY <1>6, <2>1, <2>2, <2>4 DEF CreateApproval, Governed!AskBeside
    <3> QED BY <2>2, <3>1 DEF Governed!Contested, Governed!Next
  <2> QED BY <2>3, <2>4
<1>7. ASSUME NEW t \in Threads, Reject(t) \/ Grant(t), Contest, Serve(t)
      PROVE  Governed!Next
  <2>0. /\ pc[t] \in {"decide", "grant"} /\ pc[t] \in AtRest /\ pc[t] \in Taken
        /\ run' = run /\ sweep' = sweep
    BY <1>7 DEF Reject, Grant, Goto, locals, AtRest, Taken
  <2>1. contested' = contested
    BY <1>7, <2>0, Uncontesting
  <2>2. /\ run[t] \in Runs /\ appr[t] \in Approvals /\ runOf[appr[t]] = run[t]
        /\ decision[appr[t]] # "ABSENT"
    BY <1>2, <2>0 DEF Placed
  <2>3. CASE run[t] \notin contested
    <3>1. status[run[t]] = "WAITING_FOR_APPROVAL" /\ decision[appr[t]] = "PENDING"
      BY <1>2, <2>0, <2>3 DEF Alone
    <3>2. Governed!Decide(appr[t], "REJECTED") \/ Governed!Decide(appr[t], "APPROVED")
      BY <1>7, <2>1, <2>2, <3>1 DEF Reject, Grant, Governed!Decide
    <3> QED BY <2>2, <3>2 DEF Governed!Next
  <2>4. CASE run[t] \in contested
    <3>1. \/ Governed!DecideAgain(appr[t], "REJECTED")
          \/ Governed!DecideAgain(appr[t], "APPROVED")
      BY <1>7, <2>1, <2>2, <2>4 DEF Reject, Grant, Governed!DecideAgain
    <3> QED BY <2>2, <3>1 DEF Governed!Contested, Governed!Next
  <2> QED BY <2>3, <2>4
<1>8. ASSUME NEW t \in Threads, Cancel(t) \/ Resume(t), Contest, Serve(t)
      PROVE  Governed!Next
  <2>0. /\ pc[t] \in {"cancel", "resume"} /\ pc[t] \in AtRest /\ pc[t] \in Taken
        /\ run'[t] \in {run[t], None} /\ sweep'[t] \subseteq sweep[t]
    BY <1>a, <1>8 DEF Cancel, Resume, Goto, Finish, locals, AtRest, Taken
  <2>1. contested' = contested
    BY <1>8, <2>0, Uncontesting
  <2>2. /\ run[t] \in Runs /\ appr[t] \in Approvals
        /\ runOf[appr[t]] = run[t]
    BY <1>2, <2>0 DEF Placed
  <2>3. CASE run[t] \in contested
    BY <1>8, <1>b, <2>0, <2>1, <2>3 DEF Cancel, Resume, RunStatus
  <2>4. CASE run[t] \notin contested
    <3>1. status[run[t]] = "WAITING_FOR_APPROVAL" /\ Governed!Settled(run[t])
      BY <1>2, <2>0, <2>4 DEF Alone
    <3>2. CASE Cancel(t)
      <4>1. decision[appr[t]] = "REJECTED"
        BY <1>2, <2>4, <3>2 DEF Cancel, Alone
      <4>2. Governed!Move(runOf[appr[t]], "WAITING_FOR_APPROVAL", "CANCELLED")
        BY <2>1, <2>2, <3>1, <3>2, Moves DEF Cancel
      <4> QED BY <2>2, <3>1, <4>1, <4>2 DEF Governed!Cancel, Governed!Next
    <3>3. CASE Resume(t)
      <4>1. decision[appr[t]] = "APPROVED"
        BY <1>2, <2>4, <3>3 DEF Resume, Alone
      <4>2. Governed!Move(runOf[appr[t]], "WAITING_FOR_APPROVAL", "RUNNING")
        BY <2>1, <2>2, <3>1, <3>3, Moves DEF Resume
      <4> QED BY <2>2, <3>1, <4>1, <4>2 DEF Governed!Resume, Governed!Next
    <3> QED BY <1>8, <3>2, <3>3
  <2> QED BY <2>3, <2>4
<1>9. ASSUME NEW t \in Threads, Execute(t), Contest, Serve(t) PROVE Governed!Next
  <2>0. /\ pc[t] = "execute" /\ pc[t] \in AtWork /\ pc[t] \in Taken
        /\ run' = run /\ sweep' = sweep
    BY <1>9 DEF Execute, Goto, locals, AtWork, Taken
  <2>1. contested' = contested
    BY <1>9, <2>0, Uncontesting
  <2>2. /\ run[t] \in Runs /\ appr[t] \in Approvals /\ runOf[appr[t]] = run[t]
        /\ decision[appr[t]] \in {"APPROVED", "REJECTED"} /\ executions[appr[t]][t] = 0
    BY <1>2, <2>0 DEF Placed, SpentInv
  <2>3. executions' = [executions EXCEPT ![appr[t]][t] = 1]
    BY <1>9, <2>2 DEF Execute, TypeOK
  <2>4. CASE run[t] \notin contested
    <3>1. /\ status[run[t]] = "RUNNING"
          /\ decision[appr[t]] = "APPROVED" /\ Governed!Unspent(appr[t])
      BY <1>2, <2>0, <2>4 DEF Alone
    <3>2. Governed!Execute(appr[t], t)
      BY <1>9, <2>1, <2>2, <2>3, <3>1 DEF Execute, Governed!Execute
    <3> QED BY <2>2, <3>2 DEF Governed!Next
  <2>5. CASE run[t] \in contested
    <3>1. Governed!ExecuteBeside(appr[t], t)
      BY <1>9, <2>1, <2>2, <2>3, <2>5 DEF Execute, Governed!ExecuteBeside
    <3> QED BY <2>2, <3>1 DEF Governed!Contested, Governed!Next
  <2> QED BY <2>4, <2>5
<1>10. ASSUME NEW t \in Threads,
              \/ SaveOpening(t) \/ RequestTool(t) \/ Drive(t) \/ Announce(t)
              \/ Deny(t) \/ Approve(t) \/ AuditGrant(t)
              \/ RecordExecution(t) \/ FailTool(t) \/ Abort(t) \/ SweepRead(t)
              \/ Crash(t) \/ ReadApproval(t) \/ StartSweep(t)
       PROVE  Quiet
  BY <1>10
     DEF SaveOpening, RequestTool, Drive, ModelRaises, Answer, Turn, ToolRaises, Gated,
         Exhausted, Announce, Deny, Approve, AuditGrant, RecordExecution, FailTool,
         Abort, SweepRead, Crash, ReadApproval, StartSweep, Save
<1>11. ASSUME NEW r \in Runs, Age(r) PROVE Quiet
  BY <1>11 DEF Age
<1>12. ASSUME UNCHANGED vars PROVE UNCHANGED Governed!vars
  BY <1>12 DEF vars, Governed!vars
<1> HIDE DEF Quiet
<1>13. ASSUME NEW t \in Threads, Arrive(t) \/ Serve(t) \/ Crash(t), Contest
       PROVE  Governed!Next
  <2>1. CASE Arrive(t)
    <3>1. Run(t) \/ RequestAction(t) \/ ReadApproval(t) \/ StartSweep(t)
      BY <2>1 DEF Arrive
    <3>2. CASE Run(t)
      BY <1>3, <1>13, <2>1, <3>2 DEF Run
    <3>3. CASE RequestAction(t)
      BY <1>3, <1>13, <2>1, <3>3 DEF RequestAction
    <3> QED BY <1>1, <1>10, <1>13, <3>1, <3>2, <3>3
  <2>2. CASE Serve(t)
    BY <1>1, <1>4, <1>5, <1>6, <1>7, <1>8, <1>9, <1>10, <1>13, <2>2 DEF Serve, Resolve
  <2> QED BY <1>1, <1>10, <1>13, <2>1, <2>2
<1> QED BY <1>1, <1>11, <1>12, <1>13 DEF Next, Step

\* Runs and approvals follow the diagram of GovernedRun: a run waits for one
\* decision at a time, a decision is taken once, by it the run ends or goes on,
\* and the tool it releases is called while its run is at work, once. Requests
\* that overlap cost this only the run they overlap on, and even there a
\* decision is never open again and no thread calls a tool without one.
THEOREM RunsAreGoverned == Spec => ImplementsGovernedRun
<1>1. TypeOK /\ SpentInv /\ HoldInv /\ [Next]_vars
        => [Governed!Next]_(Governed!vars)
  BY StepsGoverned
<1> QED
  BY <1>1, InitGoverned, TypeCorrect, DecisionIsSpent, HoldInvariant, PTL
     DEF Spec, ImplementsGovernedRun, Governed!Spec
=============================================================================

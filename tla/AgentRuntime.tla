---------------------------- MODULE AgentRuntime ----------------------------
(***************************************************************************)
(* The governed agent: AgentService over the tables runs, approvals and    *)
(* audit_events, with ToolRegistry's gate in front of every tool, the      *)
(* people who resolve approvals and the operator who sweeps abandoned runs *)
(* (ReconciliationService). Requests are served by threads side by side,   *)
(* and a thread may die between any two transactions.                      *)
(*                                                                         *)
(* Each database transaction, model call and tool call is one step. A call *)
(* that parks a run is identified with the approval created for it, and a  *)
(* saved conversation is abstracted to what resuming it depends on: empty  *)
(* (a direct action), open (the model is to speak next), or ended by the   *)
(* call of some approval.                                                  *)
(***************************************************************************)
EXTENDS Naturals, FiniteSets

CONSTANTS
  Runs,           \* run ids
  Approvals,      \* approval ids
  Threads,        \* request threads of the server
  Empty,          \* the conversation "[]"
  Open,           \* a conversation whose every tool call has its result
  None,
  MaxIterations,  \* AgentService.max_iterations
  MaxCrashes      \* bound: threads that die in the middle of a request

ASSUME RuntimeAssumption ==
  /\ Runs # {}
  /\ {Empty, Open, None} \cap (Approvals \cup Runs) = {}
  /\ Empty # Open
  /\ MaxIterations \in Nat \ {0}
  /\ MaxCrashes \in Nat

RunStatus == {"RUNNING", "WAITING_FOR_APPROVAL", "COMPLETED", "FAILED", "CANCELLED"}

ApprovalStatus == {"PENDING", "APPROVED", "REJECTED"}

Conversation == {Empty, Open} \cup Approvals

VARIABLES
  status, conversation, stale,  \* runs; stale: updated_at < cutoff
  decision, runOf,              \* approvals
  \* the request each thread serves: its step, run, approval, conversation,
  \* iterations left and runs to sweep
  pc, run, appr, conv, left, sweep,
  executions,  \* history: calls of a gated tool, per approval and thread
  audit,       \* audit_events
  crashes,
  contested    \* history: runs that two requests were ever at work on at once

runVars == <<status, conversation, stale>>
appVars == <<decision, runOf>>
locals == <<run, appr, conv, left, sweep>>
vars == <<runVars, appVars, pc, locals, executions, audit, crashes, contested>>

\* Where a thread stands: at a database, model or tool call of a request.
Steps == {"idle", "opened", "asked", "model", "park", "create", "announce",
          "decide", "deny", "cancel", "grant", "resume", "granted", "execute",
          "record", "toolFailed", "abort", "complete", "fail",
          "sweep", "sweepFail"}

\* The steps of a request that has taken up an approval.
Taken == {"decide", "deny", "cancel", "grant", "resume", "granted", "execute",
          "record", "toolFailed", "abort"}

Events == [event : {"APPROVAL_REQUIRED", "APPROVAL_GRANTED", "APPROVAL_DENIED",
                    "TOOL_EXECUTED", "TOOL_FAILED", "AGENT_FAILED"},
           appr  : Approvals]
          \cup [event : {"RUN_RECONCILED"}, run : Runs,
                previous : RunStatus \cup {"ABSENT"}]

Init ==
  /\ status = [r \in Runs |-> "ABSENT"]
  /\ conversation = [r \in Runs |-> Empty]
  /\ stale = [r \in Runs |-> FALSE]
  /\ decision = [a \in Approvals |-> "ABSENT"]
  /\ runOf = [a \in Approvals |-> None]
  /\ pc = [t \in Threads |-> "idle"]
  /\ run = [t \in Threads |-> None]
  /\ appr = [t \in Threads |-> None]
  /\ conv = [t \in Threads |-> Empty]
  /\ left = [t \in Threads |-> 0]
  /\ sweep = [t \in Threads |-> {}]
  /\ executions = [a \in Approvals |-> [t \in Threads |-> 0]]
  /\ audit = {}
  /\ crashes = 0
  /\ contested = {}

-----------------------------------------------------------------------------
(* The writers of the run row: each one is unconditional, and moves         *)
(* updated_at.                                                              *)

SetStatus(r, s) ==
  /\ status' = [status EXCEPT ![r] = s]
  /\ stale' = [stale EXCEPT ![r] = FALSE]

Save(r, c) ==
  /\ conversation' = [conversation EXCEPT ![r] = c]
  /\ stale' = [stale EXCEPT ![r] = FALSE]

Goto(t, step) ==
  /\ pc' = [pc EXCEPT ![t] = step]
  /\ UNCHANGED locals

\* The response is sent, or the process is gone.
Finish(t) ==
  /\ pc' = [pc EXCEPT ![t] = "idle"]
  /\ run' = [run EXCEPT ![t] = None]
  /\ appr' = [appr EXCEPT ![t] = None]
  /\ conv' = [conv EXCEPT ![t] = Empty]
  /\ left' = [left EXCEPT ![t] = 0]
  /\ sweep' = [sweep EXCEPT ![t] = {}]

Record(e, a) == audit' = audit \cup {[event |-> e, appr |-> a]}

\* A run has not been written for stale_after_seconds.
Age(r) ==
  /\ status[r] = "RUNNING"
  /\ ~stale[r]
  /\ stale' = [stale EXCEPT ![r] = TRUE]
  /\ UNCHANGED <<status, conversation, appVars, pc, locals, executions, audit, crashes>>

-----------------------------------------------------------------------------
(* run and request_action: a new run.                                       *)

\* create_run: RUNNING, with "[]" for a conversation, whoever calls it.
CreateRun(t, step) ==
  /\ pc[t] = "idle"
  /\ \E r \in Runs :
       /\ status[r] = "ABSENT"
       /\ SetStatus(r, "RUNNING")
       /\ run' = [run EXCEPT ![t] = r]
  /\ pc' = [pc EXCEPT ![t] = step]
  /\ UNCHANGED <<conversation, appVars, appr, conv, left, sweep, executions, audit,
                 crashes>>

Run(t)           == CreateRun(t, "opened")
RequestAction(t) == CreateRun(t, "asked")

\* run: the opening conversation is saved, and the loop is entered.
SaveOpening(t) ==
  /\ pc[t] = "opened"
  /\ Save(run[t], Open)
  /\ pc' = [pc EXCEPT ![t] = "model"]
  /\ conv' = [conv EXCEPT ![t] = Open]
  /\ left' = [left EXCEPT ![t] = MaxIterations]
  /\ UNCHANGED <<status, appVars, run, appr, sweep, executions, audit, crashes>>

\* A call nobody has made yet, and the approval it may get.
FreshCall(a) ==
  /\ decision[a] = "ABSENT"
  /\ \A r \in Runs : conversation[r] # a
  /\ \A t \in Threads : appr[t] # a

\* ToolRegistry.execute raises ApprovalRequired for a tool that is not READ.
MeetsGate(t) ==
  /\ \E a \in Approvals : FreshCall(a) /\ appr' = [appr EXCEPT ![t] = a]
  /\ pc' = [pc EXCEPT ![t] = "park"]
  /\ UNCHANGED <<run, conv, left, sweep>>

\* request_action: the requested tool meets the gate, or is a READ tool that
\* runs at once and whose outcome decides how the run ends.
RequestTool(t) ==
  /\ pc[t] = "asked"
  /\ Save(run[t], Empty)
  /\ MeetsGate(t) \/ Goto(t, "complete") \/ Goto(t, "fail")
  /\ UNCHANGED <<status, appVars, executions, audit, crashes>>

-----------------------------------------------------------------------------
(* drive: at most MaxIterations turns of one model call and one tool.       *)

\* The model call raises: nothing catches it, and the run stays RUNNING.
ModelRaises(t) ==
  /\ pc[t] = "model" /\ left[t] > 0
  /\ Finish(t)
  /\ UNCHANGED <<runVars, appVars, executions, audit, crashes>>

\* The model gives its final answer.
Answer(t) ==
  /\ pc[t] = "model" /\ left[t] > 0
  /\ Goto(t, "complete")
  /\ UNCHANGED <<runVars, appVars, executions, audit, crashes>>

\* Mutant: a turn is not counted.
LeftUncounted(n) == n

Left(n) == n - 1

\* Unreadable arguments, a refused call or a READ tool that ran: the result
\* goes back to the model and the conversation is saved.
Turn(t) ==
  /\ pc[t] = "model" /\ left[t] > 0
  /\ Save(run[t], Open)
  /\ conv' = [conv EXCEPT ![t] = Open]
  /\ left' = [left EXCEPT ![t] = Left(@)]
  /\ UNCHANGED <<status, appVars, pc, run, appr, sweep, executions, audit, crashes>>

\* A READ tool fails in a way the model cannot mend (abort).
ToolRaises(t) ==
  /\ pc[t] = "model" /\ left[t] > 0
  /\ Goto(t, "fail")
  /\ UNCHANGED <<runVars, appVars, executions, audit, crashes>>

Gated(t) ==
  /\ pc[t] = "model" /\ left[t] > 0
  /\ MeetsGate(t)
  /\ UNCHANGED <<runVars, appVars, executions, audit, crashes>>

\* The budget is spent.
Exhausted(t) ==
  /\ pc[t] = "model" /\ left[t] = 0
  /\ Goto(t, "fail")
  /\ UNCHANGED <<runVars, appVars, executions, audit, crashes>>

Complete(t) ==
  /\ pc[t] = "complete"
  /\ SetStatus(run[t], "COMPLETED")
  /\ Finish(t)
  /\ UNCHANGED <<conversation, appVars, executions, audit, crashes>>

Fail(t) ==
  /\ pc[t] = "fail"
  /\ SetStatus(run[t], "FAILED")
  /\ Finish(t)
  /\ UNCHANGED <<conversation, appVars, executions, audit, crashes>>

-----------------------------------------------------------------------------
(* park: the run waits, then the approval exists.                           *)

Park(t) ==
  /\ pc[t] = "park"
  /\ conversation' = [conversation EXCEPT ![run[t]] =
                        IF conv[t] = Empty THEN Empty ELSE appr[t]]
  /\ SetStatus(run[t], "WAITING_FOR_APPROVAL")
  /\ Goto(t, "create")
  /\ UNCHANGED <<appVars, executions, audit, crashes>>

CreateApproval(t) ==
  /\ pc[t] = "create"
  /\ decision' = [decision EXCEPT ![appr[t]] = "PENDING"]
  /\ runOf' = [runOf EXCEPT ![appr[t]] = run[t]]
  /\ Goto(t, "announce")
  /\ UNCHANGED <<runVars, executions, audit, crashes>>

Announce(t) ==
  /\ pc[t] = "announce"
  /\ Record("APPROVAL_REQUIRED", appr[t])
  /\ Finish(t)
  /\ UNCHANGED <<runVars, appVars, executions, crashes>>

-----------------------------------------------------------------------------
(* resolve_approval.                                                        *)

\* Mutant: the approval's status is not looked at.
ResolvableAlways(a) == decision[a] # "ABSENT"

Resolvable(a) == decision[a] = "PENDING"

\* The approval is read and found pending; later steps do not look again.
\* (The route's 403 and 404 and the refusal of a resolved approval change
\* nothing a property here tells apart.)
ReadApproval(t) ==
  /\ pc[t] = "idle"
  /\ \E a \in Approvals :
       /\ Resolvable(a)
       /\ appr' = [appr EXCEPT ![t] = a]
       /\ run' = [run EXCEPT ![t] = runOf[a]]
  /\ pc' = [pc EXCEPT ![t] = "decide"]
  /\ UNCHANGED <<runVars, appVars, conv, left, sweep, executions, audit, crashes>>

\* reject: the decision, the audit event, the end of the run.
Reject(t) ==
  /\ pc[t] = "decide"
  /\ decision' = [decision EXCEPT ![appr[t]] = "REJECTED"]
  /\ Goto(t, "deny")
  /\ UNCHANGED <<runVars, runOf, executions, audit, crashes>>

Deny(t) ==
  /\ pc[t] = "deny"
  /\ Record("APPROVAL_DENIED", appr[t])
  /\ Goto(t, "cancel")
  /\ UNCHANGED <<runVars, appVars, executions, crashes>>

Cancel(t) ==
  /\ pc[t] = "cancel"
  /\ SetStatus(run[t], "CANCELLED")
  /\ Finish(t)
  /\ UNCHANGED <<conversation, appVars, executions, audit, crashes>>

\* approve: the conversation is read before the decision is written.
Approve(t) ==
  /\ pc[t] = "decide"
  /\ pc' = [pc EXCEPT ![t] = "grant"]
  /\ conv' = [conv EXCEPT ![t] = conversation[run[t]]]
  /\ UNCHANGED <<runVars, appVars, run, appr, left, sweep, executions, audit, crashes>>

Grant(t) ==
  /\ pc[t] = "grant"
  /\ decision' = [decision EXCEPT ![appr[t]] = "APPROVED"]
  /\ Goto(t, "resume")
  /\ UNCHANGED <<runVars, runOf, executions, audit, crashes>>

\* Mutant: the tool is run before the grant is in the audit trail.
AfterResumeUnaudited == "execute"

AfterResume == "granted"

Resume(t) ==
  /\ pc[t] = "resume"
  /\ SetStatus(run[t], "RUNNING")
  /\ Goto(t, AfterResume)
  /\ UNCHANGED <<conversation, appVars, executions, audit, crashes>>

AuditGrant(t) ==
  /\ pc[t] = "granted"
  /\ Record("APPROVAL_GRANTED", appr[t])
  /\ Goto(t, "execute")
  /\ UNCHANGED <<runVars, appVars, executions, crashes>>

\* The gated tool is called with approved=True: it returns, refuses its
\* arguments (ValueError, TypeError), or fails.
Execute(t) ==
  /\ pc[t] = "execute"
  /\ executions' = [executions EXCEPT ![appr[t]][t] = @ + 1]
  /\ \E step \in {"record", "toolFailed", "abort"} : Goto(t, step)
  /\ UNCHANGED <<runVars, appVars, audit, crashes>>

\* The rest of the run: a direct one ends here, otherwise the loop starts
\* again, with a budget of its own.
Continue(t, ending) ==
  /\ IF conv[t] = Empty
       THEN /\ pc' = [pc EXCEPT ![t] = ending]
            /\ UNCHANGED left
       ELSE /\ pc' = [pc EXCEPT ![t] = "model"]
            /\ left' = [left EXCEPT ![t] = MaxIterations]
  /\ UNCHANGED <<run, appr, conv, sweep>>

\* Mutant: a direct action ends without its execution on record.
RecordExecutionSilent(t) ==
  /\ pc[t] = "record"
  /\ Continue(t, "complete")
  /\ UNCHANGED <<runVars, appVars, executions, audit, crashes>>

RecordExecution(t) ==
  /\ pc[t] = "record"
  /\ Record("TOOL_EXECUTED", appr[t])
  /\ Continue(t, "complete")
  /\ UNCHANGED <<runVars, appVars, executions, crashes>>

FailTool(t) ==
  /\ pc[t] = "toolFailed"
  /\ Record("TOOL_FAILED", appr[t])
  /\ Continue(t, "fail")
  /\ UNCHANGED <<runVars, appVars, executions, crashes>>

Abort(t) ==
  /\ pc[t] = "abort"
  /\ Record("AGENT_FAILED", appr[t])
  /\ Goto(t, "fail")
  /\ UNCHANGED <<runVars, appVars, executions, crashes>>

-----------------------------------------------------------------------------
(* ReconciliationService.reconcile: the operator's sweep.                   *)

\* list_stale_running
StaleRuns == {r \in Runs : status[r] = "RUNNING" /\ stale[r]}

StartSweep(t) ==
  /\ pc[t] = "idle"
  /\ StaleRuns # {}
  /\ pc' = [pc EXCEPT ![t] = "sweep"]
  /\ sweep' = [sweep EXCEPT ![t] = StaleRuns]
  /\ UNCHANGED <<runVars, appVars, run, appr, conv, left, executions, audit, crashes>>

\* One run of the list: it is read again, for the report only.
SweepRead(t) ==
  /\ pc[t] = "sweep"
  /\ \E r \in sweep[t] :
       /\ run' = [run EXCEPT ![t] = r]
       /\ sweep' = [sweep EXCEPT ![t] = @ \ {r}]
       /\ audit' = audit \cup
            {[event |-> "RUN_RECONCILED", run |-> r, previous |-> status[r]]}
  /\ pc' = [pc EXCEPT ![t] = "sweepFail"]
  /\ UNCHANGED <<runVars, appVars, appr, conv, left, executions, crashes>>

SweepFail(t) ==
  /\ pc[t] = "sweepFail"
  /\ SetStatus(run[t], "FAILED")
  /\ pc' = [pc EXCEPT ![t] = IF sweep[t] = {} THEN "idle" ELSE "sweep"]
  /\ run' = [run EXCEPT ![t] = None]
  /\ UNCHANGED <<conversation, appVars, appr, conv, left, sweep, executions, audit,
                 crashes>>

\* The process dies: its requests are gone, the tables stay.
Crash(t) ==
  /\ crashes < MaxCrashes
  /\ pc[t] # "idle"
  /\ Finish(t)
  /\ crashes' = crashes + 1
  /\ UNCHANGED <<runVars, appVars, executions, audit>>

-----------------------------------------------------------------------------
Drive(t) ==
  \/ ModelRaises(t) \/ Answer(t) \/ Turn(t) \/ ToolRaises(t) \/ Gated(t)
  \/ Exhausted(t)

Resolve(t) ==
  \/ Reject(t) \/ Deny(t) \/ Cancel(t)
  \/ Approve(t) \/ Grant(t) \/ Resume(t) \/ AuditGrant(t) \/ Execute(t)
  \/ RecordExecution(t) \/ FailTool(t) \/ Abort(t)

\* A request takes its next step.
Serve(t) ==
  \/ SaveOpening(t) \/ RequestTool(t) \/ Drive(t) \/ Complete(t) \/ Fail(t)
  \/ Park(t) \/ CreateApproval(t) \/ Announce(t)
  \/ Resolve(t)
  \/ SweepRead(t) \/ SweepFail(t)

\* A request arrives.
Arrive(t) == Run(t) \/ RequestAction(t) \/ ReadApproval(t) \/ StartSweep(t)

Step ==
  \/ \E t \in Threads : Arrive(t) \/ Serve(t) \/ Crash(t)
  \/ \E r \in Runs : Age(r)

\* The runs that the request of a thread is at work on, or will be.
Touches(t) ==
  IF pc[t] = "idle" THEN {} ELSE sweep[t] \cup ({run[t]} \ {None})

\* The runs that two requests are at work on. Nothing in the code keeps requests
\* about one run apart.
Overlapping ==
  {r \in Runs : \E t, u \in Threads : t # u /\ r \in Touches(t) \cap Touches(u)}

\* What every step adds to the history.
Contest == contested' = contested \cup Overlapping'

Next == Step /\ Contest

Spec == Init /\ [][Next]_vars

\* A request that a thread has taken up is served to its end: the model
\* client, the connectors and the database return or raise. That requests
\* arrive, or that anybody sweeps, is nobody's promise.
FairSpec == Spec /\ \A t \in Threads : WF_vars(Serve(t) /\ Contest)

-----------------------------------------------------------------------------
TypeOK ==
  /\ status \in [Runs -> RunStatus \cup {"ABSENT"}]
  /\ conversation \in [Runs -> Conversation]
  /\ stale \in [Runs -> BOOLEAN]
  /\ decision \in [Approvals -> ApprovalStatus \cup {"ABSENT"}]
  /\ runOf \in [Approvals -> Runs \cup {None}]
  /\ pc \in [Threads -> Steps]
  /\ run \in [Threads -> Runs \cup {None}]
  /\ appr \in [Threads -> Approvals \cup {None}]
  /\ conv \in [Threads -> Conversation]
  /\ left \in [Threads -> 0 .. MaxIterations]
  /\ sweep \in [Threads -> SUBSET Runs]
  /\ \A t \in Threads :
       /\ pc[t] \notin {"idle", "sweep"} => run[t] \in Runs
       /\ pc[t] \in {"park", "create", "announce", "decide", "deny", "cancel",
                        "grant", "resume", "granted", "execute", "record",
                        "toolFailed", "abort"} => appr[t] \in Approvals
       /\ pc[t] \in Taken => decision[appr[t]] # "ABSENT"
  /\ \A a \in Approvals : decision[a] # "ABSENT" => runOf[a] \in Runs
  /\ executions \in [Approvals -> [Threads -> Nat]]
  /\ audit \subseteq Events
  /\ crashes \in Nat
  /\ contested \subseteq Runs

\* A decision is spent by the request that took it up: however requests
\* overlap, die or are repeated, no thread calls the tool of one approval
\* twice (the PENDING test of resolve_approval).
OncePerThread ==
  \A a \in Approvals, t \in Threads : executions[a][t] <= 1

\* Why a decision is spent: a call that is not parked yet is its thread's own
\* and has no approval, an approval is never pending again, and whoever is about
\* to call the tool has not called it and has decided the approval.
SpentInv ==
  /\ \A t \in Threads : pc[t] \in {"park", "create"} =>
       /\ decision[appr[t]] = "ABSENT"
       /\ \A u \in Threads : appr[u] = appr[t] => u = t
  /\ \A a \in Approvals, t \in Threads :
       executions[a][t] > 0 => decision[a] \in {"APPROVED", "REJECTED"}
  /\ \A t \in Threads :
       /\ pc[t] \in {"decide", "grant", "resume", "granted", "execute"}
            => executions[appr[t]][t] = 0
       /\ pc[t] \in {"resume", "granted", "execute"}
            => decision[appr[t]] \in {"APPROVED", "REJECTED"}
       /\ pc[t] = "execute"
            => [event |-> "APPROVAL_GRANTED", appr |-> appr[t]] \in audit

\* Nothing gated runs before somebody's grant is in the audit trail.
ExecutedWasGranted ==
  \A a \in Approvals, t \in Threads :
    executions[a][t] > 0 => [event |-> "APPROVAL_GRANTED", appr |-> a] \in audit

\* A gated tool that was called has its outcome in the audit trail, once no
\* request is about to write it and none died.
ExecutionIsReported ==
  \A a \in Approvals, t \in Threads :
    /\ executions[a][t] > 0
    /\ crashes = 0
    /\ \A u \in Threads :
         appr[u] = a => pc[u] \notin {"record", "toolFailed", "abort"}
    => \E e \in {"TOOL_EXECUTED", "TOOL_FAILED", "AGENT_FAILED"} :
         [event |-> e, appr |-> a] \in audit

\* The bounded loop: every request that was taken up ends.
RequestsEnd == \A t \in Threads : pc[t] # "idle" ~> pc[t] = "idle"

\* The run diagram of the README with its approvals, and what is left of it for
\* a run that two requests were at work on at once.
Governed == INSTANCE GovernedRun
  WITH stage <- status, verdict <- decision, asker <- runOf, calls <- executions
ImplementsGovernedRun == Governed!Spec

-----------------------------------------------------------------------------
(* What the repository says of the program and the program does not keep.   *)

\* The conversation approve has read is empty (a direct action) or ends with
\* this approval's call, so that the tool's result is the answer to that call.
\* Two grants of one approval break it: one drives the run on until it is parked
\* at another call, and the other reads the conversation only then.
AnswersItsCall ==
  \A t \in Threads :
    pc[t] \in {"grant", "resume", "granted", "execute", "record", "toolFailed"}
      => conv[t] \in {Empty, appr[t]}

\* What test_an_approval_cannot_be_resolved_twice says: a second resolution is
\* refused, so one approval is at most one call of its tool.
ExecutedAtMostOnce ==
  \A a \in Approvals, t, u \in Threads :
    executions[a][t] > 0 /\ executions[a][u] > 0 => t = u

\* What list_stale_running says of a parked run: it is waiting on a human, not
\* stalled. So there is an approval for the human to resolve, unless a request
\* is at work on the run.
WaitingIsOnHuman ==
  \A r \in Runs :
    /\ status[r] = "WAITING_FOR_APPROVAL"
    /\ \A t \in Threads : r \notin Touches(t)
    => \E a \in Approvals : runOf[a] = r /\ decision[a] = "PENDING"

\* What reconcile says: only RUNNING runs are touched.
OnlyRunningIsReconciled ==
  \A r \in Runs, s \in RunStatus \ {"RUNNING"} :
    [event |-> "RUN_RECONCILED", run |-> r, previous |-> s] \notin audit
=============================================================================

------------------------------ MODULE Supervisor ------------------------------
(***************************************************************************)
(* The supervisor: every operation of class Supervisor, run by threads of  *)
(* one or more processes over one state database and one audit database.   *)
(*                                                                         *)
(* There is no lock anywhere in the code.  A step below is one stretch of  *)
(* memory accesses and at most one durable commit; another thread or       *)
(* process can run, and a process can die, between any two steps.  The     *)
(* name in pc[th] is the step the thread takes next.                       *)
(*                                                                         *)
(* A definition under a comment "Fault:" is no part of the specification:  *)
(* it is the next definition with a mistake in it, and shows which         *)
(* property would notice the mistake.                                      *)
(***************************************************************************)
EXTENDS Autonomy

CONSTANTS
    Procs,              \* processes holding a Supervisor: the API, the dashboard
    Threads,            \* the threads that serve requests
    ProcOf,             \* the process of a thread
    Agents,             \* the roster
    OptionalAgents,     \* agents registered only if found reachable at start-up
    Position,           \* the place of an agent in the order of registration
    InitialLevel,       \* the autonomy level an agent is registered with
    WipLimit,           \* its cap on tasks in progress
    AllowedTypes,       \* the task types it is scoped for
    Tasks,              \* identifiers of the tasks that may be submitted
    TypeOf,             \* the type of a task
    RiskOf,             \* its risk
    Scores,             \* the quality scores a checker or a human can give
    Requests,           \* the operations the callers use
    Faults,             \* what may go wrong
    MaxFeedback,        \* bound: verdicts a human gives on one task
    None

ASSUME RosterAssumption ==
    /\ IsFiniteSet(Threads) /\ ProcOf \in [Threads -> Procs]
    /\ OptionalAgents \subseteq Agents
    /\ Position \in [Agents -> Nat]
    /\ \A a, b \in Agents : Position[a] = Position[b] => a = b
    /\ InitialLevel \in [Agents -> Levels]
    /\ WipLimit \in [Agents -> Nat]
    /\ DOMAIN AllowedTypes = Agents
    /\ DOMAIN TypeOf = Tasks
    /\ RiskOf \in [Tasks -> Risks]
    /\ Scores \subseteq 0..100
    /\ MaxFeedback \in Nat
    /\ None \notin Agents \cup Tasks

\* "stop": a process ends between calls; "crash": in the middle of one;
\* "checker": the quality checker raises; "unreachable": an optional agent
\* is not reachable when a process starts.
ASSUME FaultsAssumption ==
    Faults \subseteq {"stop", "crash", "checker", "unreachable"}

VARIABLES
    \* the memory of a process
    up,             \* is the process running?
    registered,     \* the agents it has a worker for
    standing,       \* the mutable part of its AgentProfiles
    active,         \* how often a task is in an agent's active_task_ids
    pending,        \* the agent a task awaiting approval is meant for
    results,        \* the latest result of a task
    \* the state database
    dbAgents, dbPending, dbResults,
    \* the audit database
    taskLog,        \* how many events of a kind name a task
    agentLog,       \* how many promotions and demotions an agent had
    \* the threads
    pc, call,       \* the next step of a thread, and the locals of its call
    \* history
    issued,         \* tasks that have been submitted
    gated,          \* tasks the approval gate has held back
    killed          \* agents paused, the pause acknowledged, not since resumed

memory   == <<up, registered, standing, active, pending, results>>
database == <<dbAgents, dbPending, dbResults>>
audit    == <<taskLog, agentLog>>
history  == <<issued, gated, killed>>
vars == <<memory, database, audit, pc, call, history>>

-------------------------------------------------------------------------------
TaskEvents == {"TASK_ROUTED", "TASK_ASSIGNED", "TASK_REJECTED_PAUSED",
               "TASK_REJECTED_WIP_LIMIT", "TASK_PENDING_APPROVAL",
               "TASK_APPROVED_BY_HUMAN", "TASK_REJECTED_BY_HUMAN",
               "TASK_EXECUTION_STARTED", "TASK_FAILED",
               "TASK_ESCALATED_LOW_QUALITY", "TASK_COMPLETED",
               "HUMAN_FEEDBACK_APPLIED"}
AgentEvents == {"PROMOTED", "DEMOTED"}

Statuses == {"PENDING_APPROVAL", "COMPLETED", "ESCALATED", "REJECTED", "FAILED"}
Outcomes == Statuses \ {"PENDING_APPROVAL"}

Standings == StandingOf(Scores)
SomeScore == Scores \cup {NoScore}
Result == [agent : Agents, status : Statuses, score : SomeScore]

\* None is neither a profile nor a result nor the status of one.
ASSUME NoneAssumption ==
    /\ None \notin Standings
    /\ None \notin Result
    /\ None \notin Statuses

\* The locals of a thread with no call in progress.
NoCall == [op |-> "none", agent |-> None, task |-> None, status |-> None,
           score |-> NoScore, level |-> 0, verdict |-> None, snap |-> None]

FirstProfile(a) ==
    [level |-> InitialLevel[a], paused |-> FALSE, window |-> <<>>, count |-> 0]

\* The memory of a process that is not running.
NoStanding == [a \in Agents |-> FirstProfile(a)]
NothingActive == [a \in Agents |-> [t \in Tasks |-> 0]]
NoTask == [t \in Tasks |-> None]

Wip(p, a) == SumFunction(active[p][a])
HasSlot(p, a) == Wip(p, a) < WipLimit[a]

Init ==
    /\ up = [p \in Procs |-> FALSE]
    /\ registered = [p \in Procs |-> {}]
    /\ standing = [p \in Procs |-> NoStanding]
    /\ active = [p \in Procs |-> NothingActive]
    /\ pending = [p \in Procs |-> NoTask]
    /\ results = [p \in Procs |-> NoTask]
    /\ dbAgents = [a \in Agents |-> None]
    /\ dbPending = NoTask
    /\ dbResults = NoTask
    /\ taskLog = [t \in Tasks |-> [e \in TaskEvents |-> 0]]
    /\ agentLog = [a \in Agents |-> [e \in AgentEvents |-> 0]]
    /\ pc = [th \in Threads |-> "idle"]
    /\ call = [th \in Threads |-> NoCall]
    /\ issued = {} /\ gated = {} /\ killed = {}

-------------------------------------------------------------------------------
Idle(th) == up[ProcOf[th]] /\ pc[th] = "idle"

Log(t, e) == taskLog' = [taskLog EXCEPT ![t][e] = @ + 1]

Goto(th, step) == pc' = [pc EXCEPT ![th] = step]

Return(th) ==
    /\ Goto(th, "idle")
    /\ call' = [call EXCEPT ![th] = NoCall]

TaskCall(a, t) == [NoCall EXCEPT !.op = "task", !.agent = a, !.task = t]

-------------------------------------------------------------------------------
(* Start-up and death of a process.                                        *)

\* Fault: the level a program text names wins over the persisted one.
LoadedLevelReset(a) ==
    IF dbAgents[a] = None THEN FirstProfile(a)
    ELSE [dbAgents[a] EXCEPT !.level = InitialLevel[a]]

\* Fault: the paused flag is not restored.
LoadedUnpaused(a) ==
    IF dbAgents[a] = None THEN FirstProfile(a)
    ELSE [dbAgents[a] EXCEPT !.paused = FALSE]

\* What register_agent makes of an agent: a persisted profile wins.
Loaded(a) == IF dbAgents[a] = None THEN FirstProfile(a) ELSE dbAgents[a]

\* A process starts: Supervisor() reads the pending approvals, and the
\* bootstrap registers the agents it can reach.
StartProcess(p) ==
    /\ ~ up[p]
    /\ up' = [up EXCEPT ![p] = TRUE]
    /\ \E missing \in SUBSET OptionalAgents :
        /\ missing # {} => "unreachable" \in Faults
        /\ registered' = [registered EXCEPT ![p] = Agents \ missing]
    /\ standing' = [standing EXCEPT ![p] =
            [a \in Agents |-> IF a \in registered'[p]
                              THEN Loaded(a) ELSE FirstProfile(a)]]
    /\ dbAgents' = [a \in Agents |-> IF a \in registered'[p]
                                     THEN Loaded(a) ELSE dbAgents[a]]
    /\ pending' = [pending EXCEPT ![p] = dbPending]
    /\ UNCHANGED <<active, results, dbPending, dbResults, audit, pc, call, history>>

\* A process ends and its memory is gone, with the calls in progress if any.
EndProcess(p) ==
    /\ up[p]
    /\ \/ "crash" \in Faults
       \/ "stop" \in Faults /\ \A th \in Threads : ProcOf[th] = p => pc[th] = "idle"
    /\ up' = [up EXCEPT ![p] = FALSE]
    /\ registered' = [registered EXCEPT ![p] = {}]
    /\ standing' = [standing EXCEPT ![p] = NoStanding]
    /\ active' = [active EXCEPT ![p] = NothingActive]
    /\ pending' = [pending EXCEPT ![p] = NoTask]
    /\ results' = [results EXCEPT ![p] = NoTask]
    /\ pc' = [th \in Threads |-> IF ProcOf[th] = p THEN "idle" ELSE pc[th]]
    /\ call' = [th \in Threads |-> IF ProcOf[th] = p THEN NoCall ELSE call[th]]
    /\ UNCHANGED <<database, audit, history>>

-------------------------------------------------------------------------------
(* The kill switch.                                                        *)

\* Fault: the flag is set in memory only.
PauseAgentUnsaved(th, a) ==
    /\ Idle(th) /\ "pause" \in Requests
    /\ a \in registered[ProcOf[th]]
    /\ standing' = [standing EXCEPT ![ProcOf[th]][a].paused = TRUE]
    /\ call' = [call EXCEPT ![th] = [NoCall EXCEPT !.op = "pause", !.agent = a]]
    /\ Goto(th, "log_switch")
    /\ UNCHANGED <<up, registered, active, pending, results, database, audit, history>>

PauseAgent(th, a) ==
    /\ Idle(th) /\ "pause" \in Requests
    /\ a \in registered[ProcOf[th]]
    /\ standing' = [standing EXCEPT ![ProcOf[th]][a].paused = TRUE]
    /\ call' = [call EXCEPT ![th] = [NoCall EXCEPT !.op = "pause", !.agent = a]]
    /\ Goto(th, "snap")
    /\ UNCHANGED <<up, registered, active, pending, results, database, audit, history>>

ResumeAgent(th, a) ==
    /\ Idle(th) /\ "resume" \in Requests
    /\ a \in registered[ProcOf[th]]
    /\ standing' = [standing EXCEPT ![ProcOf[th]][a].paused = FALSE]
    /\ call' = [call EXCEPT ![th] = [NoCall EXCEPT !.op = "resume", !.agent = a]]
    /\ Goto(th, "snap")
    /\ killed' = killed \ {a}
    /\ UNCHANGED <<up, registered, active, pending, results, database, audit,
                   issued, gated>>

\* AGENT_PAUSED or AGENT_RESUMED is logged and the caller gets its answer.
LogSwitch(th) ==
    /\ pc[th] = "log_switch"
    /\ killed' = IF call[th].op = "pause" THEN killed \cup {call[th].agent} ELSE killed
    /\ Return(th)
    /\ UNCHANGED <<memory, database, audit, issued, gated>>

-------------------------------------------------------------------------------
(* Submitting a task.                                                      *)

\* The checks of assign_task, in their order, and the event each one logs.
Admit(th, a, t) ==
    LET p == ProcOf[th]
        scoped == TypeOf[t] \in AllowedTypes[a]
        full == ~ HasSlot(p, a)
    IN  \/ /\ standing[p][a].paused
           /\ Log(t, "TASK_REJECTED_PAUSED")
           /\ Return(th)
        \/ /\ ~ standing[p][a].paused /\ ~ scoped
           /\ Return(th)
           /\ UNCHANGED taskLog
        \/ /\ ~ standing[p][a].paused /\ scoped /\ full
           /\ Log(t, "TASK_REJECTED_WIP_LIMIT")
           /\ Return(th)
        \/ /\ ~ standing[p][a].paused /\ scoped /\ ~ full
           /\ Log(t, "TASK_ASSIGNED")
           /\ call' = [call EXCEPT ![th] = TaskCall(a, t)]
           /\ Goto(th, "gate")

\* The caller names the agent.
AssignTask(th, a, t) ==
    /\ Idle(th) /\ "assign" \in Requests
    /\ a \in registered[ProcOf[th]]
    /\ t \notin issued
    /\ issued' = issued \cup {t}
    /\ Admit(th, a, t)
    /\ UNCHANGED <<memory, database, agentLog, gated, killed>>

\* Fault: the kill switch is left to assign_task.
EligibleEvenPaused(p, t) ==
    {a \in registered[p] : TypeOf[t] \in AllowedTypes[a] /\ HasSlot(p, a)}

\* Scoped for the task, not paused, and with a slot to spare.
Eligible(p, t) ==
    {a \in registered[p] : /\ TypeOf[t] \in AllowedTypes[a]
                           /\ ~ standing[p][a].paused
                           /\ HasSlot(p, a)}

\* The supervisor picks the agent, or finds none and raises.
RouteTask(th, t) ==
    LET p == ProcOf[th]
        eligible == Eligible(p, t)
    IN  /\ Idle(th) /\ "route" \in Requests
        /\ t \notin issued
        /\ issued' = issued \cup {t}
        /\ \/ eligible = {} /\ UNCHANGED <<taskLog, pc, call>>
           \/ \E a \in eligible :
                /\ MostTrusted(a, eligible, standing[p], Position)
                /\ Log(t, "TASK_ROUTED")
                /\ call' = [call EXCEPT ![th] = TaskCall(a, t)]
                /\ Goto(th, "routed")
        /\ UNCHANGED <<memory, database, agentLog, gated, killed>>

\* route_task goes on into assign_task, whose checks read the state again.
AssignRouted(th) ==
    /\ pc[th] = "routed"
    /\ Admit(th, call[th].agent, call[th].task)
    /\ UNCHANGED <<memory, database, agentLog, history>>

-------------------------------------------------------------------------------
(* The approval gate.                                                      *)

\* _execute begins: the task takes a slot of the agent.
Begin(th) ==
    LET a == call[th].agent  t == call[th].task
    IN  /\ active' = [active EXCEPT ![ProcOf[th]][a][t] = @ + 1]
        /\ Log(t, "TASK_EXECUTION_STARTED")
        /\ Goto(th, "run")

PassGate(th) ==
    /\ pc[th] = "gate"
    /\ ~ RequiresPreapproval(standing[ProcOf[th]][call[th].agent].level,
                             RiskOf[call[th].task])
    /\ Begin(th)
    /\ UNCHANGED <<up, registered, standing, pending, results, database,
                   agentLog, call, history>>

\* The task is held; from here on an approver can see it.
HoldAtGate(th) ==
    /\ pc[th] = "gate"
    /\ RequiresPreapproval(standing[ProcOf[th]][call[th].agent].level,
                           RiskOf[call[th].task])
    /\ pending' = [pending EXCEPT ![ProcOf[th]][call[th].task] = call[th].agent]
    /\ gated' = gated \cup {call[th].task}
    /\ call' = [call EXCEPT ![th].op = "held", ![th].status = "PENDING_APPROVAL"]
    /\ Goto(th, "save_pending")
    /\ UNCHANGED <<up, registered, standing, active, results, database, audit,
                   issued, killed>>

SavePending(th) ==
    /\ pc[th] = "save_pending"
    /\ dbPending' = [dbPending EXCEPT ![call[th].task] = call[th].agent]
    /\ Goto(th, "log_pending")
    /\ UNCHANGED <<memory, dbAgents, dbResults, audit, call, history>>

\* Fault: assign_task does not return here but goes on to execute.
LogPendingFallsThrough(th) ==
    /\ pc[th] = "log_pending"
    /\ Log(call[th].task, "TASK_PENDING_APPROVAL")
    /\ Goto(th, "start")
    /\ UNCHANGED <<memory, database, agentLog, call, history>>

LogPending(th) ==
    /\ pc[th] = "log_pending"
    /\ Log(call[th].task, "TASK_PENDING_APPROVAL")
    /\ Goto(th, "record")
    /\ UNCHANGED <<memory, database, agentLog, call, history>>

\* Fault: the row stays in the database.
TakePendingKeepsRow(th, t) ==
    /\ Idle(th)
    /\ pending[ProcOf[th]][t] # None
    /\ pending' = [pending EXCEPT ![ProcOf[th]][t] = None]
    /\ UNCHANGED dbPending

\* Fault: the task is looked up, not popped.
TakePendingPeeks(th, t) ==
    /\ Idle(th)
    /\ pending[ProcOf[th]][t] # None
    /\ UNCHANGED pending
    /\ dbPending' = [dbPending EXCEPT ![t] = None]

\* Both decisions take the task out of the queue before anything else.
TakePending(th, t) ==
    /\ Idle(th)
    /\ pending[ProcOf[th]][t] # None
    /\ pending' = [pending EXCEPT ![ProcOf[th]][t] = None]
    /\ dbPending' = [dbPending EXCEPT ![t] = None]

\* The call ends here, in UnknownAgentError, if the process never registered
\* the agent the task was meant for.
ApproveTask(th, t) ==
    LET a == pending[ProcOf[th]][t]
    IN  /\ "approve" \in Requests
        /\ TakePending(th, t)
        /\ \/ /\ a \in registered[ProcOf[th]]
              /\ call' = [call EXCEPT ![th] = TaskCall(a, t)]
              /\ Goto(th, "approved")
           \/ /\ a \notin registered[ProcOf[th]]
              /\ UNCHANGED <<pc, call>>
        /\ UNCHANGED <<up, registered, standing, active, results, dbAgents,
                       dbResults, audit, history>>

LogApproved(th) ==
    /\ pc[th] = "approved"
    /\ Log(call[th].task, "TASK_APPROVED_BY_HUMAN")
    /\ Goto(th, "start")
    /\ UNCHANGED <<memory, database, agentLog, call, history>>

\* No pause, scope or WIP check stands between an approval and execution.
StartApproved(th) ==
    /\ pc[th] = "start"
    /\ Begin(th)
    /\ UNCHANGED <<up, registered, standing, pending, results, database,
                   agentLog, call, history>>

\* Fault: the result is recorded without the event.
RejectTaskUnlogged(th, t) ==
    /\ "reject" \in Requests
    /\ call' = [call EXCEPT ![th] = [TaskCall(pending[ProcOf[th]][t], t)
                                        EXCEPT !.status = "REJECTED"]]
    /\ Goto(th, "record")
    /\ TakePending(th, t)
    /\ UNCHANGED <<up, registered, standing, active, results, dbAgents,
                   dbResults, audit, history>>

RejectTask(th, t) ==
    /\ "reject" \in Requests
    /\ call' = [call EXCEPT ![th] = [TaskCall(pending[ProcOf[th]][t], t)
                                        EXCEPT !.status = "REJECTED"]]
    /\ Goto(th, "rejected")
    /\ TakePending(th, t)
    /\ UNCHANGED <<up, registered, standing, active, results, dbAgents,
                   dbResults, audit, history>>

LogRejected(th) ==
    /\ pc[th] = "rejected"
    /\ Log(call[th].task, "TASK_REJECTED_BY_HUMAN")
    /\ Goto(th, "record")
    /\ UNCHANGED <<memory, database, agentLog, call, history>>

-------------------------------------------------------------------------------
(* Execution.                                                              *)

FreeSlot(th) ==
    active' = [active EXCEPT ![ProcOf[th]][call[th].agent][call[th].task] = @ - 1]

WorkerReturns(th) ==
    /\ pc[th] = "run"
    /\ FreeSlot(th)
    /\ Goto(th, "score")
    /\ UNCHANGED <<up, registered, standing, pending, results, database, audit,
                   call, history>>

\* Fault: a failed task keeps its slot.
WorkerRaisesLeaking(th) ==
    /\ pc[th] = "run"
    /\ call' = [call EXCEPT ![th].status = "FAILED"]
    /\ Goto(th, "snap")
    /\ UNCHANGED <<memory, database, audit, history>>

\* Fault: the exception is swallowed.
WorkerRaisesSilently(th) ==
    /\ pc[th] = "run"
    /\ FreeSlot(th)
    /\ Return(th)
    /\ UNCHANGED <<up, registered, standing, pending, results, database, audit,
                   history>>

\* The profile is saved, then TASK_FAILED is logged, then the result stored.
WorkerRaises(th) ==
    /\ pc[th] = "run"
    /\ FreeSlot(th)
    /\ call' = [call EXCEPT ![th].status = "FAILED"]
    /\ Goto(th, "snap")
    /\ UNCHANGED <<up, registered, standing, pending, results, database, audit,
                   history>>

LogFailed(th) ==
    /\ pc[th] = "log_failed"
    /\ Log(call[th].task, "TASK_FAILED")
    /\ Goto(th, "record")
    /\ UNCHANGED <<memory, database, agentLog, call, history>>

\* The score enters the window ...
Score(th, s) ==
    /\ pc[th] = "score"
    /\ standing' = [standing EXCEPT
            ![ProcOf[th]][call[th].agent].window = Append(@, s)]
    /\ call' = [call EXCEPT ![th].score = s]
    /\ Goto(th, "cut")
    /\ UNCHANGED <<up, registered, active, pending, results, database, audit,
                   history>>

\* ... which is cut.  The count goes up, and the level decides whether a low
\* score is flagged.
CutWindow(th) ==
    LET p == ProcOf[th]  a == call[th].agent
        low == EscalatesAfter(standing[p][a].level, call[th].score)
    IN  /\ pc[th] = "cut"
        /\ standing' = [standing EXCEPT ![p][a].window = LatestScores(@),
                                        ![p][a].count = @ + 1]
        /\ call' = [call EXCEPT ![th].status = IF low THEN "ESCALATED" ELSE "COMPLETED"]
        /\ Goto(th, IF low THEN "log_escalated" ELSE "log_completed")
        /\ UNCHANGED <<up, registered, active, pending, results, database, audit,
                       history>>

LogEscalated(th) ==
    /\ pc[th] = "log_escalated"
    /\ Log(call[th].task, "TASK_ESCALATED_LOW_QUALITY")
    /\ Goto(th, "log_completed")
    /\ UNCHANGED <<memory, database, agentLog, call, history>>

\* The checker is called outside the try block: its exception ends the call.
CheckerRaises(th) ==
    /\ pc[th] = "score" /\ "checker" \in Faults
    /\ Return(th)
    /\ UNCHANGED <<memory, database, audit, history>>

LogCompleted(th) ==
    /\ pc[th] = "log_completed"
    /\ Log(call[th].task, "TASK_COMPLETED")
    /\ Goto(th, "review")
    /\ UNCHANGED <<memory, database, agentLog, call, history>>

\* maybe_adjust_autonomy reads the count, the window and the level ...
Review(th) ==
    LET s == standing[ProcOf[th]][call[th].agent]
        Decide(verdict) ==
            /\ call' = [call EXCEPT ![th].level = s.level, ![th].verdict = verdict]
            /\ Goto(th, "adjust")
    IN  /\ pc[th] = "review"
        /\ \/ Promotes(s) /\ Decide("PROMOTED")
           \/ Demotes(s) /\ Decide("DEMOTED")
           \/ ~ Promotes(s) /\ ~ Demotes(s) /\ Goto(th, "snap") /\ UNCHANGED call
        /\ UNCHANGED <<memory, database, audit, history>>

\* ... writes the neighbour of the level it read ...
AdjustAutonomy(th) ==
    LET next == IF call[th].verdict = "PROMOTED"
                THEN call[th].level + 1 ELSE call[th].level - 1
    IN  /\ pc[th] = "adjust"
        /\ standing' = [standing EXCEPT ![ProcOf[th]][call[th].agent].level = next]
        /\ Goto(th, "log_adjusted")
        /\ UNCHANGED <<up, registered, active, pending, results, database, audit,
                       call, history>>

\* Fault: the adjustment is not logged.
LogAdjustedNothing(th) ==
    /\ pc[th] = "log_adjusted"
    /\ call' = [call EXCEPT ![th].level = 0, ![th].verdict = None]
    /\ Goto(th, "snap")
    /\ UNCHANGED <<memory, database, audit, history>>

\* ... and logs it.
LogAdjusted(th) ==
    /\ pc[th] = "log_adjusted"
    /\ agentLog' = [agentLog EXCEPT ![call[th].agent][call[th].verdict] = @ + 1]
    /\ call' = [call EXCEPT ![th].level = 0, ![th].verdict = None]
    /\ Goto(th, "snap")
    /\ UNCHANGED <<memory, database, taskLog, history>>

-------------------------------------------------------------------------------
(* Human feedback.                                                         *)

\* The verdict is folded into the window whatever the result's status is.
RecordHumanFeedback(th, t, s) ==
    LET p == ProcOf[th]
        result == IF results[p][t] # None THEN results[p][t] ELSE dbResults[t]
    IN  /\ Idle(th) /\ "feedback" \in Requests
        /\ taskLog[t]["HUMAN_FEEDBACK_APPLIED"] < MaxFeedback
        /\ result # None
        /\ result.agent \in registered[p]
        /\ standing' = [standing EXCEPT ![p][result.agent].window =
                            ApplyFeedback(@, result.score, s)]
        /\ call' = [call EXCEPT ![th] =
                [NoCall EXCEPT !.op = "feedback", !.agent = result.agent,
                               !.task = t, !.status = result.status, !.score = s]]
        /\ Goto(th, "log_feedback")
        /\ UNCHANGED <<up, registered, active, pending, results, database, audit,
                       history>>

LogFeedback(th) ==
    /\ pc[th] = "log_feedback"
    /\ Log(call[th].task, "HUMAN_FEEDBACK_APPLIED")
    /\ Goto(th, "record")
    /\ UNCHANGED <<memory, database, agentLog, call, history>>

-------------------------------------------------------------------------------
(* Writing through to the state database.                                  *)

\* save_agent reads the shared profile ...
SnapshotAgent(th) ==
    /\ pc[th] = "snap"
    /\ call' = [call EXCEPT ![th].snap = standing[ProcOf[th]][call[th].agent]]
    /\ Goto(th, "commit")
    /\ UNCHANGED <<memory, database, audit, history>>

\* ... and commits what it read.
CommitAgent(th) ==
    /\ pc[th] = "commit"
    /\ dbAgents' = [dbAgents EXCEPT ![call[th].agent] = call[th].snap]
    /\ \/ /\ call[th].op = "feedback"
          /\ Return(th)
       \/ /\ call[th].op # "feedback"
          /\ call' = [call EXCEPT ![th].snap = None]
          /\ \/ call[th].op \in {"pause", "resume"} /\ Goto(th, "log_switch")
             \/ /\ call[th].op = "task" /\ call[th].status = "FAILED"
                /\ Goto(th, "log_failed")
             \/ /\ call[th].op = "task" /\ call[th].status # "FAILED"
                /\ Goto(th, "record")
    /\ UNCHANGED <<memory, dbPending, dbResults, audit, history>>

\* The result is stored in memory and saved; feedback saves the agent next.
RecordResult(th) ==
    LET t == call[th].task
        result == [agent |-> call[th].agent, status |-> call[th].status,
                   score |-> call[th].score]
    IN  /\ pc[th] = "record"
        /\ results' = [results EXCEPT ![ProcOf[th]][t] = result]
        /\ dbResults' = [dbResults EXCEPT ![t] = result]
        /\ \/ call[th].op = "feedback" /\ Goto(th, "snap") /\ UNCHANGED call
           \/ call[th].op # "feedback" /\ Return(th)
        /\ UNCHANGED <<up, registered, standing, active, pending, dbAgents,
                       dbPending, audit, history>>

-------------------------------------------------------------------------------
\* A caller makes a request.
Request(th) ==
    \/ \E a \in Agents : PauseAgent(th, a) \/ ResumeAgent(th, a)
    \/ \E a \in Agents, t \in Tasks : AssignTask(th, a, t)
    \/ \E t \in Tasks : RouteTask(th, t) \/ ApproveTask(th, t) \/ RejectTask(th, t)
    \/ \E t \in Tasks, s \in Scores : RecordHumanFeedback(th, t, s)

\* A call in progress moves on.
Proceed(th) ==
    \/ AssignRouted(th)
    \/ PassGate(th) \/ HoldAtGate(th) \/ SavePending(th) \/ LogPending(th)
    \/ LogApproved(th) \/ StartApproved(th) \/ LogRejected(th)
    \/ WorkerReturns(th) \/ WorkerRaises(th) \/ LogFailed(th)
    \/ (\E s \in Scores : Score(th, s)) \/ CheckerRaises(th)
    \/ CutWindow(th) \/ LogEscalated(th) \/ LogCompleted(th)
    \/ Review(th) \/ AdjustAutonomy(th) \/ LogAdjusted(th)
    \/ LogFeedback(th)
    \/ SnapshotAgent(th) \/ CommitAgent(th) \/ RecordResult(th) \/ LogSwitch(th)

Next ==
    \/ \E p \in Procs : StartProcess(p) \/ EndProcess(p)
    \/ \E th \in Threads : Request(th) \/ Proceed(th)

Spec == Init /\ [][Next]_vars

\* The interpreter runs every thread, and a worker returns or raises: its
\* HTTP calls have timeouts and a bounded number of attempts.  Nobody has to
\* make a request.
FairSpec == Spec /\ \A th \in Threads : WF_vars(Proceed(th))
-------------------------------------------------------------------------------
(* Correctness.                                                            *)

ThreadsOf(p) == {th \in Threads : ProcOf[th] = p}
AtRest(p) == up[p] /\ \A th \in ThreadsOf(p) : pc[th] = "idle"

Calls == [op : {"none", "task", "held", "feedback", "pause", "resume"},
          agent : Agents \cup {None}, task : Tasks \cup {None},
          status : Statuses \cup {None}, score : SomeScore, level : Levels,
          verdict : AgentEvents \cup {None}, snap : Standings \cup {None}]

\* The steps of a thread that works on a task of its own.
WorkSteps == {"routed", "gate", "approved", "start", "rejected", "run", "score",
              "cut", "log_escalated", "log_completed", "review", "adjust",
              "log_adjusted", "log_failed"}
HoldSteps == {"save_pending", "log_pending"}
Steps == WorkSteps \cup HoldSteps
            \cup {"idle", "log_feedback", "record", "snap", "commit", "log_switch"}

MemoryType ==
    /\ up \in [Procs -> BOOLEAN]
    /\ registered \in [Procs -> SUBSET Agents]
    /\ standing \in [Procs -> [Agents -> Standings]]
    /\ active \in [Procs -> [Agents -> [Tasks -> Int]]]
    /\ pending \in [Procs -> [Tasks -> Agents \cup {None}]]
    /\ results \in [Procs -> [Tasks -> Result \cup {None}]]

DatabaseType ==
    /\ dbAgents \in [Agents -> Standings \cup {None}]
    /\ dbPending \in [Tasks -> Agents \cup {None}]
    /\ dbResults \in [Tasks -> Result \cup {None}]

AuditType ==
    /\ taskLog \in [Tasks -> [TaskEvents -> Nat]]
    /\ agentLog \in [Agents -> [AgentEvents -> Nat]]

HistoryType ==
    /\ issued \subseteq Tasks /\ gated \subseteq Tasks /\ killed \subseteq Agents

\* The locals of a call are those its next step uses.
LocalsFit(step, c) ==
    /\ step = "idle" => c = NoCall
    /\ step # "idle" => c.agent \in Agents
    /\ step \in WorkSteps => c.op = "task"
    /\ step \in HoldSteps => c.op = "held"
    /\ step = "log_feedback" => c.op = "feedback"
    /\ step = "record" => c.op \in {"task", "held", "feedback"}
    /\ step \in {"snap", "commit"} => c.op \in {"task", "feedback", "pause", "resume"}
    /\ step = "log_switch" => c.op \in {"pause", "resume"}
    /\ c.op \in {"task", "held", "feedback"} => c.task \in Tasks
    /\ c.op = "held" => c.status = "PENDING_APPROVAL"
    /\ c.op = "feedback" => c.status \in Statuses
    /\ step = "rejected" => c.status = "REJECTED"
    /\ step = "log_failed" => c.status = "FAILED"
    /\ step = "cut" => c.score \in Scores
    /\ step = "log_escalated" => c.status = "ESCALATED"
    /\ step \in {"log_completed", "review", "adjust", "log_adjusted"} =>
            c.status \in {"COMPLETED", "ESCALATED"}
    /\ c.op = "task" /\ step \in {"snap", "commit", "record"} => c.status \in Outcomes
    /\ step = "commit" => c.snap \in Standings
    /\ step \in {"adjust", "log_adjusted"} =>
            \/ c.verdict = "PROMOTED" /\ c.level < 4
            \/ c.verdict = "DEMOTED" /\ c.level > 0

ThreadType ==
    /\ pc \in [Threads -> Steps]
    /\ call \in [Threads -> Calls]
    /\ \A th \in Threads : LocalsFit(pc[th], call[th])
    /\ \A th \in Threads : pc[th] # "idle" => up[ProcOf[th]]

\* Every variable has its type, and a thread in the middle of a call, of a
\* running process only, has the locals its next step uses.
TypeOK == MemoryType /\ DatabaseType /\ AuditType /\ HistoryType /\ ThreadType

\* Sign-off before execution: a task the gate held back never starts more
\* often than a human approved it, whatever thread or process picks it up and
\* however often the approval is found again in the database.
SignOffCovers ==
    \A t \in gated :
        taskLog[t]["TASK_EXECUTION_STARTED"] <= taskLog[t]["TASK_APPROVED_BY_HUMAN"]

\* No two threads of a process work on the same task: popping it from
\* pending_approvals hands it to exactly one of two racing decisions.
OneOwner ==
    \A th1, th2 \in Threads :
        /\ th1 # th2 /\ ProcOf[th1] = ProcOf[th2]
        /\ call[th1].op = "task" /\ call[th2].op = "task"
        => call[th1].task # call[th2].task

\* An agent's active_task_ids names exactly the tasks its worker is running:
\* no slot leaks, and list.remove never misses.
SlotsExact ==
    \A p \in Procs, a \in Agents, t \in Tasks :
        active[p][a][t] =
            IF \E th \in ThreadsOf(p) :
                pc[th] = "run" /\ call[th].agent = a /\ call[th].task = t
            THEN 1 ELSE 0

EventOf == [PENDING_APPROVAL |-> "TASK_PENDING_APPROVAL",
            COMPLETED |-> "TASK_COMPLETED",
            ESCALATED |-> "TASK_ESCALATED_LOW_QUALITY",
            REJECTED |-> "TASK_REJECTED_BY_HUMAN",
            FAILED |-> "TASK_FAILED"]

\* The audit trail is ahead of the record: a result can be looked up only after
\* the event that explains it was logged, even if the process died in between.
OutcomeAudited ==
    \A t \in Tasks :
        dbResults[t] # None => taskLog[t][EventOf[dbResults[t].status]] > 0

\* A restart changes nothing: whenever no call is in progress, what the process
\* would read back from the database is what it holds in memory.
WrittenThrough ==
    \A p \in Procs :
        AtRest(p) =>
            /\ pending[p] = dbPending
            /\ \A a \in registered[p] : dbAgents[a] = standing[p][a]
            /\ \A t \in Tasks : results[p][t] # None => dbResults[t] = results[p][t]

\* A pause that was acknowledged stays, across restarts too, until somebody
\* resumes the agent.
KillSwitchHolds ==
    \A a \in killed :
        /\ dbAgents[a] # None /\ dbAgents[a].paused
        /\ \A p \in Procs : a \in registered[p] => standing[p][a].paused

\* A human decides on a task at most once.
DecidedOnce ==
    \A t \in Tasks :
        taskLog[t]["TASK_APPROVED_BY_HUMAN"] + taskLog[t]["TASK_REJECTED_BY_HUMAN"] <= 1

\* The recorded outcome of a task is final: neither a crash, nor a restart, nor
\* later feedback turns it into another one.
OutcomeFinal ==
    [][\A t \in Tasks :
        dbResults[t] # None /\ dbResults[t].status \in Outcomes =>
            dbResults'[t] # None /\ dbResults'[t].status = dbResults[t].status]_vars

\* Autonomy is reviewed once per cycle: the durable level of an agent moves by
\* one rung, and only together with the count of completed tasks that closes a
\* cycle of EvaluationWindow.
ReviewCadence ==
    [][\A a \in Agents :
        dbAgents[a] # None /\ dbAgents'[a].level # dbAgents[a].level =>
            /\ dbAgents'[a].level - dbAgents[a].level \in {-1, 1}
            /\ dbAgents'[a].count = dbAgents[a].count + 1
            /\ dbAgents'[a].count % EvaluationWindow = 0]_vars

\* The audit trail accounts for an agent's autonomy: whenever nothing is in
\* progress, across restarts too, its durable level is the level it was first
\* registered with, one up for each PROMOTED and one down for each DEMOTED.
LevelExplained ==
    (\A th \in Threads : pc[th] = "idle") =>
        \A a \in Agents :
            dbAgents[a] # None =>
                dbAgents[a].level =
                    InitialLevel[a] + agentLog[a]["PROMOTED"] - agentLog[a]["DEMOTED"]

\* A level the adjustments that were logged account for.
Backed(a, level) ==
    \E ups \in 0..agentLog[a]["PROMOTED"], downs \in 0..agentLog[a]["DEMOTED"] :
        level = InitialLevel[a] + ups - downs

\* The durable level never claims more than the trail shows: it is the first
\* level, moved by adjustments that were logged.  A crash may lose an
\* adjustment that was logged, never keep one that was not.  Only where a
\* process has one thread: another one may save the level in between.
LevelBacked ==
    \A a \in Agents : dbAgents[a] # None => Backed(a, dbAgents[a].level)

\* Threads that finish together may all see the count that closes a cycle, and
\* each moves the level (policy.py means it to move once): but none does so twice
\* in a cycle, and between two cycles nobody does, as long as the process lives.
AdjustmentsPerCycle ==
    \A a \in Agents, p \in Procs :
        a \in registered[p] =>
            agentLog[a]["PROMOTED"] + agentLog[a]["DEMOTED"]
                <= Cardinality(ThreadsOf(p)) * (standing[p][a].count \div EvaluationWindow)

\* The verdicts in the trail, numbered task by task.
Verdicts == UNION {{t} \X (1..taskLog[t]["HUMAN_FEEDBACK_APPLIED"]) : t \in Tasks}

\* The durable trust window is the last EvaluationWindow scores, and longer at
\* most by the verdicts the trail shows.  Only where a process has one thread:
\* another one may save the window before it is cut or its verdict is logged.
WindowBounded ==
    \A a \in Agents :
        dbAgents[a] # None =>
            Len(dbAgents[a].window) <= EvaluationWindow + Cardinality(Verdicts)

\* The kill switch, across restarts: the only work a paused agent starts is a
\* task a human approved (approve_task does not look at the switch).
PausedNeedsApproval ==
    [][\A p \in Procs, a \in killed, t \in Tasks :
        active'[p][a][t] > active[p][a][t] =>
            taskLog[t]["TASK_APPROVED_BY_HUMAN"] > 0]_vars

\* Routing picks an agent that assign_task, which checks again, will take.
RoutedIsAdmitted ==
    \A t \in Tasks :
        taskLog[t]["TASK_ROUTED"] > 0 =>
            /\ taskLog[t]["TASK_REJECTED_PAUSED"] = 0
            /\ taskLog[t]["TASK_REJECTED_WIP_LIMIT"] = 0

\* A hold that was announced is not lost: with no call in progress, the task is
\* still waiting in the database or the audit trail has the human's decision.
ApprovalsSurvive ==
    (\A th \in Threads : pc[th] = "idle") =>
        \A t \in Tasks :
            taskLog[t]["TASK_PENDING_APPROVAL"] > 0 =>
                \/ dbPending[t] # None
                \/ taskLog[t]["TASK_APPROVED_BY_HUMAN"] > 0
                \/ taskLog[t]["TASK_REJECTED_BY_HUMAN"] > 0

\* A task that started to execute is brought to an end in the audit trail.
StartedReachesOutcome ==
    \A t \in Tasks :
        taskLog[t]["TASK_EXECUTION_STARTED"] > 0 ~>
            taskLog[t]["TASK_COMPLETED"] + taskLog[t]["TASK_FAILED"] > 0

\* A slot an agent's task takes is given back.
SlotReleased ==
    \A p \in Procs, a \in Agents, t \in Tasks :
        active[p][a][t] > 0 ~> active[p][a][t] = 0
-------------------------------------------------------------------------------
(* What the documentation says of the program and the program does not do.  *)

\* README.md: until an agent has earned trust "its work is capped".
WipCapped ==
    \A p \in Procs, a \in Agents : Wip(p, a) <= WipLimit[a]
===============================================================================

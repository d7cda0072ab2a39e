--------------------------- MODULE LifecycleProofs ----------------------------
(***************************************************************************)
(* The supervisor implements TaskLifecycle, for one process with one       *)
(* thread whose agents are all reachable.                                  *)
(*                                                                         *)
(* With a second thread or process the outcome of a decision can be        *)
(* overwritten, and where an agent is missing an approval can get lost:    *)
(* then the promise is not kept, as the runs decided_twice and             *)
(* agent_missing show.  Processes may die anywhere.                        *)
(***************************************************************************)
EXTENDS SupervisorRefinement, SequentialProofs

USE DEF memory, database, audit, history

\* The events that move a task on.
Milestones == {"TASK_APPROVED_BY_HUMAN", "TASK_REJECTED_BY_HUMAN",
               "TASK_EXECUTION_STARTED", "TASK_COMPLETED", "TASK_FAILED"}

\* The thread passes a milestone in its next step.
Passes(th, e) ==
    \/ e = "TASK_APPROVED_BY_HUMAN" /\ pc[th] = "approved"
    \/ e = "TASK_REJECTED_BY_HUMAN" /\ pc[th] = "rejected"
    \/ e = "TASK_EXECUTION_STARTED" /\ pc[th] \in {"gate", "start"} /\ pc'[th] = "run"
    \/ e = "TASK_COMPLETED" /\ pc[th] = "log_completed"
    \/ e = "TASK_FAILED" /\ pc[th] = "log_failed"

\* A milestone is logged for the task of the call by the step that is for it.
LEMMA MilestoneLogged ==
    ASSUME NEW th \in Threads, TypeOK, Proceed(th), NEW t \in Tasks, NEW e \in Milestones
    PROVE  Logged(t, e)' <=> Logged(t, e) \/ (Passes(th, e) /\ call[th].task = t)
<1>0. e \in TaskEvents /\ DOMAIN pc = Threads /\ taskLog[t][e] \in Nat
  BY DEF Milestones, TaskEvents, TypeOK, ThreadType, AuditType
<1>1. CASE UNCHANGED taskLog /\ ~ Passes(th, e)
  BY <1>1 DEF Logged
<1>2. CASE \E u, f : Log(u, f) /\ f \notin Milestones /\ ~ Passes(th, e)
  BY <1>0, <1>2, LogAt DEF Logged
<1>3. CASE \E f \in Milestones : Log(call[th].task, f) /\ (Passes(th, e) <=> f = e)
  BY <1>0, <1>3, LogAt DEF Logged
<1>4. CASE AssignRouted(th)
  <2>1. ~ Passes(th, e)
    BY <1>4 DEF AssignRouted, Passes
  <2>2. \/ UNCHANGED taskLog
        \/ \E u, f : Log(u, f) /\ f \notin Milestones
    BY <1>4 DEF AssignRouted, Admit, Milestones
  <2> QED BY <1>1, <1>2, <2>1, <2>2
<1>5. CASE PassGate(th) \/ StartApproved(th)
  BY <1>0, <1>3, <1>5 DEF PassGate, StartApproved, Begin, Goto, Passes, Milestones
<1>6. CASE LogApproved(th) \/ LogRejected(th) \/ LogFailed(th) \/ LogCompleted(th)
  BY <1>0, <1>3, <1>6 DEF LogApproved, LogRejected, LogFailed, LogCompleted, Goto, Passes,
       Milestones
<1>7. CASE LogPending(th) \/ LogEscalated(th) \/ LogFeedback(th)
  BY <1>2, <1>7 DEF LogPending, LogEscalated, LogFeedback, Passes, Milestones
<1>8. CASE \E x \in Scores : Score(th, x)
  BY <1>1, <1>8 DEF Score, Passes
<1>9. CASE HoldAtGate(th)
  BY <1>0, <1>1, <1>9 DEF HoldAtGate, Goto, Passes
<1>10. CASE \/ SavePending(th) \/ WorkerReturns(th) \/ WorkerRaises(th) \/ CheckerRaises(th)
            \/ CutWindow(th) \/ Review(th) \/ AdjustAutonomy(th) \/ LogAdjusted(th)
            \/ SnapshotAgent(th) \/ CommitAgent(th) \/ RecordResult(th) \/ LogSwitch(th)
  BY <1>1, <1>10 DEF SavePending, WorkerReturns, WorkerRaises, CheckerRaises, CutWindow,
       Review, AdjustAutonomy, LogAdjusted, SnapshotAgent, CommitAgent, RecordResult,
       LogSwitch, Passes
<1> QED BY <1>4, <1>5, <1>6, <1>7, <1>8, <1>9, <1>10 DEF Proceed

\* A request logs none.
LEMMA RequestLogsNoMilestone ==
    ASSUME NEW th \in Threads, TypeOK, Request(th), NEW t \in Tasks, NEW e \in Milestones
    PROVE  Logged(t, e)' <=> Logged(t, e)
<1>0. e \in TaskEvents
  BY DEF Milestones, TaskEvents
<1>1. CASE UNCHANGED taskLog
  BY <1>1 DEF Logged
<1>2. CASE \E u, f : Log(u, f) /\ f \notin Milestones
  BY <1>0, <1>2, LogAt DEF Logged
<1>3. CASE \/ \E a \in Agents : PauseAgent(th, a) \/ ResumeAgent(th, a)
           \/ \E u \in Tasks : ApproveTask(th, u) \/ RejectTask(th, u)
           \/ \E u \in Tasks, x \in Scores : RecordHumanFeedback(th, u, x)
  BY <1>1, <1>3 DEF PauseAgent, ResumeAgent, ApproveTask, RejectTask, RecordHumanFeedback
<1>4. CASE \/ \E a \in Agents, u \in Tasks : AssignTask(th, a, u)
           \/ \E u \in Tasks : RouteTask(th, u)
  <2>1. \/ UNCHANGED taskLog
        \/ \E u, f : Log(u, f) /\ f \notin Milestones
    <3>1. CASE \E a \in Agents, u \in Tasks : AssignTask(th, a, u)
      BY <3>1 DEF AssignTask, Admit, Milestones
    <3>2. CASE \E u \in Tasks : RouteTask(th, u)
      BY <3>2 DEF RouteTask, Milestones
    <3> QED BY <1>4, <3>1, <3>2
  <2> QED BY <1>1, <1>2, <2>1
<1> QED BY <1>3, <1>4 DEF Request

\* What a call in progress does to the queue and to the sets of tasks.
LEMMA QueueMoves ==
    ASSUME NEW th \in Threads, TypeOK, Proceed(th)
    PROVE  /\ UNCHANGED issued
           /\ gated' = IF pc'[th] = "save_pending" THEN gated \cup {call[th].task} ELSE gated
           /\ dbPending' = IF pc[th] = "save_pending"
                           THEN [dbPending EXCEPT ![call[th].task] = call[th].agent]
                           ELSE dbPending
<1>0. DOMAIN pc = Threads
  BY DEF TypeOK, ThreadType
<1>1. CASE HoldAtGate(th)
  BY <1>0, <1>1 DEF HoldAtGate, Goto
<1>2. CASE SavePending(th)
  BY <1>0, <1>2 DEF SavePending, Goto
<1>3. CASE AssignRouted(th)
  BY <1>0, <1>3 DEF AssignRouted, Admit, Goto, Return
<1>4. CASE \/ PassGate(th) \/ StartApproved(th) \/ LogPending(th) \/ LogApproved(th)
           \/ LogRejected(th) \/ WorkerReturns(th) \/ WorkerRaises(th) \/ LogFailed(th)
           \/ CheckerRaises(th) \/ LogEscalated(th) \/ LogCompleted(th) \/ LogFeedback(th)
  BY <1>0, <1>4 DEF PassGate, StartApproved, Begin, LogPending, LogApproved, LogRejected,
       WorkerReturns, WorkerRaises, LogFailed, CheckerRaises, LogEscalated, LogCompleted,
       LogFeedback, Goto, Return
<1>5. CASE \/ \E x \in Scores : Score(th, x)
           \/ CutWindow(th) \/ Review(th) \/ AdjustAutonomy(th) \/ LogAdjusted(th)
           \/ SnapshotAgent(th) \/ CommitAgent(th) \/ RecordResult(th) \/ LogSwitch(th)
  BY <1>0, <1>5 DEF Score, CutWindow, Review, AdjustAutonomy, LogAdjusted, SnapshotAgent,
       CommitAgent, RecordResult, LogSwitch, Goto, Return
<1> QED BY <1>1, <1>2, <1>3, <1>4, <1>5 DEF Proceed

\* Where a call on a task ends, and what it makes of the status.
LEMMA StatusFlows ==
    ASSUME NEW th \in Threads, TypeOK, Proceed(th), call[th].op = "task"
    PROVE  /\ pc'[th] = "idle" => pc[th] \in {"routed", "score", "record"}
           /\ pc[th] = "run" /\ pc'[th] = "snap" => call'[th].status = "FAILED"
           /\ pc[th] \in {"snap", "commit", "rejected", "log_failed", "review", "adjust",
                          "log_adjusted"} =>
                call'[th].status = call[th].status
           /\ pc[th] = "commit" => pc'[th] = IF call[th].status = "FAILED"
                                             THEN "log_failed" ELSE "record"
           /\ pc[th] = "record" => pc'[th] = "idle"
<1>0. /\ call[th] \in Calls /\ LocalsFit(pc[th], call[th])
      /\ DOMAIN pc = Threads /\ DOMAIN call = Threads
  BY Locals DEF TypeOK, ThreadType
<1>1. CASE \/ AssignRouted(th) \/ PassGate(th) \/ HoldAtGate(th) \/ SavePending(th)
           \/ LogPending(th) \/ LogApproved(th) \/ StartApproved(th)
           \/ \E x \in Scores : Score(th, x)
           \/ CheckerRaises(th) \/ CutWindow(th) \/ LogEscalated(th) \/ LogCompleted(th)
  BY <1>0, <1>1 DEF AssignRouted, Admit, PassGate, HoldAtGate, SavePending, LogPending,
       LogApproved, StartApproved, Begin, Score, CheckerRaises, CutWindow, LogEscalated,
       LogCompleted, Goto, Return
<1>2. CASE LogRejected(th) \/ WorkerReturns(th) \/ WorkerRaises(th) \/ LogFailed(th)
  BY <1>0, <1>2 DEF LogRejected, WorkerReturns, WorkerRaises, LogFailed, Goto, Calls
<1>3. CASE Review(th) \/ AdjustAutonomy(th) \/ SnapshotAgent(th)
  BY <1>0, <1>3 DEF Review, AdjustAutonomy, SnapshotAgent, Goto, Calls
<1>4. CASE CommitAgent(th)
  BY <1>0, <1>4 DEF CommitAgent, Goto, Return, Calls
<1>5. CASE RecordResult(th)
  BY <1>0, <1>5 DEF RecordResult, Goto, Return
<1>6. CASE LogSwitch(th) \/ LogFeedback(th)
  BY <1>0, <1>6 DEF LogSwitch, LogFeedback, LocalsFit
<1>7. CASE LogAdjusted(th)
  BY <1>0, <1>7, AdjustedLocals DEF TypeOK, LogAdjusted
<1> QED BY <1>1, <1>2, <1>3, <1>4, <1>5, <1>6, <1>7 DEF Proceed

\* The steps of a call on a task that goes on, and the statuses they leave.
LEMMA WorkFlows ==
    ASSUME NEW th \in Threads, TypeOK, Proceed(th), call[th].op = "task", Flows(th)
    PROVE  LET step == pc[th]  next == pc'[th]  s == call[th].status  s1 == call'[th].status
           IN  \/ step = "routed" /\ next = "gate"
               \/ step = "gate" /\ next \in {"run", "save_pending"}
               \/ step = "approved" /\ next = "start"
               \/ step = "start" /\ next = "run"
               \/ step = "rejected" /\ next = "record" /\ s1 = "REJECTED"
               \/ step = "run" /\ next = "score"
               \/ step = "run" /\ next = "snap" /\ s1 = "FAILED"
               \/ step = "score" /\ next = "cut"
               \/ step = "cut" /\ next \in {"log_escalated", "log_completed"}
               \/ step = "log_escalated" /\ next = "log_completed"
               \/ step = "log_completed" /\ next = "review"
               \/ step = "review" /\ next \in {"adjust", "snap"} /\ s1 \in {"COMPLETED", "ESCALATED"}
               \/ step = "adjust" /\ next = "log_adjusted" /\ s1 \in {"COMPLETED", "ESCALATED"}
               \/ step = "log_adjusted" /\ next = "snap" /\ s1 \in {"COMPLETED", "ESCALATED"}
               \/ step = "snap" /\ next = "commit" /\ s1 = s
               \/ step = "commit" /\ next = "log_failed" /\ s = "FAILED" /\ s1 = s
               \/ step = "commit" /\ next = "record" /\ s # "FAILED" /\ s1 = s
               \/ step = "log_failed" /\ next = "record" /\ s1 = "FAILED"
<1>0. LocalsFit(pc[th], call[th]) /\ pc[th] \in Steps \ {"idle"}
  BY Locals, StepAt DEF TypeOK, ThreadType
<1>1. pc'[th] \in Steps
  <2>1. TypeOK'
    BY NextType DEF Next
  <2> QED BY <2>1 DEF TypeOK, ThreadType
<1>2. pc[th] \in WorkSteps \cup {"snap", "commit", "record"}
  BY <1>0 DEF LocalsFit, Steps, WorkSteps, HoldSteps
<1>3. CASE pc[th] \in {"routed", "gate", "approved", "start", "score", "cut",
                       "log_escalated", "log_completed"}
  BY <1>1, <1>3 DEF Flows, Steps, WorkSteps, HoldSteps
<1>4. CASE pc[th] \in {"rejected", "run", "review", "adjust", "log_adjusted", "log_failed"}
  BY <1>0, <1>1, <1>4, StatusFlows DEF Flows, LocalsFit, Steps, WorkSteps, HoldSteps
<1>5. CASE pc[th] \in {"snap", "commit", "record"}
  BY <1>1, <1>5, StatusFlows DEF Flows, Steps, WorkSteps, HoldSteps
<1> QED BY <1>2, <1>3, <1>4, <1>5 DEF WorkSteps

-------------------------------------------------------------------------------
(* The stage of a task and the step of the call that works on it.          *)

Untold(t) == \A e \in Milestones : ~ Logged(t, e)
Keeps(th, t) == call[th].op = "held" /\ call[th].task = t

\* The stage of a task that is worked on, or held.
WorkStage(step, status) ==
    CASE step \in {"routed", "gate"} -> "in_hand"
      [] step \in {"approved", "rejected"} -> "deciding"
      [] step = "start" -> "approved"
      [] \/ step \in {"run", "score", "cut", "log_escalated", "log_completed", "log_failed"}
         \/ step \in {"snap", "commit"} /\ status = "FAILED" -> "running"
      [] step = "record" /\ status = "REJECTED" -> "rejected"
      [] OTHER -> "ended"

HoldStage(step) == IF step = "save_pending" THEN "in_hand" ELSE "waiting"

\* A task that is new, waits or is about to wait has passed no milestone, only
\* tasks of the gate wait, and the stage of the task of a call is the one its
\* next step is for.
Followed(th) ==
    LET c == call[th]
    IN  /\ \A t \in Tasks :
            /\ t \notin issued => dbPending[t] = None /\ t \notin gated /\ Untold(t)
            /\ dbPending[t] # None => t \in gated /\ Untold(t)
        /\ c.op = "task" => /\ StageOf(c.task) = WorkStage(pc[th], c.status)
                            /\ pc[th] \in {"snap", "commit"} => c.status # "REJECTED"
        /\ c.op = "held" => /\ StageOf(c.task) = HoldStage(pc[th])
                            /\ c.task \in gated /\ Untold(c.task)

LEMMA WorkStages ==
    \A step, status :
        /\ step \in {"routed", "gate"} => WorkStage(step, status) = "in_hand"
        /\ step \in {"approved", "rejected"} => WorkStage(step, status) = "deciding"
        /\ step = "start" => WorkStage(step, status) = "approved"
        /\ step \in {"run", "score", "cut", "log_escalated", "log_completed", "log_failed"} =>
                WorkStage(step, status) = "running"
        /\ step \in {"review", "adjust", "log_adjusted"} => WorkStage(step, status) = "ended"
        /\ step \in {"snap", "commit"} =>
                WorkStage(step, status) = IF status = "FAILED" THEN "running" ELSE "ended"
        /\ step = "record" =>
                WorkStage(step, status) = IF status = "REJECTED" THEN "rejected" ELSE "ended"
BY DEF WorkStage

\* The thread is the only one that may work on a task or hold one.
LEMMA Hands ==
    ASSUME NEW th, Alone(th), NEW t
    PROVE  /\ Working(t) = {} <=> ~ WorksOn(th, t)
           /\ Holding(t) = {} <=> ~ Keeps(th, t)
           /\ Working(t)' = {} <=> ~ WorksOn(th, t)'
           /\ Holding(t)' = {} <=> ~ Keeps(th, t)'
BY DEF Alone, Working, Holding, WorksOn, Keeps

\* What a stage says, and what it takes to be at it.
LEMMA StageSays ==
    ASSUME NEW th, Alone(th), NEW t
    PROVE  LET over == Logged(t, "TASK_COMPLETED") \/ Logged(t, "TASK_FAILED")
               refused == Logged(t, "TASK_REJECTED_BY_HUMAN")
               started == Logged(t, "TASK_EXECUTION_STARTED")
               approved == Logged(t, "TASK_APPROVED_BY_HUMAN")
               open == t \in issued /\ ~ over /\ ~ refused /\ dbPending[t] = None
               mine == open /\ ~ Keeps(th, t) /\ WorksOn(th, t)
           IN  /\ StageOf(t) = "new" <=> t \notin issued
               /\ StageOf(t) = "ended" <=> t \in issued /\ over
               /\ StageOf(t) = "rejected" <=> t \in issued /\ ~ over /\ refused
               /\ StageOf(t) = "waiting" <=>
                    t \in issued /\ ~ over /\ ~ refused /\ dbPending[t] # None
               /\ StageOf(t) = "dropped" <=> open /\ ~ Keeps(th, t) /\ ~ WorksOn(th, t)
               /\ StageOf(t) = "running" <=> mine /\ started
               /\ StageOf(t) = "approved" <=> mine /\ ~ started /\ approved
               /\ StageOf(t) = "deciding" <=> mine /\ ~ started /\ ~ approved /\ t \in gated
               /\ StageOf(t) = "in_hand" <=>
                    \/ open /\ Keeps(th, t)
                    \/ mine /\ ~ started /\ ~ approved /\ t \notin gated
BY Hands DEF StageOf

\* The same after the step.
LEMMA StageSaysNext ==
    ASSUME NEW th, Alone(th), NEW t
    PROVE  LET over == Logged(t, "TASK_COMPLETED")' \/ Logged(t, "TASK_FAILED")'
               refused == Logged(t, "TASK_REJECTED_BY_HUMAN")'
               started == Logged(t, "TASK_EXECUTION_STARTED")'
               approved == Logged(t, "TASK_APPROVED_BY_HUMAN")'
               open == t \in issued' /\ ~ over /\ ~ refused /\ dbPending'[t] = None
               mine == open /\ ~ Keeps(th, t)' /\ WorksOn(th, t)'
           IN  /\ StageOf(t)' = "new" <=> t \notin issued'
               /\ StageOf(t)' = "ended" <=> t \in issued' /\ over
               /\ StageOf(t)' = "rejected" <=> t \in issued' /\ ~ over /\ refused
               /\ StageOf(t)' = "waiting" <=>
                    t \in issued' /\ ~ over /\ ~ refused /\ dbPending'[t] # None
               /\ StageOf(t)' = "dropped" <=> open /\ ~ Keeps(th, t)' /\ ~ WorksOn(th, t)'
               /\ StageOf(t)' = "running" <=> mine /\ started
               /\ StageOf(t)' = "approved" <=> mine /\ ~ started /\ approved
               /\ StageOf(t)' = "deciding" <=> mine /\ ~ started /\ ~ approved /\ t \in gated'
               /\ StageOf(t)' = "in_hand" <=>
                    \/ open /\ Keeps(th, t)'
                    \/ mine /\ ~ started /\ ~ approved /\ t \notin gated'
BY Hands DEF StageOf

\* A task none of whose circumstances changes stays at its stage.
LEMMA StageKept ==
    ASSUME NEW th, Alone(th), NEW t,
           t \in issued' <=> t \in issued, t \in gated' <=> t \in gated,
           dbPending'[t] = dbPending[t],
           \A e \in Milestones : Logged(t, e)' <=> Logged(t, e),
           WorksOn(th, t)' <=> WorksOn(th, t), Keeps(th, t)' <=> Keeps(th, t)
    PROVE  StageOf(t)' = StageOf(t) /\ (Untold(t)' <=> Untold(t))
BY Hands DEF StageOf, Milestones, Untold

\* The thread has a task in hand.
Has(th, t) == WorksOn(th, t) \/ Keeps(th, t)

\* A call in progress leaves the other tasks alone.
LEMMA ProceedOthers ==
    ASSUME NEW th, Alone(th), TypeOK, Proceed(th), NEW u \in Tasks, ~ Has(th, u)
    PROVE  /\ StageOf(u)' = StageOf(u) /\ (Untold(u)' <=> Untold(u))
           /\ u \in issued' <=> u \in issued
           /\ u \in gated' <=> u \in gated
           /\ dbPending'[u] = dbPending[u] /\ ~ Has(th, u)'
<1> USE DEF Alone
<1>0. LocalsFit(pc[th], call[th])
  BY Locals DEF TypeOK, ThreadType
<1>1. pc[th] \in WorkSteps \cup HoldSteps => call[th].task # u
  BY <1>0 DEF LocalsFit, WorkSteps, HoldSteps, Has, WorksOn, Keeps
<1>2. Flows(th) \/ (pc'[th] = "idle" /\ call'[th] = NoCall)
  BY CallFlows
<1>3. pc'[th] = "save_pending" => pc[th] = "gate"
  BY <1>2 DEF Flows
<1>4. u \in issued' <=> u \in issued
  BY QueueMoves
<1>5. u \in gated' <=> u \in gated
  BY <1>1, <1>3, QueueMoves DEF WorkSteps
<1>6. dbPending'[u] = dbPending[u]
  BY <1>1, QueueMoves DEF HoldSteps, TypeOK, DatabaseType
<1>7. \A e \in Milestones : Logged(u, e)' <=> Logged(u, e)
  BY <1>1, MilestoneLogged DEF Passes, WorkSteps
<1>8. ~ Has(th, u)'
  <2>1. CASE call'[th] = NoCall
    BY <2>1, TaskCallFields DEF Has, WorksOn, Keeps
  <2>2. CASE Flows(th)
    BY <1>1, <1>3, <2>2 DEF Flows, Has, WorksOn, Keeps, WorkSteps
  <2> QED BY <1>2, <2>1, <2>2
<1>9. (WorksOn(th, u)' <=> WorksOn(th, u)) /\ (Keeps(th, u)' <=> Keeps(th, u))
  BY <1>8 DEF Has
<1> QED BY <1>4, <1>5, <1>6, <1>7, <1>8, <1>9, StageKept

\* Where a call in progress takes its task.
LEMMA ProceedStage ==
    ASSUME NEW th, Alone(th), TypeOK, Followed(th), Proceed(th),
           NEW t \in Tasks, Has(th, t)
    PROVE  /\ call'[th].op = "task" =>
                /\ StageOf(t)' = WorkStage(pc'[th], call'[th].status)
                /\ pc'[th] \in {"snap", "commit"} => call'[th].status # "REJECTED"
           /\ call'[th].op = "held" => /\ StageOf(t)' = HoldStage(pc'[th])
                                       /\ t \in gated' /\ Untold(t)'
           /\ ~ Has(th, t)' => StageOf(t)' = IF pc[th] \in {"routed", "score"}
                                             THEN "dropped" ELSE StageOf(t)
<1> USE DEF Alone
<1>0. /\ LocalsFit(pc[th], call[th]) /\ pc[th] \in Steps \ {"idle"} /\ t = call[th].task
      /\ call[th].op \in {"task", "held"} /\ call[th].agent \in Agents
      /\ DOMAIN dbPending = Tasks
      /\ call[th].agent # None
  BY Locals, StepAt, RosterAssumption DEF TypeOK, ThreadType, DatabaseType, LocalsFit, Has, WorksOn, Keeps
<1>1. Flows(th) \/ (pc'[th] = "idle" /\ call'[th] = NoCall)
  BY CallFlows
<1>2. \A e \in Milestones : Logged(t, e)' <=> Logged(t, e) \/ Passes(th, e)
  BY <1>0, MilestoneLogged
<1> DEFINE C == Logged(t, "TASK_COMPLETED")
           F == Logged(t, "TASK_FAILED")
           R == Logged(t, "TASK_REJECTED_BY_HUMAN")
           S == Logged(t, "TASK_EXECUTION_STARTED")
           A == Logged(t, "TASK_APPROVED_BY_HUMAN")
<1>3. /\ C' <=> C \/ pc[th] = "log_completed"
      /\ F' <=> F \/ pc[th] = "log_failed"
      /\ R' <=> R \/ pc[th] = "rejected"
      /\ S' <=> S \/ (pc[th] \in {"gate", "start"} /\ pc'[th] = "run")
      /\ A' <=> A \/ pc[th] = "approved"
  BY <1>2 DEF Milestones, Passes
<1>4. Untold(t) <=> ~ C /\ ~ F /\ ~ R /\ ~ S /\ ~ A
  BY DEF Untold, Milestones
<1>5. Untold(t)' <=> ~ C' /\ ~ F' /\ ~ R' /\ ~ S' /\ ~ A'
  BY DEF Untold, Milestones
<1>6. t \in issued' <=> t \in issued
  BY QueueMoves
<1>7. t \in gated' <=> t \in gated \/ pc'[th] = "save_pending"
  BY <1>0, QueueMoves
<1>8. dbPending'[t] = IF pc[th] = "save_pending" THEN call[th].agent ELSE dbPending[t]
  BY <1>0, QueueMoves
<1>9. ~ Has(th, t)' <=> call'[th] = NoCall
  BY <1>0, <1>1, TaskCallFields DEF Flows, Has, WorksOn, Keeps
<1>10. call'[th] # NoCall => /\ Flows(th) /\ call'[th].task = t
                             /\ call'[th].op = "held" <=> \/ pc'[th] = "save_pending"
                                                          \/ call[th].op = "held"
  BY <1>0, <1>1 DEF Flows
<1>11. CASE call[th].op = "held"
  <2>1. pc[th] \in {"save_pending", "log_pending", "record"}
    BY <1>0, <1>11 DEF LocalsFit, Steps, WorkSteps, HoldSteps
  <2>2. /\ StageOf(t) = HoldStage(pc[th]) /\ t \in gated /\ Untold(t)
        /\ Keeps(th, t) /\ ~ WorksOn(th, t)
    BY <1>0, <1>11 DEF Followed, Keeps, WorksOn
  <2>3. CASE pc[th] \in {"save_pending", "log_pending"}
    <3>1. /\ UNCHANGED call
          /\ pc'[th] = IF pc[th] = "save_pending" THEN "log_pending" ELSE "record"
      BY <2>3, StepAt DEF SavePending, LogPending, Goto, TypeOK, ThreadType
    <3>2. Keeps(th, t)' /\ ~ WorksOn(th, t)'
      BY <2>2, <3>1 DEF Keeps, WorksOn
    <3> QED BY <1>0, <1>3, <1>4, <1>5, <1>6, <1>7, <1>8, <1>11, <2>2, <2>3, <3>1, <3>2,
               StageSays, StageSaysNext DEF HoldStage, Has
  <2>4. CASE pc[th] = "record"
    <3>1. call'[th] = NoCall
      BY <1>11, <2>4, StepAt, ResultStored
    <3>2. ~ Keeps(th, t)' /\ ~ WorksOn(th, t)' /\ call'[th].op = "none"
      BY <3>1, TaskCallFields DEF Keeps, WorksOn
    <3>3. pc'[th] # "save_pending"
      BY <1>1, <2>4 DEF Flows
    <3> QED BY <1>3, <1>6, <1>7, <1>8, <2>2, <2>4, <3>2, <3>3, StageSays, StageSaysNext
               DEF HoldStage
  <2> QED BY <2>1, <2>3, <2>4
<1>12. CASE call[th].op = "task"
  <2>1. pc[th] \in WorkSteps \cup {"snap", "commit", "record"}
    BY <1>0, <1>12 DEF LocalsFit, Steps, WorkSteps, HoldSteps
  <2>2. /\ StageOf(t) = WorkStage(pc[th], call[th].status) /\ WorksOn(th, t) /\ ~ Keeps(th, t)
        /\ pc[th] \in {"snap", "commit"} => call[th].status # "REJECTED"
    BY <1>0, <1>12 DEF Followed, WorksOn, Keeps
  <2>3. dbPending'[t] = dbPending[t]
    BY <1>8, <2>1 DEF WorkSteps
  <2>4. ASSUME call'[th] = NoCall
        PROVE  StageOf(t)' = IF pc[th] \in {"routed", "score"} THEN "dropped" ELSE StageOf(t)
    <3>1. pc'[th] = "idle"
      BY <1>1, <1>9, <1>12, <2>4, TaskCallFields DEF Flows
    <3>2. pc[th] \in {"routed", "score", "record"}
      BY <1>12, <3>1, StatusFlows
    <3>3. ~ Keeps(th, t)' /\ ~ WorksOn(th, t)'
      BY <2>4, TaskCallFields DEF Keeps, WorksOn
    <3> QED BY <1>3, <1>6, <1>7, <2>2, <2>3, <3>1, <3>2, <3>3, StageSays, StageSaysNext,
               WorkStages
  <2>5. ASSUME call'[th] # NoCall, pc'[th] = "save_pending"
        PROVE  StageOf(t)' = "in_hand" /\ t \in gated' /\ Untold(t)'
    <3>1. pc[th] = "gate" /\ Keeps(th, t)' /\ ~ WorksOn(th, t)'
      BY <1>10, <2>5 DEF Flows, Keeps, WorksOn
    <3>2. StageOf(t) = "in_hand"
      BY <2>2, <3>1, WorkStages
    <3>3. ~ C /\ ~ F /\ ~ R /\ ~ S /\ ~ A /\ t \in issued /\ dbPending[t] = None
      BY <2>2, <3>2, StageSays
    <3> QED BY <1>3, <1>5, <1>6, <1>7, <2>3, <2>5, <3>1, <3>3, StageSaysNext
  <2>6. ASSUME call'[th] # NoCall, pc'[th] # "save_pending"
        PROVE  /\ StageOf(t)' = WorkStage(pc'[th], call'[th].status)
               /\ pc'[th] \in {"snap", "commit"} => call'[th].status # "REJECTED"
    <3>0. /\ ~ Keeps(th, t)' /\ WorksOn(th, t)' /\ Flows(th)
          /\ t \in gated' <=> t \in gated
      BY <1>7, <1>10, <1>12, <2>6 DEF Keeps, WorksOn, Flows
    <3>1. CASE pc[th] \in {"routed", "gate", "approved", "start", "rejected"}
      <4>1. \/ pc[th] = "routed" /\ pc'[th] = "gate"
            \/ pc[th] \in {"gate", "start"} /\ pc'[th] = "run"
            \/ pc[th] = "approved" /\ pc'[th] = "start"
            \/ pc[th] = "rejected" /\ pc'[th] = "record" /\ call'[th].status = "REJECTED"
        BY <1>12, <2>6, <3>0, <3>1, WorkFlows
      <4> QED BY <1>3, <1>6, <2>2, <2>3, <3>0, <4>1, StageSays, StageSaysNext, WorkStages
    <3>2. CASE pc[th] \in {"run", "score", "cut", "log_escalated", "log_completed",
                           "log_failed"}
      <4>1. \/ /\ pc[th] \in {"run", "score", "cut", "log_escalated"}
               /\ pc'[th] \in {"score", "cut", "log_escalated", "log_completed"}
            \/ pc[th] = "run" /\ pc'[th] = "snap" /\ call'[th].status = "FAILED"
            \/ pc[th] = "log_completed" /\ pc'[th] = "review"
            \/ pc[th] = "log_failed" /\ pc'[th] = "record" /\ call'[th].status = "FAILED"
        BY <1>12, <3>0, <3>2, WorkFlows
      <4> QED BY <1>3, <1>6, <2>2, <2>3, <3>0, <4>1, StageSays, StageSaysNext, WorkStages
    <3>3. CASE pc[th] \in {"review", "adjust", "log_adjusted", "snap", "commit", "record"}
      <4>1. \/ /\ pc[th] \in {"review", "adjust", "log_adjusted"}
               /\ pc'[th] \in {"adjust", "log_adjusted", "snap"}
               /\ call'[th].status \in {"COMPLETED", "ESCALATED"}
            \/ /\ pc[th] \in {"snap", "commit"} /\ call'[th].status = call[th].status
               /\ \/ pc'[th] = "commit"
                  \/ pc'[th] = IF call[th].status = "FAILED" THEN "log_failed" ELSE "record"
        BY <1>12, <3>0, <3>3, WorkFlows
      <4> QED BY <1>3, <1>6, <2>2, <2>3, <3>0, <4>1, StageSays, StageSaysNext, WorkStages
    <3> QED BY <2>1, <3>1, <3>2, <3>3 DEF WorkSteps
  <2> QED BY <1>9, <1>10, <1>12, <2>4, <2>5, <2>6, TaskCallFields DEF HoldStage
<1> QED BY <1>0, <1>11, <1>12

-------------------------------------------------------------------------------
(* The requests.                                                           *)

\* Every agent is registered while the process runs.
Staffed(th) == up[ProcOf[th]] => registered[ProcOf[th]] = Agents

\* A task the request is not about stays where it is.
LEMMA RequestOthers ==
    ASSUME NEW th, Alone(th), TypeOK, Request(th), NEW u \in Tasks, ~ Has(th, u)',
           u \in issued' <=> u \in issued, dbPending'[u] = dbPending[u]
    PROVE  StageOf(u)' = StageOf(u) /\ (Untold(u)' <=> Untold(u)) /\ ~ Has(th, u)
<1> USE DEF Alone
<1>1. pc[th] = "idle" /\ UNCHANGED gated
  BY DEF Request, PauseAgent, ResumeAgent, AssignTask, RouteTask, ApproveTask, RejectTask,
         TakePending, RecordHumanFeedback, Idle
<1>2. ~ Has(th, u)
  BY <1>1, Locals, TaskCallFields DEF TypeOK, ThreadType, LocalsFit, Has, WorksOn, Keeps
<1>3. \A e \in Milestones : Logged(u, e)' <=> Logged(u, e)
  BY RequestLogsNoMilestone
<1> QED BY <1>1, <1>2, <1>3, StageKept DEF Has

\* The switch and the verdicts are about no task's stage.
LEMMA QuietRequests ==
    ASSUME NEW th, Alone(th), TypeOK, Followed(th),
           \/ \E a \in Agents : PauseAgent(th, a) \/ ResumeAgent(th, a)
           \/ \E t \in Tasks, x \in Scores : RecordHumanFeedback(th, t, x)
    PROVE  /\ Followed(th)' /\ UNCHANGED gated
           /\ \A u \in Tasks : StageOf(u)' = StageOf(u)
<1> USE DEF Alone
<1>1. UNCHANGED <<issued, gated, dbPending>> /\ Request(th)
  BY DEF PauseAgent, ResumeAgent, RecordHumanFeedback, Request
<1>2. call'[th].op \in {"pause", "resume", "feedback"}
  BY SwitchCall, FeedbackCall
<1>3. \A u \in Tasks : StageOf(u)' = StageOf(u) /\ (Untold(u)' <=> Untold(u))
  BY <1>1, <1>2, RequestOthers DEF Has, WorksOn, Keeps
<1> QED BY <1>1, <1>2, <1>3 DEF Followed

\* A task that is submitted is taken in hand, or refused.
LEMMA SubmitStage ==
    ASSUME NEW th, Alone(th), TypeOK, Followed(th), NEW t \in Tasks,
           RouteTask(th, t) \/ \E a \in Agents : AssignTask(th, a, t)
    PROVE  /\ Followed(th)' /\ UNCHANGED gated
           /\ \A u \in Tasks : u # t => StageOf(u)' = StageOf(u)
           /\ StageOf(t) = "new" /\ StageOf(t)' \in {"in_hand", "dropped"}
<1> USE DEF Alone
<1>1. /\ Request(th) /\ pc[th] = "idle" /\ UNCHANGED <<gated, dbPending>>
      /\ t \notin issued /\ issued' = issued \cup {t}
  BY DEF Request, RouteTask, AssignTask, Idle
<1>2. \/ call'[th] = NoCall
      \/ pc'[th] \in {"routed", "gate"} /\ \E a : call'[th] = TaskCall(a, t)
  <2>1. call[th] = NoCall
    BY <1>1, Locals DEF LocalsFit, TypeOK, ThreadType
  <2>2. CASE RouteTask(th, t)
    BY <2>1, <2>2 DEF RouteTask, Goto, TypeOK, ThreadType
  <2>3. CASE \E a \in Agents : AssignTask(th, a, t)
    BY <2>3 DEF AssignTask, Admit, Return, Goto, TypeOK, ThreadType
  <2> QED BY <2>2, <2>3
<1>3. /\ call'[th].op \in {"none", "task"}
      /\ call'[th].op = "task" => call'[th].task = t /\ pc'[th] \in {"routed", "gate"}
  BY <1>2, TaskCallFields
<1>4. ASSUME NEW u \in Tasks, u # t
      PROVE  StageOf(u)' = StageOf(u) /\ (Untold(u)' <=> Untold(u))
  BY <1>1, <1>3, <1>4, RequestOthers DEF Has, WorksOn, Keeps
<1>5. dbPending[t] = None /\ t \notin gated /\ Untold(t) /\ Untold(t)'
  BY <1>1, RequestLogsNoMilestone DEF Followed, Untold
<1>6. /\ StageOf(t) = "new"
      /\ StageOf(t)' = IF call'[th].op = "task" THEN "in_hand" ELSE "dropped"
  <2>1. ~ Keeps(th, t)' /\ (WorksOn(th, t)' <=> call'[th].op = "task")
    BY <1>3 DEF Keeps, WorksOn
  <2> QED BY <1>1, <1>5, <2>1, StageSays, StageSaysNext DEF Untold, Milestones
<1>7. Followed(th)'
  BY <1>1, <1>3, <1>4, <1>5, <1>6, WorkStages DEF Followed
<1> QED BY <1>1, <1>4, <1>6, <1>7

\* A task that is decided on waited until then.
LEMMA DecideStage ==
    ASSUME NEW th, Alone(th), TypeOK, InSync(th), Staffed(th), Followed(th), NEW t \in Tasks,
           ApproveTask(th, t) \/ RejectTask(th, t)
    PROVE  /\ Followed(th)' /\ UNCHANGED gated
           /\ \A u \in Tasks : u # t => StageOf(u)' = StageOf(u)
           /\ StageOf(t) = "waiting" /\ StageOf(t)' = "deciding"
<1> USE DEF Alone
<1> DEFINE p == ProcOf[th]
<1>1. /\ Request(th) /\ pc[th] = "idle" /\ up[p] /\ UNCHANGED <<gated, issued>>
      /\ pending[p][t] # None /\ dbPending' = [dbPending EXCEPT ![t] = None]
  BY DEF Request, ApproveTask, RejectTask, TakePending, Idle
<1>2. dbPending[t] # None /\ pending[p][t] \in Agents
  BY <1>1, Home DEF InSync, TypeOK, MemoryType
<1>3. /\ call'[th].op = "task" /\ call'[th].task = t /\ pc'[th] \in {"approved", "rejected"}
  BY <1>1, <1>2, DecisionCall, TaskCallFields DEF Staffed, ApproveTask, RejectTask, Goto, TypeOK, ThreadType
<1>4. \A u \in Tasks : dbPending'[u] = IF u = t THEN None ELSE dbPending[u]
  BY <1>1 DEF TypeOK, DatabaseType
<1>5. ASSUME NEW u \in Tasks, u # t
      PROVE  StageOf(u)' = StageOf(u) /\ (Untold(u)' <=> Untold(u))
  BY <1>1, <1>3, <1>4, <1>5, RequestOthers DEF Has, WorksOn, Keeps
<1>6. t \in gated /\ t \in issued /\ Untold(t) /\ Untold(t)'
  BY <1>1, <1>2, RequestLogsNoMilestone DEF Followed, Untold
<1>7. StageOf(t) = "waiting" /\ StageOf(t)' = "deciding"
  <2>1. ~ Keeps(th, t)' /\ WorksOn(th, t)'
    BY <1>3 DEF Keeps, WorksOn
  <2> QED BY <1>1, <1>2, <1>4, <1>6, <2>1, StageSays, StageSaysNext DEF Untold, Milestones
<1>8. Followed(th)'
  BY <1>1, <1>3, <1>4, <1>5, <1>6, <1>7, WorkStages DEF Followed
<1> QED BY <1>1, <1>5, <1>7, <1>8

-------------------------------------------------------------------------------
(* The start and the death of the process.                                 *)

\* What the death of the process makes of a task in hand.
Lost(stage) ==
    IF stage \in {"in_hand", "deciding", "approved", "running"} THEN "dropped" ELSE stage

\* A start changes no stage; a death drops the task in hand, unless it waits, or
\* what happened to it is in the trail.
LEMMA ProcessStage ==
    ASSUME NEW th, Alone(th), TypeOK, Followed(th),
           \E p \in Procs : StartProcess(p) \/ EndProcess(p)
    PROVE  /\ Followed(th)' /\ UNCHANGED gated
           /\ \A u \in Tasks : StageOf(u)' = IF Has(th, u) /\ ~ Has(th, u)'
                                            THEN Lost(StageOf(u)) ELSE StageOf(u)
<1> USE DEF Alone
<1>1. /\ UNCHANGED <<taskLog, issued, gated, dbPending>>
      /\ \/ UNCHANGED <<pc, call>>
         \/ pc'[th] = "idle" /\ call'[th] = NoCall
  BY DEF StartProcess, EndProcess
<1>2. \A u, e : Logged(u, e)' <=> Logged(u, e)
  BY <1>1 DEF Logged
<1>3. \A u : Untold(u)' <=> Untold(u)
  BY <1>2 DEF Untold
<1>4. CASE UNCHANGED <<pc, call>>
  <2>1. \A u : /\ WorksOn(th, u)' <=> WorksOn(th, u)
               /\ Keeps(th, u)' <=> Keeps(th, u)
    BY <1>4 DEF WorksOn, Keeps
  <2>2. \A u : StageOf(u)' = StageOf(u)
    BY <1>1, <1>2, <2>1, StageKept
  <2>3. Followed(th)'
    <3>1. CASE call[th].op \in {"task", "held"}
      <4>1. PICK t : t = call[th].task /\ t = call'[th].task
        BY <1>4
      <4> QED BY <1>1, <1>3, <1>4, <2>2, <4>1 DEF Followed
    <3>2. CASE call[th].op \notin {"task", "held"}
      BY <1>1, <1>3, <1>4, <3>2 DEF Followed
    <3> QED BY <3>1, <3>2
  <2> QED BY <1>1, <2>1, <2>2, <2>3 DEF Has
<1>5. CASE pc'[th] = "idle" /\ call'[th] = NoCall
  <2>1. \A u : ~ WorksOn(th, u)' /\ ~ Keeps(th, u)'
    BY <1>5, TaskCallFields DEF WorksOn, Keeps
  <2>2. ASSUME NEW u \in Tasks, Has(th, u) PROVE StageOf(u)' = Lost(StageOf(u))
    <3>1. \/ Keeps(th, u) /\ ~ WorksOn(th, u)
          \/ ~ Keeps(th, u) /\ WorksOn(th, u)
      BY <2>2 DEF Has, Keeps, WorksOn
    <3> QED BY <1>1, <1>2, <2>1, <3>1, StageSays, StageSaysNext DEF Lost
  <2>3. ASSUME NEW u \in Tasks, ~ Has(th, u) PROVE StageOf(u)' = StageOf(u)
    BY <1>1, <1>2, <2>1, <2>3, StageKept DEF Has
  <2>4. Followed(th)'
    BY <1>1, <1>3, <1>5, TaskCallFields DEF Followed
  <2> QED BY <1>1, <2>1, <2>2, <2>3, <2>4 DEF Has
<1> QED BY <1>1, <1>4, <1>5

\* The process always has all its agents where all of them can be reached.
LEMMA StaffedNext ==
    ASSUME NEW th, Alone(th), "unreachable" \notin Faults
    PROVE  TypeOK /\ Staffed(th) /\ [Next]_vars => Staffed(th)'
<1> USE DEF Alone
<1> SUFFICES ASSUME TypeOK, Staffed(th), [Next]_vars PROVE Staffed(th)'
  OBVIOUS
<1>1. ASSUME NEW p \in Procs, StartProcess(p) PROVE Staffed(th)'
  BY <1>1 DEF StartProcess, Staffed, TypeOK, MemoryType
<1>2. ASSUME NEW p \in Procs, EndProcess(p) PROVE Staffed(th)'
  BY <1>2 DEF EndProcess, Staffed, TypeOK, MemoryType
<1>3. CASE UNCHANGED vars
  BY <1>3 DEF vars, Staffed
<1>4. CASE Request(th)
  BY <1>4 DEF Request, PauseAgent, ResumeAgent, AssignTask, RouteTask, ApproveTask,
       RejectTask, RecordHumanFeedback, Staffed
<1>5. CASE Proceed(th)
  BY <1>5 DEF Proceed, AssignRouted, PassGate, HoldAtGate, SavePending, LogPending,
       LogApproved, StartApproved, LogRejected, WorkerReturns, WorkerRaises, LogFailed,
       Score, CheckerRaises, CutWindow, LogEscalated, LogCompleted, Review, AdjustAutonomy,
       LogAdjusted, LogFeedback, SnapshotAgent, CommitAgent, RecordResult, LogSwitch, Staffed
<1> QED BY <1>1, <1>2, <1>3, <1>4, <1>5 DEF Next

\* The stages follow the calls.
LEMMA FollowedNext ==
    ASSUME NEW th, Alone(th)
    PROVE  TypeOK /\ InSync(th) /\ Staffed(th) /\ Followed(th) /\ [Next]_vars => Followed(th)'
<1> USE DEF Alone
<1> SUFFICES ASSUME TypeOK, InSync(th), Staffed(th), Followed(th), [Next]_vars
             PROVE  Followed(th)'
  OBVIOUS
<1>1. CASE UNCHANGED vars
  <2>1. \A t : StageOf(t)' = StageOf(t) /\ (Untold(t)' <=> Untold(t))
    BY <1>1, StageKept DEF vars, Logged, WorksOn, Keeps
  <2> QED BY <1>1, <2>1 DEF vars, Followed
<1>2. CASE \E p \in Procs : StartProcess(p) \/ EndProcess(p)
  BY <1>2, ProcessStage
<1>3. CASE Request(th)
  BY <1>3, QuietRequests, SubmitStage, DecideStage DEF Request
<1>4. CASE Proceed(th)
  <2>1. Flows(th) \/ (pc'[th] = "idle" /\ call'[th] = NoCall)
    BY <1>4, CallFlows
  <2>2. /\ LocalsFit(pc[th], call[th])
        /\ call[th].op \in {"task", "held"} => call[th].task \in Tasks
    BY Locals DEF TypeOK, ThreadType, LocalsFit
  <2>3. ASSUME NEW t \in Tasks
        PROVE  /\ t \notin issued' => dbPending'[t] = None /\ t \notin gated' /\ Untold(t)'
               /\ dbPending'[t] # None => t \in gated' /\ Untold(t)'
    <3>1. CASE ~ Has(th, t)
      BY <1>4, <3>1, ProceedOthers DEF Followed
    <3>2. CASE Has(th, t)
      <4>1. /\ \A e \in Milestones : Logged(t, e)' <=> Logged(t, e) \/ Passes(th, e)
            /\ t = call[th].task
        BY <1>4, <3>2, MilestoneLogged DEF Has, WorksOn, Keeps
      <4>2. t \in issued' /\ t \in issued
        <5>1. StageOf(t) # "new"
          BY <3>2 DEF Has, WorksOn, Keeps, Followed, WorkStage, HoldStage
        <5> QED BY <1>4, <5>1, QueueMoves, StageSays
      <4>3. CASE WorksOn(th, t)
        <5>1. StageOf(t) # "waiting"
          BY <4>3 DEF WorksOn, Followed, WorkStage
        <5>2. dbPending[t] = None
          BY <4>2, <5>1, StageSays DEF Followed, Untold, Milestones
        <5>3. pc[th] # "save_pending"
          BY <2>2, <4>3 DEF WorksOn, LocalsFit, HoldSteps
        <5> QED BY <1>4, <4>2, <5>2, <5>3, QueueMoves
      <4>4. CASE Keeps(th, t)
        <5>1. t \in gated /\ Untold(t) /\ \A e : ~ Passes(th, e)
          BY <2>2, <4>4 DEF Keeps, Followed, LocalsFit, WorkSteps, Passes
        <5> QED BY <1>4, <4>1, <4>2, <5>1, QueueMoves DEF Untold
      <4> QED BY <3>2, <4>3, <4>4 DEF Has
    <3> QED BY <3>1, <3>2
  <2>4. call'[th].op \in {"task", "held"} => /\ call'[th].task = call[th].task
                                             /\ Has(th, call[th].task)
    <3>1. pc'[th] = "save_pending" => call[th].op = "task" \/ call'[th] = NoCall
      BY <2>1, <2>2 DEF Flows, LocalsFit, WorkSteps
    <3> QED BY <2>1, <3>1, TaskCallFields DEF Flows, Has, WorksOn, Keeps
  <2>5. CASE call'[th].op \in {"task", "held"}
    <3>1. PICK t \in Tasks : t = call[th].task /\ t = call'[th].task
      BY <2>2, <2>4, <2>5 DEF Has, WorksOn, Keeps
    <3> QED BY <1>4, <2>3, <2>4, <2>5, <3>1, ProceedStage DEF Followed
  <2>6. CASE call'[th].op \notin {"task", "held"}
    BY <2>3, <2>6 DEF Followed
  <2> QED BY <2>5, <2>6
<1> QED BY <1>1, <1>2, <1>3, <1>4 DEF Next

-------------------------------------------------------------------------------
(* The steps of the life of a task.                                        *)

\* What a step may do to the stage of one task.
MayMove(from, to) ==
    \/ from = "new" /\ to \in {"in_hand", "dropped"}
    \/ from = "in_hand" /\ to = "dropped"
    \/ from = "waiting" /\ to = "deciding"
    \/ from = "deciding" /\ to \in {"approved", "rejected", "dropped"}
    \/ from = "approved" /\ to \in {"running", "dropped"}
    \/ from = "running" /\ to \in {"ended", "dropped"}

\* A step that moves one task on, and records nothing, is one of its life.
LEMMA MoveImplemented ==
    ASSUME NEW t \in Tasks, NEW from, NEW to, StageOf(t) = from, StageOf(t)' = to,
           \A u \in Tasks : u # t => StageOf(u)' = StageOf(u), UNCHANGED <<gated, dbResults>>,
           \/ MayMove(from, to)
           \/ from = "in_hand" /\ to = "waiting" /\ t \in gated
           \/ from = "in_hand" /\ to = "running" /\ t \notin gated
    PROVE  Lifecycle!Next
<1>1. [u \in Tasks |-> StageOf(u)]' = [[u \in Tasks |-> StageOf(u)] EXCEPT ![t] = to]
  OBVIOUS
<1>2. [u \in Tasks |-> RecordedOutcome(u)]' = [u \in Tasks |-> RecordedOutcome(u)]
  BY DEF RecordedOutcome
<1>3. Lifecycle!Move(t, from, to)
  BY <1>1, <1>2 DEF Lifecycle!Move
<1> QED BY <1>3 DEF MayMove, Lifecycle!Next, Lifecycle!Submit, Lifecycle!Wait,
       Lifecycle!Decide, Lifecycle!Approve, Lifecycle!Reject, Lifecycle!Start,
       Lifecycle!End, Lifecycle!Drop

\* A step that moves no task and records nothing is none.
LEMMA StutterImplemented ==
    ASSUME \A u \in Tasks : StageOf(u)' = StageOf(u), UNCHANGED gated,
           \A u \in Tasks : RecordedOutcome(u)' = RecordedOutcome(u)
    PROVE  UNCHANGED Lifecycle!vars
<1>1. [u \in Tasks |-> StageOf(u)]' = [u \in Tasks |-> StageOf(u)]
  OBVIOUS
<1>2. [u \in Tasks |-> RecordedOutcome(u)]' = [u \in Tasks |-> RecordedOutcome(u)]
  OBVIOUS
<1> QED BY <1>1, <1>2 DEF Lifecycle!vars

\* The gate holds a task back.
LEMMA GateImplemented ==
    ASSUME NEW t \in Tasks, \A u \in Tasks : StageOf(u)' = StageOf(u),
           StageOf(t) = "in_hand", gated' = gated \cup {t}, UNCHANGED dbResults
    PROVE  Lifecycle!Next
<1>1. [u \in Tasks |-> StageOf(u)]' = [u \in Tasks |-> StageOf(u)]
  OBVIOUS
<1>2. [u \in Tasks |-> RecordedOutcome(u)]' = [u \in Tasks |-> RecordedOutcome(u)]
  BY DEF RecordedOutcome
<1>3. Lifecycle!Gate(t)
  BY <1>1, <1>2 DEF Lifecycle!Gate
<1> QED BY <1>3 DEF Lifecycle!Next

\* What is recorded is what happened.
LEMMA RecordImplemented ==
    ASSUME NEW t \in Tasks, \A u \in Tasks : StageOf(u)' = StageOf(u), UNCHANGED gated,
           \A u \in Tasks : u # t => dbResults'[u] = dbResults[u],
           dbResults'[t] # None,
           RecordedOutcome(t) \notin {"REJECTED", "COMPLETED", "ESCALATED", "FAILED"},
           \/ StageOf(t) = "waiting" /\ dbResults'[t].status = "PENDING_APPROVAL"
           \/ StageOf(t) = "rejected" /\ dbResults'[t].status = "REJECTED"
           \/ /\ StageOf(t) = "ended"
              /\ dbResults'[t].status \in {"COMPLETED", "ESCALATED", "FAILED"}
    PROVE  Lifecycle!Next
<1> DEFINE o == dbResults'[t].status
<1>1. [u \in Tasks |-> StageOf(u)]' = [u \in Tasks |-> StageOf(u)]
  OBVIOUS
<1>2. [u \in Tasks |-> RecordedOutcome(u)]' = [[u \in Tasks |-> RecordedOutcome(u)] EXCEPT ![t] = o]
  BY DEF RecordedOutcome
<1>3. /\ StageOf(t) \in DOMAIN Lifecycle!Recordable
      /\ o \in Lifecycle!Recordable[StageOf(t)]
  BY DEF Lifecycle!Recordable
<1> HIDE DEF o
<1>4. Lifecycle!Record(t)
  BY <1>1, <1>2, <1>3 DEF Lifecycle!Record, Lifecycle!Final
<1> QED BY <1>4 DEF Lifecycle!Next

\* The requests are steps of a life, or none.
LEMMA RequestImplemented ==
    ASSUME NEW th, Alone(th), TypeOK, InSync(th), Staffed(th), Followed(th), Request(th)
    PROVE  [Lifecycle!Next]_(Lifecycle!vars)
<1> USE DEF Alone
<1>1. UNCHANGED dbResults
  BY DEF Request, PauseAgent, ResumeAgent, AssignTask, RouteTask, ApproveTask, RejectTask,
         RecordHumanFeedback
<1>2. CASE \/ \E a \in Agents : PauseAgent(th, a) \/ ResumeAgent(th, a)
           \/ \E t \in Tasks, x \in Scores : RecordHumanFeedback(th, t, x)
  <2>1. UNCHANGED gated /\ \A u \in Tasks : StageOf(u)' = StageOf(u)
    BY <1>2, QuietRequests
  <2>2. \A u \in Tasks : RecordedOutcome(u)' = RecordedOutcome(u)
    BY <1>1 DEF RecordedOutcome
  <2> QED BY <2>1, <2>2, StutterImplemented
<1>3. ASSUME NEW t \in Tasks, RouteTask(th, t) \/ \E a \in Agents : AssignTask(th, a, t)
      PROVE  Lifecycle!Next
  BY <1>1, <1>3, SubmitStage, MoveImplemented DEF MayMove
<1>4. ASSUME NEW t \in Tasks, ApproveTask(th, t) \/ RejectTask(th, t)
      PROVE  Lifecycle!Next
  BY <1>1, <1>4, DecideStage, MoveImplemented DEF MayMove
<1> QED BY <1>2, <1>3, <1>4 DEF Request

\* So are the start and the death of the process.
LEMMA ProcessImplemented ==
    ASSUME NEW th, Alone(th), TypeOK, Followed(th),
           \E p \in Procs : StartProcess(p) \/ EndProcess(p)
    PROVE  [Lifecycle!Next]_(Lifecycle!vars)
<1> USE DEF Alone
<1>1. UNCHANGED <<dbResults, gated>> /\ \A u \in Tasks : RecordedOutcome(u)' = RecordedOutcome(u)
  BY DEF StartProcess, EndProcess, RecordedOutcome
<1>2. \A u \in Tasks : StageOf(u)' = IF Has(th, u) /\ ~ Has(th, u)'
                                    THEN Lost(StageOf(u)) ELSE StageOf(u)
  BY ProcessStage
<1>3. CASE \A u \in Tasks : StageOf(u)' = StageOf(u)
  BY <1>1, <1>3, StutterImplemented
<1>4. ASSUME NEW t \in Tasks, StageOf(t)' # StageOf(t) PROVE Lifecycle!Next
  <2>1. /\ Has(th, t) /\ StageOf(t)' = Lost(StageOf(t))
        /\ \A u \in Tasks : u # t => ~ Has(th, u)
    BY <1>2, <1>4 DEF Has, WorksOn, Keeps
  <2>2. MayMove(StageOf(t), StageOf(t)')
    BY <1>4, <2>1 DEF Lost, MayMove
  <2> QED BY <1>1, <1>2, <2>1, <2>2, MoveImplemented
<1> QED BY <1>3, <1>4

\* A step that stores no result, of a call that has a task in hand.
LEMMA WorkImplemented ==
    ASSUME NEW th, Alone(th), TypeOK, Followed(th), Proceed(th), UNCHANGED dbResults,
           NEW t \in Tasks, Has(th, t)
    PROVE  [Lifecycle!Next]_(Lifecycle!vars)
<1> USE DEF Alone
<1>0. /\ LocalsFit(pc[th], call[th]) /\ pc[th] \in Steps \ {"idle"} /\ t = call[th].task
      /\ call[th].op \in {"task", "held"}
  BY Locals, StepAt DEF TypeOK, ThreadType, Has, WorksOn, Keeps
<1>1. \A u \in Tasks : RecordedOutcome(u)' = RecordedOutcome(u)
  BY DEF RecordedOutcome
<1>2. \A u \in Tasks : u # t => StageOf(u)' = StageOf(u)
  BY <1>0, ProceedOthers DEF Has, WorksOn, Keeps
<1>3. Flows(th) \/ (pc'[th] = "idle" /\ call'[th] = NoCall)
  BY CallFlows
<1>4. gated' = IF pc'[th] = "save_pending" THEN gated \cup {t} ELSE gated
  BY <1>0, QueueMoves
<1>5. CASE UNCHANGED gated /\ StageOf(t)' = StageOf(t)
  BY <1>1, <1>2, <1>5, StutterImplemented
<1>6. CASE UNCHANGED gated /\ MayMove(StageOf(t), StageOf(t)')
  BY <1>2, <1>6, MoveImplemented
<1>7. CASE call[th].op = "held"
  <2>1. StageOf(t) = HoldStage(pc[th]) /\ t \in gated
    BY <1>0, <1>7 DEF Followed
  <2>2. CASE pc[th] \in {"save_pending", "log_pending"}
    <3>1. /\ call'[th].op = "held"
          /\ pc'[th] = IF pc[th] = "save_pending" THEN "log_pending" ELSE "record"
      BY <1>7, <2>2, StepAt DEF SavePending, LogPending, Goto, TypeOK, ThreadType
    <3>2. StageOf(t)' = "waiting" /\ UNCHANGED gated
      BY <1>4, <3>1, ProceedStage DEF HoldStage
    <3>3. CASE pc[th] = "save_pending"
      BY <1>2, <2>1, <3>2, <3>3, MoveImplemented DEF HoldStage
    <3>4. CASE pc[th] = "log_pending"
      BY <1>5, <2>1, <3>2, <3>4 DEF HoldStage
    <3> QED BY <2>2, <3>3, <3>4
  <2>3. CASE pc[th] = "record"
    <3>1. call'[th] = NoCall
      BY <1>7, <2>3, StepAt, ResultStored
    <3>2. ~ Has(th, t)' /\ pc'[th] # "save_pending"
      BY <1>3, <2>3, <3>1, TaskCallFields DEF Has, WorksOn, Keeps, Flows
    <3>3. StageOf(t)' = StageOf(t)
      BY <2>3, <3>2, ProceedStage
    <3> QED BY <1>4, <1>5, <3>2, <3>3
  <2> QED BY <1>0, <1>7, <2>2, <2>3 DEF LocalsFit, Steps, WorkSteps, HoldSteps
<1>8. CASE call[th].op = "task" /\ call'[th] = NoCall
  <2>1. pc'[th] = "idle" /\ ~ Has(th, t)'
    BY <1>3, <1>8, TaskCallFields DEF Flows, Has, WorksOn, Keeps
  <2>2. /\ StageOf(t)' = IF pc[th] \in {"routed", "score"} THEN "dropped" ELSE StageOf(t)
        /\ UNCHANGED gated
    BY <1>4, <2>1, ProceedStage
  <2>3. /\ pc[th] = "routed" => StageOf(t) = "in_hand"
        /\ pc[th] = "score" => StageOf(t) = "running"
    BY <1>0, <1>8, WorkStages DEF Followed
  <2> QED BY <1>5, <1>6, <2>2, <2>3 DEF MayMove
<1>9. CASE call[th].op = "task" /\ call'[th] # NoCall
  <2>1. Flows(th) /\ StageOf(t) = WorkStage(pc[th], call[th].status)
    BY <1>0, <1>3, <1>9 DEF Followed
  <2>2. CASE pc'[th] = "save_pending"
    <3>1. pc[th] = "gate" /\ call'[th].op = "held"
      BY <2>1, <2>2 DEF Flows
    <3>2. StageOf(t) = "in_hand" /\ StageOf(t)' = "in_hand"
      BY <2>1, <2>2, <3>1, ProceedStage, WorkStages DEF HoldStage
    <3>3. gated' = gated \cup {t} /\ \A u \in Tasks : StageOf(u)' = StageOf(u)
      BY <1>2, <1>4, <2>2, <3>2
    <3> QED BY <3>2, <3>3, GateImplemented
  <2>3. CASE pc'[th] # "save_pending"
    <3>1. UNCHANGED gated /\ StageOf(t)' = WorkStage(pc'[th], call'[th].status)
      BY <1>4, <1>9, <2>1, <2>3, ProceedStage DEF Flows
    <3>2. CASE pc[th] = "gate"
      <4>1. pc'[th] = "run"
        BY <1>9, <2>1, <2>3, <3>2, WorkFlows
      <4>2. StageOf(t) = "in_hand" /\ StageOf(t)' = "running"
        BY <2>1, <3>1, <3>2, <4>1, WorkStages
      <4>3. t \notin gated
        BY <1>9, <4>2, StageSays DEF Keeps
      <4> QED BY <1>2, <3>1, <4>2, <4>3, MoveImplemented
    <3>3. CASE pc[th] \in {"routed", "approved", "start", "rejected", "log_completed",
                           "log_failed"}
      <4>1. \/ pc[th] = "routed" /\ pc'[th] = "gate"
            \/ pc[th] = "approved" /\ pc'[th] = "start"
            \/ pc[th] = "start" /\ pc'[th] = "run"
            \/ pc[th] = "rejected" /\ pc'[th] = "record" /\ call'[th].status = "REJECTED"
            \/ pc[th] = "log_completed" /\ pc'[th] = "review"
            \/ pc[th] = "log_failed" /\ pc'[th] = "record" /\ call'[th].status = "FAILED"
        BY <1>9, <2>1, <2>3, <3>3, WorkFlows
      <4>2. StageOf(t)' = StageOf(t) \/ MayMove(StageOf(t), StageOf(t)')
        BY <2>1, <3>1, <4>1, WorkStages DEF MayMove
      <4> QED BY <1>5, <1>6, <3>1, <4>2
    <3>4. CASE pc[th] \notin {"gate", "routed", "approved", "start", "rejected",
                              "log_completed", "log_failed"}
      <4>1. \/ /\ pc[th] \in {"run", "score", "cut", "log_escalated"}
               /\ pc'[th] \in {"score", "cut", "log_escalated", "log_completed"}
            \/ pc[th] = "run" /\ pc'[th] = "snap" /\ call'[th].status = "FAILED"
            \/ /\ pc[th] \in {"review", "adjust", "log_adjusted"}
               /\ pc'[th] \in {"adjust", "log_adjusted", "snap"}
               /\ call'[th].status \in {"COMPLETED", "ESCALATED"}
            \/ pc[th] = "snap" /\ pc'[th] = "commit" /\ call'[th].status = call[th].status
            \/ /\ pc[th] = "commit" /\ call'[th].status = call[th].status
               /\ pc'[th] = IF call[th].status = "FAILED" THEN "log_failed" ELSE "record"
        BY <1>9, <2>1, <2>3, <3>4, WorkFlows
      <4>2. pc[th] = "commit" => call[th].status # "REJECTED"
        BY <1>9 DEF Followed
      <4>3. StageOf(t)' = StageOf(t)
        BY <2>1, <3>1, <4>1, <4>2, WorkStages
      <4> QED BY <1>5, <3>1, <4>3
    <3> QED BY <3>2, <3>3, <3>4
  <2> QED BY <2>2, <2>3
<1> QED BY <1>0, <1>7, <1>8, <1>9

\* A step that stores a result.
LEMMA ResultImplemented ==
    ASSUME NEW th, Alone(th), TypeOK, Decided(th), Followed(th), Outstanding(th),
           RecordResult(th)
    PROVE  [Lifecycle!Next]_(Lifecycle!vars)
<1> USE DEF Alone
<1>1. PICK t \in Tasks : t = call[th].task
  BY ResultStored
<1>2. /\ pc[th] = "record" /\ call[th].op \in {"task", "held", "feedback"}
      /\ LocalsFit(pc[th], call[th]) /\ Proceed(th)
  BY Locals, ResultStored DEF TypeOK, ThreadType, LocalsFit, Proceed
<1>3. /\ \A u \in Tasks : u # t => dbResults'[u] = dbResults[u]
      /\ dbResults'[t] # None /\ dbResults'[t].status = call[th].status
  BY <1>1, ResultStored
<1>4. UNCHANGED gated
  BY DEF RecordResult
<1>5. \A u \in Tasks : ~ Has(th, u) => StageOf(u)' = StageOf(u)
  BY <1>2, ProceedOthers
<1>6. CASE call[th].op = "feedback"
  <2>1. \A u \in Tasks : StageOf(u)' = StageOf(u)
    BY <1>5, <1>6 DEF Has, WorksOn, Keeps
  <2>2. \A u \in Tasks : RecordedOutcome(u)' = RecordedOutcome(u)
    BY <1>1, <1>3, <1>6 DEF Outstanding, RecordedOutcome
  <2> QED BY <1>4, <2>1, <2>2, StutterImplemented
<1>7. CASE call[th].op \in {"task", "held"}
  <2>1. Has(th, t) /\ ~ Has(th, t)'
    BY <1>1, <1>7, ResultStored, TaskCallFields DEF Has, WorksOn, Keeps
  <2>2. \A u \in Tasks : StageOf(u)' = StageOf(u)
    <3>1. StageOf(t)' = StageOf(t)
      BY <1>2, <2>1, ProceedStage
    <3>2. \A u \in Tasks : u # t => ~ Has(th, u)
      BY <1>1, <1>7 DEF Has, WorksOn, Keeps
    <3> QED BY <1>5, <3>1, <3>2
  <2>3. RecordedOutcome(t) \notin {"REJECTED", "COMPLETED", "ESCALATED", "FAILED"}
    <3>1. Open(th, t)
      BY <1>1, <1>7 DEF Open
    <3>2. None \notin {"REJECTED", "COMPLETED", "ESCALATED", "FAILED"}
      BY NoneAssumption DEF Statuses
    <3> QED BY <3>1, <3>2 DEF Outstanding, RecordedOutcome
  <2>4. \/ StageOf(t) = "waiting" /\ call[th].status = "PENDING_APPROVAL"
        \/ StageOf(t) = "rejected" /\ call[th].status = "REJECTED"
        \/ StageOf(t) = "ended" /\ call[th].status \in {"COMPLETED", "ESCALATED", "FAILED"}
    <3>1. CASE call[th].op = "held"
      BY <1>1, <1>2, <3>1 DEF Followed, HoldStage, LocalsFit
    <3>2. CASE call[th].op = "task"
      BY <1>1, <1>2, <3>2, WorkStages DEF Followed, LocalsFit, Outcomes, Statuses
    <3> QED BY <1>7, <3>1, <3>2
  <2> QED BY <1>3, <1>4, <2>2, <2>3, <2>4, RecordImplemented
<1> QED BY <1>2, <1>6, <1>7

\* A step of a call in progress.
LEMMA ProceedImplemented ==
    ASSUME NEW th, Alone(th), TypeOK, Decided(th), Followed(th), Outstanding(th), Proceed(th)
    PROVE  [Lifecycle!Next]_(Lifecycle!vars)
<1> USE DEF Alone
<1>1. CASE RecordResult(th)
  BY <1>1, ResultImplemented
<1>2. CASE UNCHANGED dbResults /\ \E t \in Tasks : Has(th, t)
  BY <1>2, WorkImplemented
<1>3. CASE UNCHANGED dbResults /\ \A t \in Tasks : ~ Has(th, t)
  <2>1. \A u \in Tasks : StageOf(u)' = StageOf(u) /\ (u \in gated' <=> u \in gated)
    BY <1>3, ProceedOthers
  <2>2. gated' = IF pc'[th] = "save_pending" THEN gated \cup {call[th].task} ELSE gated
    BY QueueMoves
  <2>3. pc'[th] # "save_pending"
    <3>1. LocalsFit(pc[th], call[th]) /\ (pc'[th] = "save_pending" => pc[th] = "gate")
      BY CallFlows, Locals DEF TypeOK, ThreadType, Flows
    <3>2. pc[th] # "gate"
      BY <1>3, <3>1 DEF LocalsFit, WorkSteps, HoldSteps, Has, WorksOn, Keeps
    <3> QED BY <3>1, <3>2
  <2>4. \A u \in Tasks : RecordedOutcome(u)' = RecordedOutcome(u)
    BY <1>3 DEF RecordedOutcome
  <2> QED BY <2>1, <2>2, <2>3, <2>4, StutterImplemented
<1>4. [Next]_vars
  BY DEF Next
<1> QED BY <1>1, <1>2, <1>3, <1>4, OnlyRecordResult

\* Every step is a step of the lifecycle of one task, or none.
LEMMA StepsImplemented ==
    ASSUME NEW th, Alone(th)
    PROVE  /\ TypeOK /\ InSync(th) /\ Decided(th) /\ Staffed(th) /\ Followed(th)
           /\ Outstanding(th) /\ [Next]_vars
           => [Lifecycle!Next]_(Lifecycle!vars)
<1> USE DEF Alone
<1> SUFFICES ASSUME TypeOK, InSync(th), Decided(th), Staffed(th), Followed(th),
                    Outstanding(th), [Next]_vars
             PROVE  [Lifecycle!Next]_(Lifecycle!vars)
  OBVIOUS
<1>1. CASE UNCHANGED vars
  <2>1. \A t \in Tasks : StageOf(t)' = StageOf(t)
    BY <1>1, StageKept DEF vars, Logged, WorksOn, Keeps
  <2>2. UNCHANGED gated /\ \A t \in Tasks : RecordedOutcome(t)' = RecordedOutcome(t)
    BY <1>1 DEF vars, RecordedOutcome
  <2> QED BY <2>1, <2>2, StutterImplemented
<1>2. CASE \E p \in Procs : StartProcess(p) \/ EndProcess(p)
  BY <1>2, ProcessImplemented
<1>3. CASE Request(th)
  BY <1>3, RequestImplemented
<1>4. CASE Proceed(th)
  BY <1>4, ProceedImplemented
<1> QED BY <1>1, <1>2, <1>3, <1>4 DEF Next

\* At the start every task is new, and nothing is recorded about any.
LEMMA StartImplemented ==
    ASSUME NEW th, Alone(th), Init
    PROVE  Lifecycle!Init /\ Staffed(th) /\ Followed(th)
<1> USE DEF Alone
<1>1. /\ issued = {} /\ gated = {} /\ up = [p \in Procs |-> FALSE]
      /\ dbPending = [t \in Tasks |-> None] /\ dbResults = [t \in Tasks |-> None]
      /\ taskLog = [t \in Tasks |-> [e \in TaskEvents |-> 0]] /\ call = [x \in Threads |-> NoCall]
  BY DEF Init, NoTask
<1>2. \A t \in Tasks : StageOf(t) = "new" /\ RecordedOutcome(t) = None
  BY <1>1 DEF StageOf, RecordedOutcome
<1>3. Lifecycle!Init
  BY <1>1, <1>2 DEF Lifecycle!Init
<1>4. Staffed(th)
  BY <1>1 DEF Staffed
<1>5. \A t \in Tasks : Untold(t)
  BY <1>1 DEF Untold, Logged, Milestones, TaskEvents
<1>6. Followed(th)
  BY <1>1, <1>5, TaskCallFields DEF Followed
<1> QED BY <1>3, <1>4, <1>6

\* One process that answers one request at a time and reaches every agent keeps
\* the promise of TaskLifecycle, wherever it dies and however often it is started
\* again: a task that needs a sign-off waits for a human, is decided on once, runs
\* once and only if approved, and what is recorded of it is what happened
\* (supervisor.py 98-330, state_store.py 90-196).
THEOREM LifecycleImplemented ==
    ASSUME NEW th, Alone(th), "unreachable" \notin Faults
    PROVE  Spec => LifecycleRefined
<1>1. Init => Lifecycle!Init /\ Staffed(th) /\ Followed(th)
  BY StartImplemented
<1>2. TypeOK /\ Staffed(th) /\ [Next]_vars => Staffed(th)'
  BY StaffedNext
<1>3. TypeOK /\ InSync(th) /\ Staffed(th) /\ Followed(th) /\ [Next]_vars => Followed(th)'
  BY FollowedNext
<1>4. /\ TypeOK /\ InSync(th) /\ Decided(th) /\ Staffed(th) /\ Followed(th)
      /\ Outstanding(th) /\ [Next]_vars
      => [Lifecycle!Next]_(Lifecycle!vars)
  BY StepsImplemented
<1> QED BY <1>1, <1>2, <1>3, <1>4, TypeCorrect, AlwaysInSync, AlwaysDecided,
           AlwaysOutstanding, PTL DEF Spec, LifecycleRefined, Lifecycle!Spec
===============================================================================

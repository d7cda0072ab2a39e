--------------------------- MODULE AuditTrailProofs ---------------------------
(***************************************************************************)
(* What the audit trail accounts for.  Whatever the interleaving of        *)
(* threads and processes, and wherever a process dies, it only grows and   *)
(* it is ahead of the recorded results.  And where every process has one   *)
(* thread, no level an agent has on disk claims more than the adjustments  *)
(* that were logged, and no window there is longer than the verdicts that  *)
(* were logged explain; threads of one process share the profiles in       *)
(* memory, and one may save what another has changed and not yet logged.   *)
(***************************************************************************)
EXTENDS SupervisorProofs, FiniteSetTheorems

USE DEF memory, database, audit, history

-------------------------------------------------------------------------------
(* The audit trail only grows.                                             *)

LogStep == UNCHANGED taskLog \/ \E t \in Tasks, e \in TaskEvents : Log(t, e)

\* Every step logs one event about one task at most.
LEMMA OneEvent ==
    ASSUME TypeOK, [Next]_vars
    PROVE  LogStep
<1>1. CASE UNCHANGED vars
  BY <1>1 DEF vars, LogStep
<1>2. ASSUME NEW p \in Procs, StartProcess(p) \/ EndProcess(p) PROVE LogStep
  BY <1>2 DEF StartProcess, EndProcess, LogStep
<1>3. ASSUME NEW th \in Threads, Request(th) PROVE LogStep
  BY <1>3 DEF Request, PauseAgent, ResumeAgent, AssignTask, Admit, RouteTask,
              ApproveTask, RejectTask, RecordHumanFeedback, TaskEvents, LogStep
<1>4. ASSUME NEW th \in Threads, Proceed(th) PROVE LogStep
  <2>1. pc[th] \in WorkSteps \cup HoldSteps \cup {"log_feedback"} => call[th].task \in Tasks
    BY Locals DEF TypeOK
  <2>2. CASE AssignRouted(th)
    BY <2>1, <2>2 DEF AssignRouted, Admit, TaskEvents, WorkSteps, LogStep
  <2>3. CASE PassGate(th) \/ StartApproved(th)
    BY <2>1, <2>3 DEF PassGate, StartApproved, Begin, TaskEvents, WorkSteps, LogStep
  <2>4. CASE LogPending(th) \/ LogApproved(th) \/ LogRejected(th) \/ LogFailed(th)
              \/ LogEscalated(th) \/ LogCompleted(th) \/ LogFeedback(th)
    BY <2>1, <2>4 DEF LogPending, LogApproved, LogRejected, LogFailed, LogEscalated,
                      LogCompleted, LogFeedback, TaskEvents, WorkSteps, HoldSteps, LogStep
  <2>5. CASE (\E s \in Scores : Score(th, s)) \/ CutWindow(th) \/ LogAdjusted(th)
    BY <2>5 DEF Score, CutWindow, LogAdjusted, LogStep
  <2>6. CASE HoldAtGate(th) \/ SavePending(th) \/ WorkerReturns(th) \/ WorkerRaises(th)
              \/ CheckerRaises(th) \/ Review(th) \/ AdjustAutonomy(th)
              \/ SnapshotAgent(th) \/ CommitAgent(th) \/ RecordResult(th) \/ LogSwitch(th)
    BY <2>6 DEF HoldAtGate, SavePending, WorkerReturns, WorkerRaises, CheckerRaises,
                Review, AdjustAutonomy, SnapshotAgent, CommitAgent, RecordResult,
                LogSwitch, LogStep
  <2> QED BY <1>4, <2>2, <2>3, <2>4, <2>5, <2>6 DEF Proceed
<1> QED BY <1>1, <1>2, <1>3, <1>4 DEF Next

\* No event is ever taken back.
LEMMA LogGrows ==
    ASSUME TypeOK, [Next]_vars, NEW t \in Tasks, NEW e \in TaskEvents
    PROVE  /\ taskLog[t][e] \in Nat /\ taskLog'[t][e] \in Nat
           /\ taskLog'[t][e] >= taskLog[t][e]
<1>1. taskLog \in [Tasks -> [TaskEvents -> Nat]]
  BY DEF TypeOK, AuditType
<1>2. CASE UNCHANGED taskLog
  BY <1>1, <1>2
<1>3. ASSUME NEW u \in Tasks, NEW f \in TaskEvents, Log(u, f)
      PROVE  taskLog'[t][e] \in Nat /\ taskLog'[t][e] >= taskLog[t][e]
  BY <1>1, <1>3 DEF Log
<1> QED BY <1>1, <1>2, <1>3, OneEvent DEF LogStep

-------------------------------------------------------------------------------
(* The audit trail is ahead of the record.                                 *)

Known(t, s) == taskLog[t][EventOf[s]] > 0

\* What a thread about to record an outcome has logged.  The event of a failure
\* is logged after the agent is saved, every other one before.
HasLogged(step, c) ==
    /\ step \in {"log_feedback", "record", "review", "adjust", "log_adjusted"} =>
            Known(c.task, c.status)
    /\ step \in {"snap", "commit"} /\ c.op = "task" /\ c.status # "FAILED" =>
            Known(c.task, c.status)
    /\ step = "log_completed" /\ c.status = "ESCALATED" => Known(c.task, c.status)

AuditAhead ==
    /\ \A th \in Threads : HasLogged(pc[th], call[th])
    /\ \A p \in Procs, t \in Tasks :
            results[p][t] # None => Known(t, results[p][t].status)
    /\ \A t \in Tasks : dbResults[t] # None => Known(t, dbResults[t].status)

\* Each status is explained by an event about the task.
LEMMA EventOfType == \A s \in Statuses : EventOf[s] \in TaskEvents
BY DEF Statuses, EventOf, TaskEvents

\* What is known stays known.
LEMMA KnownStays ==
    ASSUME TypeOK, [Next]_vars, NEW t \in Tasks, NEW s \in Statuses, Known(t, s)
    PROVE  Known(t, s)'
BY LogGrows, EventOfType DEF Known

\* So a thread that does not move still has logged what it had.
LEMMA HasLoggedStays ==
    ASSUME TypeOK, [Next]_vars, NEW th \in Threads, HasLogged(pc[th], call[th]),
           pc'[th] = pc[th], call'[th] = call[th]
    PROVE  HasLogged(pc[th], call[th])'
<1> DEFINE Told == {"log_feedback", "record", "review", "adjust", "log_adjusted",
                    "snap", "commit", "log_completed"}
<1>1. CASE pc[th] \in Told /\ call[th].op \in {"task", "held", "feedback"}
  <2>1. call[th].task \in Tasks /\ LocalsFit(pc[th], call[th])
    BY <1>1, Locals DEF TypeOK, LocalsFit
  <2>2. pc[th] \in Told
            /\ (pc[th] \in {"snap", "commit"} => call[th].op = "task")
        => call[th].status \in Statuses
    BY <1>1, <2>1 DEF LocalsFit, WorkSteps, HoldSteps, Outcomes, Statuses
  <2> QED BY <1>1, <2>1, <2>2, KnownStays DEF HasLogged
<1>2. CASE ~ (pc[th] \in Told /\ call[th].op \in {"task", "held", "feedback"})
  <2>1. LocalsFit(pc[th], call[th])
    BY Locals DEF TypeOK
  <2> QED BY <1>2, <2>1 DEF HasLogged, LocalsFit, WorkSteps
<1> QED BY <1>1, <1>2

Moved(th) ==
    \A o \in Threads \ {th} : pc'[o] = pc[o] /\ call'[o] = call[o]

\* A thread steps, no result changes, and it has logged what it needs.
LEMMA AheadStep ==
    ASSUME TypeOK, AuditAhead, [Next]_vars, NEW th \in Threads, Moved(th),
           UNCHANGED <<results, dbResults>>, HasLogged(pc[th], call[th])'
    PROVE  AuditAhead'
<1>1. \A o \in Threads : HasLogged(pc[o], call[o])'
  BY HasLoggedStays DEF Moved, AuditAhead
<1>2. \A p \in Procs, t \in Tasks : results[p][t] # None => Known(t, results[p][t].status)'
  <2>1. \A p \in Procs, t \in Tasks :
            results[p][t] # None => results[p][t].status \in Statuses
    BY DEF TypeOK, MemoryType, Result
  <2> QED BY <2>1, KnownStays DEF AuditAhead, Known
<1>3. \A t \in Tasks : dbResults[t] # None => Known(t, dbResults[t].status)'
  <2>1. \A t \in Tasks : dbResults[t] # None => dbResults[t].status \in Statuses
    BY DEF TypeOK, DatabaseType, Result
  <2> QED BY <2>1, KnownStays DEF AuditAhead, Known
<1> QED BY <1>1, <1>2, <1>3 DEF AuditAhead, Known

\* Requests: only feedback is about to record an outcome, one it found recorded.
LEMMA AheadRequest ==
    ASSUME TypeOK, TypeOK', AuditAhead, [Next]_vars, NEW th \in Threads, Request(th)
    PROVE  AuditAhead'
<1> USE DEF TypeOK, ThreadType
<1>1. ASSUME NEW a \in Agents, PauseAgent(th, a) \/ ResumeAgent(th, a) PROVE AuditAhead'
  <2>1. Moved(th) /\ UNCHANGED <<results, dbResults>>
    BY <1>1 DEF PauseAgent, ResumeAgent, Goto, Moved
  <2>2. pc'[th] = "snap" /\ call'[th].op # "task"
    <3>1. \E op \in {"pause", "resume"} :
            call' = [call EXCEPT ![th] = [NoCall EXCEPT !.op = op, !.agent = a]]
      BY <1>1 DEF PauseAgent, ResumeAgent
    <3>2. \A op \in {"pause", "resume"} :
            [NoCall EXCEPT !.op = op, !.agent = a].op = op
      BY DEF NoCall
    <3>3. pc' = [pc EXCEPT ![th] = "snap"]
      BY <1>1 DEF PauseAgent, ResumeAgent, Goto
    <3> HIDE DEF TypeOK
    <3> QED BY <3>1, <3>2, <3>3 DEF TypeOK
  <2> QED BY <2>1, <2>2, AheadStep DEF HasLogged
<1>2. ASSUME NEW a \in Agents, NEW t \in Tasks, AssignTask(th, a, t) PROVE AuditAhead'
  BY <1>2, AheadStep DEF AssignTask, Admit, Goto, Return, Moved, HasLogged
<1>3. ASSUME NEW t \in Tasks, RouteTask(th, t) PROVE AuditAhead'
  <2>1. CASE UNCHANGED <<pc, call>>
    BY <1>3, <2>1, AheadStep, HasLoggedStays DEF RouteTask, Moved, AuditAhead
  <2>2. CASE pc' = [pc EXCEPT ![th] = "routed"]
             /\ \E c : call' = [call EXCEPT ![th] = c]
    BY <1>3, <2>2, AheadStep DEF RouteTask, Moved, HasLogged
  <2> QED BY <1>3, <2>1, <2>2 DEF RouteTask, Goto
<1>4. ASSUME NEW t \in Tasks, ApproveTask(th, t) PROVE AuditAhead'
  <2>1. CASE UNCHANGED <<pc, call>>
    BY <1>4, <2>1, AheadStep, HasLoggedStays DEF ApproveTask, Moved, AuditAhead
  <2>2. CASE ~ UNCHANGED <<pc, call>>
    BY <1>4, <2>2, AheadStep DEF ApproveTask, Goto, Moved, HasLogged
  <2> QED BY <2>1, <2>2
<1>5. ASSUME NEW t \in Tasks, RejectTask(th, t) PROVE AuditAhead'
  BY <1>5, AheadStep DEF RejectTask, Goto, Moved, HasLogged
<1>6. ASSUME NEW t \in Tasks, NEW s \in Scores, RecordHumanFeedback(th, t, s)
      PROVE  AuditAhead'
  <2> DEFINE p == ProcOf[th]
             r == IF results[p][t] # None THEN results[p][t] ELSE dbResults[t]
  <2>1. r \in Result
    <3>1. results[p][t] \in Result \cup {None} /\ dbResults[t] \in Result \cup {None}
      BY Home DEF MemoryType, DatabaseType
    <3> QED BY <1>6, <3>1 DEF RecordHumanFeedback
  <2>2. Known(t, r.status)
    BY <1>6, Home DEF RecordHumanFeedback, AuditAhead
  <2>3. Known(t, r.status)'
    <3>1. r.status \in Statuses
      BY <2>1 DEF Result
    <3>2. taskLog'[t][EventOf[r.status]] > 0
      BY <2>2, <3>1, LogGrows, EventOfType DEF Known
    <3>3. UNCHANGED <<results, dbResults>>
      BY <1>6 DEF RecordHumanFeedback
    <3> QED BY <3>2, <3>3 DEF Known
  <2>4. /\ pc'[th] = "log_feedback" /\ call'[th].op = "feedback"
        /\ call'[th].task = t /\ call'[th].status = r.status
        /\ Moved(th) /\ UNCHANGED <<results, dbResults>>
    BY <1>6 DEF RecordHumanFeedback, Goto, NoCall, Moved
  <2>5. HasLogged(pc[th], call[th])'
    BY <2>3, <2>4 DEF HasLogged, Known
  <2> QED BY <2>4, <2>5, AheadStep
<1> QED BY <1>1, <1>2, <1>3, <1>4, <1>5, <1>6 DEF Request

\* Calls in progress: each logs its event before it is about to record.
LEMMA AheadProceed ==
    ASSUME TypeOK, TypeOK', AuditAhead, [Next]_vars, NEW th \in Threads, Proceed(th)
    PROVE  AuditAhead'
<1> USE DEF TypeOK, ThreadType
<1>0. /\ call[th] \in Calls /\ LocalsFit(pc[th], call[th]) /\ HasLogged(pc[th], call[th])
      /\ ProcOf[th] \in Procs
  BY Home DEF AuditAhead
<1>1. CASE AssignRouted(th)
  BY <1>1, AheadStep DEF AssignRouted, Admit, Goto, Return, Moved, HasLogged
<1>2. CASE PassGate(th) \/ StartApproved(th)
  BY <1>2, AheadStep DEF PassGate, StartApproved, Begin, Goto, Moved, HasLogged
<1>3. CASE HoldAtGate(th) \/ SavePending(th)
  BY <1>3, AheadStep DEF HoldAtGate, SavePending, Goto, Moved, HasLogged
<1>4. CASE LogApproved(th) \/ WorkerReturns(th) \/ CheckerRaises(th) \/ LogSwitch(th)
  BY <1>4, AheadStep DEF LogApproved, WorkerReturns, CheckerRaises, LogSwitch, Goto,
                         Return, Moved, HasLogged
<1>5. CASE WorkerRaises(th)
  <2>1. /\ pc'[th] = "snap" /\ call'[th].status = "FAILED"
        /\ Moved(th) /\ UNCHANGED <<results, dbResults>>
    BY <1>0, <1>5 DEF WorkerRaises, Goto, Moved, Calls
  <2> QED BY <2>1, AheadStep DEF HasLogged
<1>6. CASE LogPending(th) \/ LogRejected(th) \/ LogFailed(th) \/ LogCompleted(th)
  <2>1. /\ call[th].task \in Tasks
        /\ pc[th] \in {"log_pending", "rejected", "log_failed", "log_completed"}
    BY <1>0, <1>6 DEF LogPending, LogRejected, LogFailed, LogCompleted, LocalsFit,
                      WorkSteps, HoldSteps
  <2>2. /\ call' = call /\ Moved(th) /\ UNCHANGED <<results, dbResults>>
    BY <1>6 DEF LogPending, LogRejected, LogFailed, LogCompleted, Goto, Moved
  <2>3. pc'[th] \in {"record", "review"}
    BY <1>6 DEF LogPending, LogRejected, LogFailed, LogCompleted, Goto
  <2>4. Known(call[th].task, call[th].status)'
    <3>1. CASE call[th].status = "ESCALATED"
      <4>1. Known(call[th].task, "ESCALATED")
        BY <1>0, <1>6, <3>1 DEF LogPending, LogRejected, LogFailed, LogCompleted,
                                LocalsFit, HasLogged, HoldSteps
      <4>2. taskLog'[call[th].task][EventOf["ESCALATED"]] > 0
        BY <2>1, <4>1, LogGrows, EventOfType DEF Known, Statuses
      <4> QED BY <2>2, <3>1, <4>2 DEF Known
    <3>2. CASE call[th].status # "ESCALATED"
      <4>1. Log(call[th].task, EventOf[call[th].status])
        BY <1>0, <1>6, <3>2 DEF LogPending, LogRejected, LogFailed, LogCompleted,
                                LocalsFit, HoldSteps, EventOf
      <4>2. call[th].status \in Statuses
        BY <1>0, <2>1 DEF LocalsFit, HoldSteps, Statuses
      <4>3. taskLog[call[th].task][EventOf[call[th].status]] \in Nat
        BY <2>1, <4>2, EventOfType DEF AuditType
      <4>4. taskLog'[call[th].task][EventOf[call[th].status]] > 0
        BY <2>1, <4>1, <4>2, <4>3, EventOfType DEF Log, AuditType
      <4> QED BY <2>2, <4>4 DEF Known
    <3> QED BY <3>1, <3>2
  <2>5. HasLogged(pc[th], call[th])'
    BY <2>3, <2>4 DEF HasLogged, Known
  <2> QED BY <2>2, <2>5, AheadStep
<1>7. CASE (\E s \in Scores : Score(th, s)) \/ CutWindow(th)
  <2>1. pc'[th] \in {"cut", "log_escalated"} \/ call'[th].status = "COMPLETED"
    BY <1>7, CutLocals DEF Score, Goto
  <2>2. Moved(th) /\ UNCHANGED <<results, dbResults>>
    BY <1>7 DEF Score, CutWindow, Goto, Moved
  <2>3. pc'[th] \in {"cut", "log_escalated", "log_completed"}
    BY <1>7, CutLocals DEF Score, Goto
  <2>4. HasLogged(pc[th], call[th])'
    BY <2>1, <2>3 DEF HasLogged
  <2> QED BY <2>2, <2>4, AheadStep
<1>10. CASE LogEscalated(th) \/ LogFeedback(th)
  <2>1. call[th].task \in Tasks /\ pc[th] \in {"log_escalated", "log_feedback"}
    BY <1>0, <1>10 DEF LogEscalated, LogFeedback, LocalsFit, WorkSteps
  <2>2. call' = call /\ Moved(th) /\ UNCHANGED <<results, dbResults>>
    BY <1>10 DEF LogEscalated, LogFeedback, Goto, Moved
  <2>3. pc'[th] \in {"log_completed", "record"}
    BY <1>10 DEF LogEscalated, LogFeedback, Goto
  <2>4. Known(call[th].task, call[th].status)'
    <3>1. CASE LogEscalated(th)
      <4>1. taskLog[call[th].task]["TASK_ESCALATED_LOW_QUALITY"] \in Nat
        BY <2>1 DEF AuditType, TaskEvents
      <4>2. taskLog'[call[th].task]["TASK_ESCALATED_LOW_QUALITY"] > 0
        BY <2>1, <3>1, <4>1 DEF LogEscalated, Log, AuditType, TaskEvents
      <4>3. call[th].status = "ESCALATED"
        BY <1>0, <3>1 DEF LogEscalated, LocalsFit
      <4> QED BY <2>2, <4>2, <4>3 DEF Known, EventOf
    <3>2. CASE LogFeedback(th)
      <4>1. Known(call[th].task, call[th].status) /\ call[th].status \in Statuses
        BY <1>0, <3>2 DEF LogFeedback, HasLogged, LocalsFit
      <4>2. taskLog'[call[th].task][EventOf[call[th].status]] > 0
        BY <2>1, <4>1, LogGrows, EventOfType DEF Known
      <4> QED BY <2>2, <4>2 DEF Known
    <3> QED BY <1>10, <3>1, <3>2
  <2>5. HasLogged(pc[th], call[th])'
    BY <2>2, <2>3, <2>4 DEF HasLogged, Known
  <2> QED BY <2>2, <2>5, AheadStep
<1>8. CASE \/ Review(th) \/ SnapshotAgent(th) \/ CommitAgent(th)
          \/ AdjustAutonomy(th) \/ LogAdjusted(th)
  <2>1. /\ Moved(th) /\ UNCHANGED <<results, dbResults, taskLog>>
        /\ pc[th] \in {"review", "snap", "commit", "adjust", "log_adjusted"}
    BY <1>8 DEF Review, SnapshotAgent, CommitAgent, AdjustAutonomy, LogAdjusted, Goto,
                Return, Moved
  <2>2. CASE Return(th)
    BY <2>1, <2>2, AheadStep DEF Return, Goto, HasLogged
  <2>3. CASE /\ call'[th].op = call[th].op /\ call'[th].task = call[th].task
             /\ call'[th].status = call[th].status
             /\ \/ /\ pc[th] \in {"review", "adjust", "log_adjusted"}
                   /\ pc'[th] \in {"snap", "adjust", "log_adjusted"}
                \/ pc[th] = "snap" /\ pc'[th] = "commit"
                \/ pc[th] = "commit" /\ pc'[th] \in {"log_switch", "log_failed"}
                \/ /\ pc[th] = "commit" /\ pc'[th] = "record"
                   /\ call[th].op = "task" /\ call[th].status # "FAILED"
    <3>1. HasLogged(pc[th], call[th])'
      BY <1>0, <2>1, <2>3 DEF HasLogged, Known, LocalsFit, WorkSteps
    <3> QED BY <2>1, <3>1, AheadStep
  <2>4. CASE Review(th)
    <3>1. /\ pc[th] = "review" /\ pc'[th] \in {"snap", "adjust"}
          /\ call'[th].op = call[th].op /\ call'[th].task = call[th].task
          /\ call'[th].status = call[th].status
      BY <1>0, <2>4 DEF Review, Goto, Calls
    <3> QED BY <2>3, <3>1
  <2>5. CASE SnapshotAgent(th)
    <3>1. /\ pc[th] = "snap" /\ pc'[th] = "commit"
          /\ call'[th].op = call[th].op /\ call'[th].task = call[th].task
          /\ call'[th].status = call[th].status
      BY <1>0, <2>5 DEF SnapshotAgent, Goto, Calls
    <3> QED BY <2>3, <3>1
  <2>6. CASE CommitAgent(th) /\ ~ Return(th)
    <3>1. /\ call'[th].op = call[th].op /\ call'[th].task = call[th].task
          /\ call'[th].status = call[th].status
      BY <1>0, <2>6 DEF CommitAgent, Calls
    <3>2. \/ pc[th] = "commit" /\ pc'[th] \in {"log_switch", "log_failed"}
          \/ /\ pc[th] = "commit" /\ pc'[th] = "record"
             /\ call[th].op = "task" /\ call[th].status # "FAILED"
      BY <1>0, <2>6 DEF CommitAgent, Goto
    <3> QED BY <2>3, <3>1, <3>2
  <2>7. CASE AdjustAutonomy(th)
    <3>1. /\ pc[th] = "adjust" /\ pc'[th] = "log_adjusted"
          /\ call'[th].op = call[th].op /\ call'[th].task = call[th].task
          /\ call'[th].status = call[th].status
      BY <1>0, <2>7 DEF AdjustAutonomy, Goto, Calls
    <3> QED BY <2>3, <3>1
  <2>8. CASE LogAdjusted(th)
    <3>1. /\ pc[th] = "log_adjusted" /\ pc'[th] = "snap"
          /\ call'[th].op = call[th].op /\ call'[th].task = call[th].task
          /\ call'[th].status = call[th].status
      BY <2>8, AdjustedLocals DEF LogAdjusted
    <3> QED BY <2>3, <3>1
  <2> QED BY <1>8, <2>2, <2>4, <2>5, <2>6, <2>7, <2>8
<1>9. CASE RecordResult(th)
  <2> DEFINE p == ProcOf[th]
             t == call[th].task
             r == [agent |-> call[th].agent, status |-> call[th].status,
                   score |-> call[th].score]
  <2>1. /\ pc[th] = "record" /\ t \in Tasks /\ Known(t, call[th].status)
        /\ Moved(th) /\ UNCHANGED taskLog
        /\ results' = [results EXCEPT ![p][t] = r]
        /\ dbResults' = [dbResults EXCEPT ![t] = r]
    BY <1>0, <1>9 DEF RecordResult, LocalsFit, HasLogged, Goto, Return, Moved
  <2>2. \A o \in Threads : HasLogged(pc[o], call[o])'
    <3>1. HasLogged(pc[th], call[th])'
      BY <1>0, <1>9 DEF RecordResult, Goto, Return, NoCall, HasLogged
    <3> QED BY <2>1, <3>1, HasLoggedStays DEF Moved, AuditAhead
  <2>3. \A q \in Procs, u \in Tasks : results'[q][u] # None => Known(u, results'[q][u].status)
    BY <1>0, <2>1 DEF AuditAhead, MemoryType, Known
  <2>4. \A u \in Tasks : dbResults'[u] # None => Known(u, dbResults'[u].status)
    BY <2>1 DEF AuditAhead, DatabaseType, Known
  <2> QED BY <2>1, <2>2, <2>3, <2>4 DEF AuditAhead, Known
<1> QED BY <1>1, <1>2, <1>3, <1>4, <1>5, <1>6, <1>7, <1>8, <1>9, <1>10 DEF Proceed

\* The death of a process takes its memory with it, and a start brings none.
LEMMA AheadProcess ==
    ASSUME TypeOK, AuditAhead, [Next]_vars, NEW p \in Procs,
           StartProcess(p) \/ EndProcess(p)
    PROVE  AuditAhead'
<1> USE DEF TypeOK
<1>1. UNCHANGED <<taskLog, dbResults>>
  BY DEF StartProcess, EndProcess
<1>2. \A th \in Threads : HasLogged(pc[th], call[th])'
  <2>1. CASE StartProcess(p)
    BY <2>1, HasLoggedStays DEF StartProcess, AuditAhead
  <2>2. ASSUME NEW th \in Threads, EndProcess(p) PROVE HasLogged(pc[th], call[th])'
    <3>1. CASE ProcOf[th] = p
      BY <2>2, <3>1 DEF EndProcess, HasLogged
    <3>2. CASE ProcOf[th] # p
      BY <2>2, <3>2, HasLoggedStays DEF EndProcess, AuditAhead
    <3> QED BY <3>1, <3>2
  <2> QED BY <2>1, <2>2
<1>3. \A q \in Procs, t \in Tasks : results'[q][t] # None => results'[q][t] = results[q][t]
  <2>1. UNCHANGED results \/ results' = [results EXCEPT ![p] = NoTask]
    BY DEF StartProcess, EndProcess
  <2>2. DOMAIN results = Procs /\ \A t \in Tasks : NoTask[t] = None
    BY DEF MemoryType, NoTask
  <2> QED BY <2>1, <2>2
<1> QED BY <1>1, <1>2, <1>3 DEF AuditAhead, Known

\* AuditAhead is inductive: each operation logs before it records.
LEMMA AheadNext == TypeOK /\ TypeOK' /\ AuditAhead /\ [Next]_vars => AuditAhead'
<1> SUFFICES ASSUME TypeOK, TypeOK', AuditAhead, [Next]_vars PROVE AuditAhead'
  OBVIOUS
<1>1. CASE UNCHANGED vars
  BY <1>1 DEF vars, AuditAhead, HasLogged, Known
<1>2. CASE Next
  BY <1>2, AheadProcess, AheadRequest, AheadProceed DEF Next
<1> QED BY <1>1, <1>2

\* The audit trail is ahead of the record: the event that explains a result
\* (supervisor.py logs it first, 166, 191, 210, 230, 233) is in the trail before
\* the result is in the database, whatever runs at the same time and wherever a
\* process dies.
THEOREM OutcomesAreAudited == Spec => []OutcomeAudited
<1>1. Init => AuditAhead
  BY DEF Init, AuditAhead, HasLogged, NoTask
<1>2. AuditAhead => OutcomeAudited
  BY DEF AuditAhead, OutcomeAudited, Known
<1> QED BY <1>1, <1>2, AheadNext, TypeCorrect, PTL DEF Spec

-------------------------------------------------------------------------------
(* Autonomy is backed by the trail: what is backed stays backed.           *)

AgentLogStep ==
    \/ UNCHANGED agentLog
    \/ \E a \in Agents, e \in AgentEvents :
            agentLog' = [agentLog EXCEPT ![a][e] = @ + 1]

\* Only an adjustment logs a promotion or a demotion.
LEMMA OneAdjustment ==
    ASSUME TypeOK, [Next]_vars
    PROVE  AgentLogStep
<1>1. CASE UNCHANGED vars
  BY <1>1 DEF vars, AgentLogStep
<1>2. ASSUME NEW p \in Procs, StartProcess(p) \/ EndProcess(p) PROVE AgentLogStep
  BY <1>2 DEF StartProcess, EndProcess, AgentLogStep
<1>3. ASSUME NEW th \in Threads, Request(th) PROVE AgentLogStep
  BY <1>3 DEF Request, PauseAgent, ResumeAgent, AssignTask, RouteTask, ApproveTask,
              RejectTask, RecordHumanFeedback, AgentLogStep
<1>4. ASSUME NEW th \in Threads, Proceed(th) PROVE AgentLogStep
  <2>1. CASE LogAdjusted(th)
    <3>1. pc[th] = "log_adjusted" /\ LocalsFit(pc[th], call[th])
      BY <2>1, Locals DEF TypeOK, LogAdjusted
    <3>2. call[th].agent \in Agents /\ call[th].verdict \in AgentEvents
      BY <3>1 DEF LocalsFit, AgentEvents
    <3> QED BY <2>1, <3>2 DEF LogAdjusted, AgentLogStep
  <2>2. CASE ~ LogAdjusted(th)
    BY <1>4, <2>2 DEF Proceed, AssignRouted, PassGate, HoldAtGate, SavePending, LogPending,
         LogApproved, StartApproved, LogRejected, WorkerReturns, WorkerRaises, LogFailed,
         Score, CheckerRaises, CutWindow, LogEscalated, LogCompleted, Review,
         AdjustAutonomy, LogFeedback, SnapshotAgent, CommitAgent, RecordResult,
         LogSwitch, AgentLogStep
  <2> QED BY <2>1, <2>2
<1> QED BY <1>1, <1>2, <1>3, <1>4 DEF Next

\* So the trail never accounts for less than it did.
LEMMA BackedStays ==
    ASSUME TypeOK, [Next]_vars, NEW a \in Agents, NEW level, Backed(a, level)
    PROVE  Backed(a, level)'
<1>1. agentLog \in [Agents -> [AgentEvents -> Nat]]
  BY DEF TypeOK, AuditType
<1>2. \A e \in AgentEvents : /\ agentLog[a][e] \in Nat /\ agentLog'[a][e] \in Nat
                             /\ agentLog'[a][e] >= agentLog[a][e]
  <2>1. CASE UNCHANGED agentLog
    BY <1>1, <2>1
  <2>2. ASSUME NEW b \in Agents, NEW f \in AgentEvents,
               agentLog' = [agentLog EXCEPT ![b][f] = @ + 1]
        PROVE  \A e \in AgentEvents : /\ agentLog[a][e] \in Nat /\ agentLog'[a][e] \in Nat
                                      /\ agentLog'[a][e] >= agentLog[a][e]
    BY <1>1, <2>2
  <2> QED BY <2>1, <2>2, OneAdjustment DEF AgentLogStep
<1>3. PICK ups \in 0..agentLog[a]["PROMOTED"], downs \in 0..agentLog[a]["DEMOTED"] :
        level = InitialLevel[a] + ups - downs
  BY DEF Backed
<1>4. ups \in 0..agentLog'[a]["PROMOTED"] /\ downs \in 0..agentLog'[a]["DEMOTED"]
  BY <1>2 DEF AgentEvents
<1> QED BY <1>3, <1>4 DEF Backed

\* The level an agent is registered with needs no adjustment.
LEMMA FirstBacked ==
    ASSUME AuditType, NEW a \in Agents
    PROVE  Backed(a, InitialLevel[a])
<1>1. agentLog[a]["PROMOTED"] \in Nat /\ agentLog[a]["DEMOTED"] \in Nat
  BY DEF AuditType, AgentEvents
<1>2. InitialLevel[a] \in Int
  BY RosterAssumption DEF Levels
<1>3. 0 \in 0..agentLog[a]["PROMOTED"] /\ 0 \in 0..agentLog[a]["DEMOTED"]
      /\ InitialLevel[a] = InitialLevel[a] + 0 - 0
  BY <1>1, <1>2
<1> QED BY <1>3 DEF Backed

-------------------------------------------------------------------------------
(* The inductive invariant: so is every level in memory, but for one that  *)
(* was just moved and whose event its thread logs next, and every level a  *)
(* thread has read and is about to move or to write.                       *)

\* Where the processes have one thread each, nobody can save a profile between
\* the move of its level and the event.
OneThreadEach == \A th1, th2 \in Threads : ProcOf[th1] = ProcOf[th2] => th1 = th2

CallBacked(step, c) ==
    /\ step \in {"adjust", "log_adjusted"} => Backed(c.agent, c.level)
    /\ step = "commit" => Backed(c.agent, c.snap.level)

MovedLevel(c) == IF c.verdict = "PROMOTED" THEN c.level + 1 ELSE c.level - 1

Adjusting(p, a) ==
    \E th \in Threads :
        /\ ProcOf[th] = p /\ call[th].agent = a /\ pc[th] = "log_adjusted"
        /\ standing[p][a].level = MovedLevel(call[th])

MemoryBacked ==
    \A p \in Procs, a \in Agents : Backed(a, standing[p][a].level) \/ Adjusting(p, a)

LevelsBacked ==
    /\ MemoryBacked
    /\ LevelBacked
    /\ \A th \in Threads : CallBacked(pc[th], call[th])

\* The other threads do not move, and what they have read stays backed.
LEMMA OthersBacked ==
    ASSUME TypeOK, [Next]_vars, LevelsBacked, NEW o \in Threads,
           pc'[o] = pc[o], call'[o] = call[o]
    PROVE  CallBacked(pc[o], call[o])'
<1>1. LocalsFit(pc[o], call[o])
  BY Locals DEF TypeOK
<1>2. pc[o] \in {"adjust", "log_adjusted", "commit"} => call[o].agent \in Agents
  BY <1>1 DEF LocalsFit
<1> QED BY <1>2, BackedStays DEF LevelsBacked, CallBacked

\* A thread that is alone in its process and has logged what it did finds every
\* level of its process backed.
LEMMA OwnLevelsBacked ==
    ASSUME OneThreadEach, LevelsBacked, NEW th \in Threads, pc[th] # "log_adjusted"
    PROVE  \A a \in Agents : Backed(a, standing[ProcOf[th]][a].level)
BY Home DEF OneThreadEach, LevelsBacked, MemoryBacked, Adjusting

Others(th) == \A o \in Threads \ {th} : pc'[o] = pc[o] /\ call'[o] = call[o]
SameLevels ==
    /\ \A p \in Procs, a \in Agents : standing'[p][a].level = standing[p][a].level
    /\ UNCHANGED dbAgents

\* A step that moves no level, and after which its thread has read backed ones.
LEMMA LevelsKept ==
    ASSUME TypeOK, [Next]_vars, LevelsBacked, NEW th \in Threads,
           Others(th), SameLevels, pc[th] # "log_adjusted", CallBacked(pc[th], call[th])'
    PROVE  LevelsBacked'
<1>1. \A o \in Threads : CallBacked(pc[o], call[o])'
  BY OthersBacked DEF Others
<1>2. MemoryBacked'
  <2> SUFFICES ASSUME NEW p \in Procs, NEW a \in Agents
               PROVE  (Backed(a, standing[p][a].level) \/ Adjusting(p, a))'
    BY DEF MemoryBacked
  <2>1. standing'[p][a].level = standing[p][a].level
    BY DEF SameLevels
  <2>2. CASE Backed(a, standing[p][a].level)
    BY <2>1, <2>2, BackedStays DEF Backed
  <2>3. CASE Adjusting(p, a)
    BY <2>1, <2>3 DEF Adjusting, Others, MovedLevel
  <2> QED BY <2>2, <2>3 DEF LevelsBacked, MemoryBacked
<1>3. LevelBacked'
  <2> SUFFICES ASSUME NEW a \in Agents, dbAgents'[a] # None
               PROVE  Backed(a, dbAgents[a].level)'
    BY DEF LevelBacked
  <2>1. Backed(a, dbAgents[a].level) /\ dbAgents'[a] = dbAgents[a]
    BY DEF SameLevels, LevelsBacked, LevelBacked
  <2> QED BY <2>1, BackedStays DEF Backed
<1> QED BY <1>1, <1>2, <1>3 DEF LevelsBacked

\* Another field of a profile changes.
LEMMA FieldKeepsLevel ==
    ASSUME MemoryType, NEW th \in Threads, NEW a \in Agents, NEW s,
           s.level = standing[ProcOf[th]][a].level,
           standing' = [standing EXCEPT ![ProcOf[th]][a] = s]
    PROVE  \A p \in Procs, b \in Agents : standing'[p][b].level = standing[p][b].level
BY Home DEF MemoryType

-------------------------------------------------------------------------------
(* One lemma for each way a step treats the levels.                        *)

\* No request reads or moves a level.
LEMMA RequestBacked ==
    ASSUME TypeOK, [Next]_vars, LevelsBacked, NEW th \in Threads, Request(th)
    PROVE  LevelsBacked'
<1> USE DEF TypeOK, ThreadType
<1>1. ASSUME NEW a \in Agents, PauseAgent(th, a) \/ ResumeAgent(th, a) PROVE LevelsBacked'
  <2>1. Others(th) /\ pc'[th] = "snap" /\ pc[th] # "log_adjusted"
    BY <1>1 DEF PauseAgent, ResumeAgent, Goto, Others, Idle
  <2>2. PICK b \in BOOLEAN : standing' = [standing EXCEPT ![ProcOf[th]][a].paused = b]
    BY <1>1 DEF PauseAgent, ResumeAgent
  <2>3. SameLevels
    <3> DEFINE s == [standing[ProcOf[th]][a] EXCEPT !.paused = b]
    <3>1. s.level = standing[ProcOf[th]][a].level
      BY StandingAt DEF Standings, StandingOf
    <3>2. standing' = [standing EXCEPT ![ProcOf[th]][a] = s]
      BY <2>2
    <3>3. UNCHANGED dbAgents
      BY <1>1 DEF PauseAgent, ResumeAgent
    <3> HIDE DEF s
    <3> QED BY <3>1, <3>2, <3>3, FieldKeepsLevel DEF SameLevels
  <2> QED BY <2>1, <2>3, LevelsKept DEF CallBacked
<1>2. CASE \/ \E a \in Agents, t \in Tasks : AssignTask(th, a, t)
           \/ \E t \in Tasks : RouteTask(th, t) \/ ApproveTask(th, t) \/ RejectTask(th, t)
  <2>1. Others(th) /\ SameLevels
    BY <1>2 DEF AssignTask, Admit, RouteTask, ApproveTask, RejectTask, TakePending,
                Return, Goto, Others, SameLevels
  <2>2. pc[th] # "log_adjusted" /\ pc'[th] \notin {"adjust", "log_adjusted", "commit"}
    <3>1. CASE \E a \in Agents, t \in Tasks : AssignTask(th, a, t)
      BY <3>1 DEF AssignTask, Admit, Return, Goto, Idle
    <3>2. CASE \E t \in Tasks : RouteTask(th, t) \/ ApproveTask(th, t) \/ RejectTask(th, t)
      BY <3>2 DEF RouteTask, ApproveTask, RejectTask, TakePending, Goto, Idle
    <3> QED BY <1>2, <3>1, <3>2
  <2> QED BY <2>1, <2>2, LevelsKept DEF CallBacked
<1>3. ASSUME NEW t \in Tasks, NEW x \in Scores, RecordHumanFeedback(th, t, x)
      PROVE  LevelsBacked'
  <2> DEFINE p == ProcOf[th]
             r == IF results[p][t] # None THEN results[p][t] ELSE dbResults[t]
             w == ApplyFeedback(standing[p][r.agent].window, r.score, x)
             s == [standing[p][r.agent] EXCEPT !.window = w]
  <2>1. /\ Others(th) /\ UNCHANGED dbAgents
        /\ pc'[th] = "log_feedback" /\ pc[th] # "log_adjusted"
    BY <1>3 DEF RecordHumanFeedback, Goto, Others, Idle
  <2>2. r.agent \in Agents
    BY <1>3, Home DEF RecordHumanFeedback, MemoryType, DatabaseType, Result
  <2>3. s.level = standing[p][r.agent].level
    BY <2>2, StandingAt DEF Standings, StandingOf
  <2>4. standing' = [standing EXCEPT ![p][r.agent] = s]
    BY <1>3 DEF RecordHumanFeedback
  <2> HIDE DEF s
  <2>5. SameLevels
    BY <2>1, <2>2, <2>3, <2>4, FieldKeepsLevel DEF SameLevels
  <2> QED BY <2>1, <2>5, LevelsKept DEF CallBacked
<1> QED BY <1>1, <1>2, <1>3 DEF Request

\* maybe_adjust_autonomy reads the level (policy.py 27-31) ...
LEMMA ReviewBacked ==
    ASSUME OneThreadEach, TypeOK, [Next]_vars, LevelsBacked, NEW th \in Threads, Review(th)
    PROVE  LevelsBacked'
<1> DEFINE a == call[th].agent
           s == standing[ProcOf[th]][a]
<1> USE DEF TypeOK, ThreadType
<1>1. Others(th) /\ pc[th] # "log_adjusted"
  BY DEF Review, Goto, Others
<1>2. SameLevels /\ UNCHANGED agentLog
  BY DEF Review, SameLevels
<1>3. a \in Agents /\ call[th] \in Calls
  BY Locals DEF Review, LocalsFit
<1>4. CASE pc'[th] = "snap"
  BY <1>1, <1>2, <1>4, LevelsKept DEF CallBacked
<1>5. CASE pc'[th] # "snap"
  <2>1. PICK v : /\ call' = [call EXCEPT ![th].level = s.level, ![th].verdict = v]
                 /\ pc'[th] = "adjust"
    BY <1>5 DEF Review, Goto
  <2>2. call'[th].agent = a /\ call'[th].level = s.level
    BY <1>3, <2>1 DEF Calls
  <2>3. Backed(a, s.level)
    BY <1>1, <1>3, OwnLevelsBacked
  <2>4. CallBacked(pc[th], call[th])'
    BY <1>2, <2>1, <2>2, <2>3 DEF CallBacked, Backed
  <2> QED BY <1>1, <1>2, <2>4, LevelsKept
<1> QED BY <1>4, <1>5

\* ... writes the neighbour of what it read, which the event it logs next will
\* back ...
LEMMA AdjustBacked ==
    ASSUME TypeOK, [Next]_vars, LevelsBacked, NEW th \in Threads, AdjustAutonomy(th)
    PROVE  LevelsBacked'
<1> PICK a \in Agents : a = call[th].agent
  BY Locals DEF TypeOK, AdjustAutonomy
<1> PICK next : next = MovedLevel(call[th])
  OBVIOUS
<1>1. Others(th) /\ pc[th] = "adjust" /\ pc'[th] = "log_adjusted" /\ call' = call
  BY DEF AdjustAutonomy, Goto, Others, TypeOK, ThreadType
<1>2. standing' = [standing EXCEPT ![ProcOf[th]][a].level = next]
      /\ UNCHANGED <<dbAgents, agentLog>>
  BY DEF AdjustAutonomy, MovedLevel
<1>3. standing \in [Procs -> [Agents -> Standings]]
  BY DEF TypeOK, MemoryType
<1>4. \A o \in Threads : CallBacked(pc[o], call[o])'
  <2>1. CallBacked(pc[th], call[th])'
    BY <1>1, <1>2 DEF LevelsBacked, CallBacked, Backed
  <2> QED BY <1>1, <2>1, OthersBacked DEF Others
<1>5. MemoryBacked'
  <2> SUFFICES ASSUME NEW p \in Procs, NEW b \in Agents
               PROVE  (Backed(b, standing[p][b].level) \/ Adjusting(p, b))'
    BY DEF MemoryBacked
  <2>1. CASE p = ProcOf[th] /\ b = a
    <3>1. standing'[p][b].level = next
      BY <1>2, <1>3, <2>1 DEF Standings, StandingOf
    <3> QED BY <1>1, <2>1, <3>1 DEF Adjusting, MovedLevel
  <2>2. CASE ~ (p = ProcOf[th] /\ b = a)
    <3>1. standing'[p][b] = standing[p][b]
      BY <1>2, <1>3, <2>2, Home
    <3>2. CASE Backed(b, standing[p][b].level)
      BY <3>1, <3>2, BackedStays DEF Backed
    <3>3. CASE Adjusting(p, b)
      BY <1>1, <3>1, <3>3 DEF Adjusting, Others, MovedLevel
    <3> QED BY <3>2, <3>3 DEF LevelsBacked, MemoryBacked
  <2> QED BY <2>1, <2>2
<1>6. LevelBacked'
  BY <1>2 DEF LevelsBacked, LevelBacked, Backed
<1> QED BY <1>4, <1>5, <1>6 DEF LevelsBacked

\* ... and logs the one adjustment more that backs the new level.
LEMMA LogAdjustedBacked ==
    ASSUME TypeOK, [Next]_vars, LevelsBacked, NEW th \in Threads, LogAdjusted(th)
    PROVE  LevelsBacked'
<1> PICK a \in Agents, v \in AgentEvents :
        pc[th] = "log_adjusted" /\ a = call[th].agent /\ v = call[th].verdict
  BY Locals DEF TypeOK, LogAdjusted, LocalsFit, AgentEvents
<1> PICK next : next = MovedLevel(call[th])
  OBVIOUS
<1>1. v = "PROMOTED" \/ v = "DEMOTED"
  BY DEF AgentEvents
<1>2. Others(th) /\ pc'[th] = "snap" /\ UNCHANGED <<standing, dbAgents>>
  BY AdjustedLocals DEF LogAdjusted, Others, TypeOK
<1>3. agentLog' = [agentLog EXCEPT ![a][v] = @ + 1]
      /\ agentLog \in [Agents -> [AgentEvents -> Nat]]
  BY DEF LogAdjusted, TypeOK, AuditType
<1>4. PICK ups \in 0..agentLog[a]["PROMOTED"], downs \in 0..agentLog[a]["DEMOTED"] :
        call[th].level = InitialLevel[a] + ups - downs
  BY DEF LevelsBacked, CallBacked, Backed
<1>5. InitialLevel[a] \in Int
  BY RosterAssumption DEF Levels
<1>6. Backed(a, next)'
  <2>1. CASE v = "PROMOTED"
    <3>1. agentLog'[a]["PROMOTED"] = agentLog[a]["PROMOTED"] + 1
          /\ agentLog'[a]["DEMOTED"] = agentLog[a]["DEMOTED"]
          /\ agentLog[a]["PROMOTED"] \in Nat /\ agentLog[a]["DEMOTED"] \in Nat
      BY <1>1, <1>3, <2>1 DEF AgentEvents
    <3>2. ups + 1 \in 0..agentLog'[a]["PROMOTED"] /\ downs \in 0..agentLog'[a]["DEMOTED"]
          /\ next = InitialLevel[a] + (ups + 1) - downs
      BY <1>4, <1>5, <2>1, <3>1 DEF MovedLevel
    <3> QED BY <3>2 DEF Backed
  <2>2. CASE v = "DEMOTED"
    <3>1. agentLog'[a]["DEMOTED"] = agentLog[a]["DEMOTED"] + 1
          /\ agentLog'[a]["PROMOTED"] = agentLog[a]["PROMOTED"]
          /\ agentLog[a]["PROMOTED"] \in Nat /\ agentLog[a]["DEMOTED"] \in Nat
      BY <1>1, <1>3, <2>2 DEF AgentEvents
    <3>2. ups \in 0..agentLog'[a]["PROMOTED"] /\ downs + 1 \in 0..agentLog'[a]["DEMOTED"]
          /\ next = InitialLevel[a] + ups - (downs + 1)
      BY <1>4, <1>5, <2>2, <3>1 DEF MovedLevel
    <3> QED BY <3>2 DEF Backed
  <2> QED BY <1>1, <2>1, <2>2
<1>7. \A o \in Threads : CallBacked(pc[o], call[o])'
  <2>1. CallBacked(pc[th], call[th])'
    BY <1>2 DEF CallBacked
  <2> QED BY <1>2, <2>1, OthersBacked DEF Others
<1>8. MemoryBacked'
  <2> SUFFICES ASSUME NEW p \in Procs, NEW b \in Agents
               PROVE  (Backed(b, standing[p][b].level) \/ Adjusting(p, b))'
    BY DEF MemoryBacked
  <2>1. CASE Backed(b, standing[p][b].level)
    BY <1>2, <2>1, BackedStays DEF Backed
  <2>2. ASSUME NEW o \in Threads, ProcOf[o] = p, call[o].agent = b,
               pc[o] = "log_adjusted", standing[p][b].level = MovedLevel(call[o])
        PROVE  (Backed(b, standing[p][b].level) \/ Adjusting(p, b))'
    <3>1. CASE o = th
      BY <1>2, <1>6, <2>2, <3>1 DEF Backed
    <3>2. CASE o # th
      BY <1>2, <2>2, <3>2 DEF Adjusting, Others, MovedLevel
    <3> QED BY <3>1, <3>2
  <2> QED BY <2>1, <2>2 DEF LevelsBacked, MemoryBacked, Adjusting
<1>9. LevelBacked'
  <2> SUFFICES ASSUME NEW b \in Agents, dbAgents'[b] # None
               PROVE  Backed(b, dbAgents[b].level)'
    BY DEF LevelBacked
  <2>1. Backed(b, dbAgents[b].level)
    BY <1>2 DEF LevelsBacked, LevelBacked
  <2> QED BY <1>2, <2>1, BackedStays DEF Backed
<1> QED BY <1>7, <1>8, <1>9 DEF LevelsBacked

\* save_agent reads the level it will commit, and commits it.
LEMMA SaveBacked ==
    ASSUME OneThreadEach, TypeOK, [Next]_vars, LevelsBacked, NEW th \in Threads,
           SnapshotAgent(th) \/ CommitAgent(th)
    PROVE  LevelsBacked'
<1> USE DEF TypeOK, ThreadType
<1> PICK a \in Agents : a = call[th].agent
  BY Locals DEF SnapshotAgent, CommitAgent
<1>1. Others(th) /\ pc[th] # "log_adjusted"
  BY DEF SnapshotAgent, CommitAgent, Goto, Return, Others
<1>2. CASE SnapshotAgent(th)
  <2>1. SameLevels /\ UNCHANGED agentLog
    BY <1>2 DEF SnapshotAgent, SameLevels
  <2>2. pc'[th] = "commit" /\ call[th] \in Calls
        /\ call' = [call EXCEPT ![th].snap = standing[ProcOf[th]][a]]
    BY <1>2, Locals DEF SnapshotAgent, Goto
  <2>3. call'[th].agent = a /\ call'[th].snap = standing[ProcOf[th]][a]
    BY <2>2 DEF Calls
  <2>4. Backed(a, standing[ProcOf[th]][a].level)
    BY <1>1, OwnLevelsBacked
  <2>5. CallBacked(pc[th], call[th])'
    BY <2>1, <2>2, <2>3, <2>4 DEF CallBacked, Backed
  <2> QED BY <1>1, <2>1, <2>5, LevelsKept
<1>3. CASE CommitAgent(th)
  <2>1. pc'[th] \notin {"adjust", "log_adjusted", "commit"} /\ pc[th] = "commit"
    BY <1>3 DEF CommitAgent, Goto, Return
  <2>2. Backed(a, call[th].snap.level)
    BY <2>1 DEF LevelsBacked, CallBacked
  <2>3. \A o \in Threads : CallBacked(pc[o], call[o])'
    BY <1>1, <2>1, OthersBacked DEF Others, CallBacked
  <2>4. MemoryBacked'
    <3>1. UNCHANGED standing
      BY <1>3 DEF CommitAgent
    <3> SUFFICES ASSUME NEW p \in Procs, NEW b \in Agents
                 PROVE  (Backed(b, standing[p][b].level) \/ Adjusting(p, b))'
      BY DEF MemoryBacked
    <3>2. CASE Backed(b, standing[p][b].level)
      BY <3>1, <3>2, BackedStays DEF Backed
    <3>3. CASE Adjusting(p, b)
      BY <1>1, <3>1, <3>3 DEF Adjusting, Others, MovedLevel
    <3> QED BY <3>2, <3>3 DEF LevelsBacked, MemoryBacked
  <2>5. LevelBacked'
    <3>1. dbAgents' = [dbAgents EXCEPT ![a] = call[th].snap]
          /\ DOMAIN dbAgents = Agents
      BY <1>3 DEF CommitAgent, DatabaseType
    <3> SUFFICES ASSUME NEW b \in Agents, dbAgents'[b] # None
                 PROVE  Backed(b, dbAgents[b].level)'
      BY DEF LevelBacked
    <3>2. Backed(b, dbAgents'[b].level)
      BY <2>2, <3>1 DEF LevelsBacked, LevelBacked
    <3> QED BY <3>2, BackedStays DEF Backed
  <2> QED BY <2>3, <2>4, <2>5 DEF LevelsBacked
<1> QED BY <1>2, <1>3

\* _execute puts the score into the window, cuts it and counts the task: the
\* level stays.
LEMMA ScoreBacked ==
    ASSUME TypeOK, [Next]_vars, LevelsBacked, NEW th \in Threads,
           CutWindow(th) \/ \E x \in Scores : Score(th, x)
    PROVE  LevelsBacked'
<1> USE DEF TypeOK, ThreadType
<1> DEFINE p == ProcOf[th]
           a == call[th].agent
<1>1. /\ Others(th) /\ UNCHANGED dbAgents
      /\ pc[th] # "log_adjusted" /\ pc'[th] \in {"cut", "log_escalated", "log_completed"}
  <2>1. CASE CutWindow(th)
    BY <2>1, CutLocals DEF CutWindow, Others
  <2>2. CASE \E x \in Scores : Score(th, x)
    BY <2>2 DEF Score, Goto, Others
  <2> QED BY <2>1, <2>2
<1>2. a \in Agents
  BY Locals DEF Score, CutWindow
<1>3. SameLevels
  <2>1. CASE CutWindow(th)
    <3> DEFINE s == [standing[p][a] EXCEPT !.window = LatestScores(standing[p][a].window),
                                           !.count = standing[p][a].count + 1]
    <3>1. s.level = standing[p][a].level
      BY <1>2, StandingAt DEF Standings, StandingOf
    <3>2. standing' = [standing EXCEPT ![p][a] = s]
      BY <1>2, <2>1, Home DEF CutWindow, MemoryType, Standings, StandingOf
    <3> HIDE DEF s
    <3> QED BY <1>1, <1>2, <3>1, <3>2, FieldKeepsLevel DEF SameLevels
  <2>2. ASSUME NEW x \in Scores, Score(th, x) PROVE SameLevels
    <3> DEFINE s == [standing[p][a] EXCEPT !.window = Append(standing[p][a].window, x)]
    <3>1. s.level = standing[p][a].level
      BY <1>2, StandingAt DEF Standings, StandingOf
    <3>2. standing' = [standing EXCEPT ![p][a] = s]
      BY <2>2 DEF Score
    <3> HIDE DEF s
    <3> QED BY <1>1, <1>2, <3>1, <3>2, FieldKeepsLevel DEF SameLevels
  <2> QED BY <2>1, <2>2
<1> QED BY <1>1, <1>3, LevelsKept DEF CallBacked

\* The other steps of a call neither read a level nor move one.
LEMMA OtherStepsBacked ==
    ASSUME TypeOK, [Next]_vars, LevelsBacked, NEW th \in Threads,
           \/ AssignRouted(th) \/ PassGate(th) \/ HoldAtGate(th) \/ SavePending(th)
           \/ LogPending(th) \/ LogApproved(th) \/ StartApproved(th) \/ LogRejected(th)
           \/ WorkerReturns(th) \/ WorkerRaises(th) \/ LogFailed(th)
           \/ CheckerRaises(th) \/ LogEscalated(th) \/ LogCompleted(th)
           \/ LogFeedback(th) \/ RecordResult(th) \/ LogSwitch(th)
    PROVE  LevelsBacked'
<1> USE DEF TypeOK, ThreadType
<1>1. SameLevels
  BY DEF AssignRouted, PassGate, HoldAtGate, SavePending, LogPending, LogApproved,
         StartApproved, LogRejected, WorkerReturns, WorkerRaises, LogFailed,
         CheckerRaises, LogEscalated, LogCompleted, LogFeedback, RecordResult,
         LogSwitch, SameLevels
<1>2. /\ Others(th)
      /\ pc[th] # "log_adjusted" /\ pc'[th] \notin {"adjust", "log_adjusted", "commit"}
  BY DEF AssignRouted, Admit, PassGate, Begin, HoldAtGate, SavePending, LogPending,
         LogApproved, StartApproved, LogRejected, WorkerReturns, WorkerRaises, LogFailed,
         CheckerRaises, LogEscalated, LogCompleted, LogFeedback, RecordResult,
         LogSwitch, Goto, Return, Others
<1> QED BY <1>1, <1>2, LevelsKept DEF CallBacked

\* A process starts from the database, and registers what it has never seen.
LEMMA StartBacked ==
    ASSUME TypeOK, [Next]_vars, LevelsBacked, NEW p \in Procs, StartProcess(p)
    PROVE  LevelsBacked'
<1>1. \A a \in Agents : Backed(a, FirstProfile(a).level)
  BY FirstBacked DEF FirstProfile, TypeOK
<1>2. \A a \in Agents : Backed(a, Loaded(a).level)
  BY <1>1 DEF Loaded, LevelsBacked, LevelBacked
<1>3. \A o \in Threads : CallBacked(pc[o], call[o])'
  BY OthersBacked DEF StartProcess
<1>4. MemoryBacked'
  <2> SUFFICES ASSUME NEW q \in Procs, NEW a \in Agents
               PROVE  (Backed(a, standing[q][a].level) \/ Adjusting(q, a))'
    BY DEF MemoryBacked
  <2>1. \/ standing'[q][a] = standing[q][a]
        \/ standing'[q][a] = FirstProfile(a)
        \/ standing'[q][a] = Loaded(a)
    BY DEF StartProcess, TypeOK, MemoryType
  <2>2. CASE standing'[q][a] # standing[q][a] \/ Backed(a, standing[q][a].level)
    <3>1. Backed(a, standing'[q][a].level)
      BY <1>1, <1>2, <2>1, <2>2
    <3> QED BY <3>1, BackedStays DEF Backed
  <2>3. CASE standing'[q][a] = standing[q][a] /\ Adjusting(q, a)
    BY <2>3 DEF Adjusting, StartProcess, MovedLevel
  <2> QED BY <2>2, <2>3 DEF LevelsBacked, MemoryBacked
<1>5. LevelBacked'
  <2> SUFFICES ASSUME NEW a \in Agents, dbAgents'[a] # None
               PROVE  Backed(a, dbAgents[a].level)'
    BY DEF LevelBacked
  <2>1. dbAgents'[a] = Loaded(a) \/ dbAgents'[a] = dbAgents[a]
    BY DEF StartProcess
  <2>2. Backed(a, dbAgents'[a].level)
    BY <1>2, <2>1 DEF LevelsBacked, LevelBacked
  <2> QED BY <2>2, BackedStays DEF Backed
<1> QED BY <1>3, <1>4, <1>5 DEF LevelsBacked

\* A process dies: the levels its threads had read die with it.
LEMMA EndBacked ==
    ASSUME TypeOK, [Next]_vars, LevelsBacked, NEW p \in Procs, EndProcess(p)
    PROVE  LevelsBacked'
<1>1. \A a \in Agents : Backed(a, FirstProfile(a).level)
  BY FirstBacked DEF FirstProfile, TypeOK
<1>2. \A o \in Threads : CallBacked(pc[o], call[o])'
  <2> SUFFICES ASSUME NEW o \in Threads PROVE CallBacked(pc[o], call[o])'
    OBVIOUS
  <2>1. CASE ProcOf[o] = p
    BY <2>1 DEF EndProcess, CallBacked
  <2>2. CASE ProcOf[o] # p
    BY <2>2, OthersBacked DEF EndProcess
  <2> QED BY <2>1, <2>2
<1>3. MemoryBacked'
  <2> SUFFICES ASSUME NEW q \in Procs, NEW a \in Agents
               PROVE  (Backed(a, standing[q][a].level) \/ Adjusting(q, a))'
    BY DEF MemoryBacked
  <2>1. CASE q = p \/ Backed(a, standing[q][a].level)
    <3>1. standing'[q][a] = FirstProfile(a) \/ (q # p /\ standing'[q][a] = standing[q][a])
      BY DEF EndProcess, NoStanding, TypeOK, MemoryType
    <3>2. Backed(a, standing'[q][a].level)
      BY <1>1, <2>1, <3>1
    <3> QED BY <3>2, BackedStays DEF Backed
  <2>2. CASE q # p /\ Adjusting(q, a)
    <3>1. standing'[q] = standing[q]
      BY <2>2 DEF EndProcess, TypeOK, MemoryType
    <3> QED BY <2>2, <3>1 DEF Adjusting, EndProcess, MovedLevel
  <2> QED BY <2>1, <2>2 DEF LevelsBacked, MemoryBacked
<1>4. LevelBacked'
  <2> SUFFICES ASSUME NEW a \in Agents, dbAgents'[a] # None
               PROVE  Backed(a, dbAgents[a].level)'
    BY DEF LevelBacked
  <2>1. dbAgents' = dbAgents
    BY DEF EndProcess
  <2>2. Backed(a, dbAgents[a].level)
    BY <2>1 DEF LevelsBacked, LevelBacked
  <2> QED BY <2>1, <2>2, BackedStays DEF Backed
<1> QED BY <1>2, <1>3, <1>4 DEF LevelsBacked

\* Nobody has a level at first but the one the roster gives it.
LEMMA InitBacked == Init => LevelsBacked
<1> SUFFICES ASSUME Init PROVE LevelsBacked
  OBVIOUS
<1>1. \A a \in Agents : Backed(a, FirstProfile(a).level)
  BY InitType, FirstBacked DEF FirstProfile, TypeOK
<1> QED BY <1>1 DEF Init, LevelsBacked, MemoryBacked, LevelBacked, CallBacked, NoStanding,
                    NoTask

\* No step gives anybody a level that is not backed.
LEMMA NextBacked ==
    ASSUME OneThreadEach
    PROVE  TypeOK /\ LevelsBacked /\ [Next]_vars => LevelsBacked'
<1> SUFFICES ASSUME TypeOK, LevelsBacked, [Next]_vars PROVE LevelsBacked'
  OBVIOUS
<1>1. CASE UNCHANGED vars
  BY <1>1 DEF vars, LevelsBacked, MemoryBacked, LevelBacked, CallBacked, Backed, Adjusting,
              MovedLevel
<1>2. ASSUME NEW p \in Procs, StartProcess(p) \/ EndProcess(p) PROVE LevelsBacked'
  BY <1>2, StartBacked, EndBacked
<1>3. ASSUME NEW th \in Threads, Request(th) PROVE LevelsBacked'
  BY <1>3, RequestBacked
<1>4. ASSUME NEW th \in Threads, Proceed(th) PROVE LevelsBacked'
  BY <1>4, ReviewBacked, AdjustBacked, LogAdjustedBacked, SaveBacked, ScoreBacked,
     OtherStepsBacked DEF Proceed
<1> QED BY <1>1, <1>2, <1>3, <1>4 DEF Next

\* The durable level of an agent never claims more than the audit trail shows,
\* for every roster, any number of processes over the database, and wherever
\* they die, as long as each has one thread: policy.py moves the level (29, 31)
\* before it logs the move (37), and a second thread may save it in between.
THEOREM LevelsAreBacked ==
    ASSUME OneThreadEach
    PROVE  Spec => []LevelBacked
<1>1. Init => LevelsBacked
  BY InitBacked
<1>2. TypeOK /\ LevelsBacked /\ [Next]_vars => LevelsBacked'
  BY NextBacked
<1>3. LevelsBacked => LevelBacked
  BY DEF LevelsBacked
<1> QED BY <1>1, <1>2, <1>3, TypeCorrect, PTL DEF Spec

-------------------------------------------------------------------------------
(* The window.  A score goes in before the window is cut (supervisor.py    *)
(* 220, 222), and a verdict before it is logged (feedback.py 52, 54): until *)
(* then a window in memory may be one too long.  Where the processes have  *)
(* one thread each, nobody can save the profile in between, and what is on *)
(* disk, or in the hands of a thread about to save it, is cut.             *)

Room == EvaluationWindow + Cardinality(Verdicts)

Lengthened == {"cut", "log_feedback"}

Longer(p, a) ==
    \E th \in Threads :
        ProcOf[th] = p /\ call[th].agent = a /\ pc[th] \in Lengthened

WindowFits(p, a) ==
    \/ Len(standing[p][a].window) <= Room
    \/ Longer(p, a) /\ Len(standing[p][a].window) <= Room + 1

Saved ==
    {dbAgents[a] : a \in {b \in Agents : dbAgents[b] # None}}
    \cup {call[th].snap : th \in {o \in Threads : pc[o] = "commit"}}

WindowsFit ==
    /\ IsFiniteSet(Verdicts)
    /\ \A p \in Procs, a \in Agents : WindowFits(p, a)
    /\ \A s \in Saved : Len(s.window) <= Room

VerdictLogged == \E t \in Tasks : Log(t, "HUMAN_FEEDBACK_APPLIED")

\* An event adds at most one verdict, and a verdict adds one.
LEMMA VerdictsGrow ==
    ASSUME TypeOK, [Next]_vars, IsFiniteSet(Verdicts)
    PROVE  /\ IsFiniteSet(Verdicts)'
           /\ Cardinality(Verdicts) \in Nat /\ Cardinality(Verdicts)' \in Nat
           /\ Cardinality(Verdicts)' >= Cardinality(Verdicts)
           /\ VerdictLogged => Cardinality(Verdicts)' = Cardinality(Verdicts) + 1
<1> DEFINE f == "HUMAN_FEEDBACK_APPLIED"
           One(t) == <<t, taskLog[t][f] + 1>>
<1>1. taskLog \in [Tasks -> [TaskEvents -> Nat]] /\ f \in TaskEvents
  BY DEF TypeOK, AuditType, TaskEvents
<1>2. Cardinality(Verdicts) \in Nat
  BY FS_CardinalityType
<1>3. CASE UNCHANGED taskLog
  <2>1. Verdicts' = Verdicts
    BY <1>3 DEF Verdicts
  <2>2. ~ VerdictLogged
    BY <1>1, <1>3 DEF VerdictLogged, Log
  <2> QED BY <1>2, <2>1, <2>2
<1>4. ASSUME NEW t \in Tasks, NEW e \in TaskEvents, Log(t, e), e # f
      PROVE  Verdicts' = Verdicts /\ ~ VerdictLogged
  <2>1. \A u \in Tasks : taskLog'[u][f] = taskLog[u][f]
    BY <1>1, <1>4 DEF Log
  <2> QED BY <1>1, <2>1 DEF Verdicts, VerdictLogged, Log
<1>5. ASSUME NEW t \in Tasks, Log(t, f)
      PROVE  /\ Verdicts' = Verdicts \cup {One(t)}
             /\ One(t) \notin Verdicts
  <2>1. \A u \in Tasks : taskLog'[u][f] = IF u = t THEN taskLog[u][f] + 1 ELSE taskLog[u][f]
    BY <1>1, <1>5 DEF Log
  <2>2. \A u, n : <<u, n>> \in Verdicts <=> u \in Tasks /\ n \in 1..taskLog[u][f]
    BY DEF Verdicts
  <2>3. \A u, n : <<u, n>> \in Verdicts' <=> u \in Tasks /\ n \in 1..taskLog'[u][f]
    BY DEF Verdicts
  <2>4. \A u \in Tasks : \A n : n \in 1..taskLog'[u][f] <=>
                                   n \in 1..taskLog[u][f] \/ (u = t /\ n = taskLog[t][f] + 1)
    BY <1>1, <2>1
  <2>5. \A u, n : <<u, n>> = One(t) <=> u = t /\ n = taskLog[t][f] + 1
    OBVIOUS
  <2>6. \A x \in Verdicts \cup Verdicts' : \E u, n : x = <<u, n>>
    BY DEF Verdicts
  <2>7. \E u, n : One(t) = <<u, n>>
    OBVIOUS
  <2>8. One(t) \notin Verdicts
    BY <1>1, <2>2
  <2> HIDE DEF One
  <2> QED BY <2>2, <2>3, <2>4, <2>5, <2>6, <2>7, <2>8
<1>7. CASE VerdictLogged
  <2> PICK t \in Tasks : Log(t, f)
    BY <1>7 DEF VerdictLogged
  <2>1. PICK x : Verdicts' = Verdicts \cup {x} /\ x \notin Verdicts
    BY <1>5
  <2>2. /\ IsFiniteSet(Verdicts \cup {x})
        /\ Cardinality(Verdicts \cup {x}) = Cardinality(Verdicts) + 1
    BY <2>1, FS_AddElement
  <2> QED BY <1>2, <2>1, <2>2
<1>8. CASE ~ VerdictLogged
  <2>1. Verdicts' = Verdicts
    BY <1>3, <1>4, <1>8, OneEvent DEF LogStep, VerdictLogged, Verdicts
  <2> QED BY <1>2, <1>8, <2>1
<1> QED BY <1>7, <1>8

\* The room for scores is a number that only grows, by one for a verdict.
LEMMA RoomGrows ==
    ASSUME TypeOK, [Next]_vars, WindowsFit
    PROVE  /\ IsFiniteSet(Verdicts)'
           /\ Room \in Nat /\ Room' \in Nat /\ Room' >= Room /\ Room >= EvaluationWindow
           /\ VerdictLogged => Room' = Room + 1
BY VerdictsGrow, EvaluationWindowAssumption DEF WindowsFit, Room

\* Every window is a sequence of scores.
LEMMA WindowLengths ==
    ASSUME TypeOK
    PROVE  /\ \A p \in Procs, a \in Agents : Len(standing[p][a].window) \in Nat
           /\ \A s \in Saved : Len(s.window) \in Nat
<1>1. \A th \in Threads : pc[th] = "commit" => call[th].snap \in Standings
  BY DEF TypeOK, ThreadType, LocalsFit
<1>2. Saved \subseteq Standings
  BY <1>1 DEF TypeOK, DatabaseType, Saved
<1> QED BY <1>2 DEF TypeOK, MemoryType, Standings, StandingOf

\* A new profile starts with an empty window.
LEMMA FirstWindow == \A a : Len(FirstProfile(a).window) = 0
BY DEF FirstProfile

-------------------------------------------------------------------------------
(* One lemma for each way a step treats the windows.                       *)

\* A thread that is alone in its process finds every window there cut, but for
\* the one it has just made longer.
LEMMA OwnWindowsFit ==
    ASSUME OneThreadEach, WindowsFit, NEW th \in Threads, NEW a \in Agents,
           pc[th] \in Lengthened => a # call[th].agent
    PROVE  Len(standing[ProcOf[th]][a].window) <= Room
BY Home DEF OneThreadEach, WindowsFit, WindowFits, Longer

\* A window that the step of a thread leaves alone stays short enough, unless it
\* is the one that thread had made longer.
LEMMA WindowStays ==
    ASSUME TypeOK, [Next]_vars, WindowsFit, NEW th \in Threads, Others(th),
           NEW p \in Procs, NEW a \in Agents,
           standing'[p][a].window = standing[p][a].window,
           pc[th] \in Lengthened => ~ (p = ProcOf[th] /\ a = call[th].agent)
    PROVE  WindowFits(p, a)'
<1>1. Len(standing[p][a].window) \in Nat
  BY WindowLengths
<1>2. CASE Len(standing[p][a].window) <= Room
  BY <1>1, <1>2, RoomGrows DEF WindowFits
<1>3. CASE Longer(p, a) /\ Len(standing[p][a].window) <= Room + 1
  <2>1. Longer(p, a)'
    BY <1>3 DEF Longer, Others
  <2> QED BY <1>1, <1>3, <2>1, RoomGrows DEF WindowFits
<1> QED BY <1>2, <1>3 DEF WindowsFit, WindowFits

\* What is on disk, or about to be saved, stays short enough in a step after
\* which its thread is not about to save.
LEMMA SavedStays ==
    ASSUME TypeOK, [Next]_vars, WindowsFit, NEW th \in Threads, Others(th),
           UNCHANGED dbAgents, pc'[th] # "commit"
    PROVE  \A s \in Saved' : Len(s.window) <= Room'
<1>1. \A s \in Saved' : s \in Saved
  BY DEF Saved, Others
<1> QED BY <1>1, RoomGrows, WindowLengths DEF WindowsFit

SameWindows ==
    /\ \A p \in Procs, a \in Agents : standing'[p][a].window = standing[p][a].window
    /\ UNCHANGED dbAgents

\* A step that touches no window.
LEMMA WindowsKept ==
    ASSUME TypeOK, [Next]_vars, WindowsFit, NEW th \in Threads, Others(th),
           SameWindows, pc[th] \notin Lengthened, pc'[th] # "commit"
    PROVE  WindowsFit'
<1>1. \A p \in Procs, a \in Agents : WindowFits(p, a)'
  BY WindowStays DEF SameWindows
<1>2. \A s \in Saved' : Len(s.window) <= Room'
  BY SavedStays DEF SameWindows
<1> QED BY <1>1, <1>2, RoomGrows DEF WindowsFit

\* A step that changes one profile of its process: its window is short enough
\* after the step, or at most one longer and the thread has yet to cut or log it.
LEMMA OneWindow ==
    ASSUME TypeOK, [Next]_vars, WindowsFit, NEW th \in Threads, Others(th),
           NEW a \in Agents, NEW new \in Standings,
           standing' = [standing EXCEPT ![ProcOf[th]][a] = new],
           pc[th] \in Lengthened => a = call[th].agent,
           UNCHANGED dbAgents, pc'[th] # "commit",
           \/ Len(new.window) <= Room
           \/ /\ Len(new.window) <= Room + 1
              /\ call'[th].agent = a /\ pc'[th] \in Lengthened
    PROVE  WindowsFit'
<1>1. ASSUME NEW p \in Procs, NEW b \in Agents, ~ (p = ProcOf[th] /\ b = a)
      PROVE  WindowFits(p, b)'
  <2>1. standing'[p][b] = standing[p][b]
    BY <1>1, Home DEF TypeOK, MemoryType
  <2> QED BY <1>1, <2>1, WindowStays
<1>2. WindowFits(ProcOf[th], a)'
  <2>1. standing'[ProcOf[th]][a] = new
    BY Home DEF TypeOK, MemoryType
  <2>2. Len(new.window) \in Nat
    BY DEF Standings, StandingOf
  <2>3. CASE Len(new.window) <= Room
    BY <2>1, <2>2, <2>3, RoomGrows DEF WindowFits
  <2>4. CASE Len(new.window) <= Room + 1 /\ call'[th].agent = a /\ pc'[th] \in Lengthened
    BY <2>1, <2>2, <2>4, RoomGrows DEF WindowFits, Longer
  <2> QED BY <2>3, <2>4
<1>3. \A s \in Saved' : Len(s.window) <= Room'
  BY SavedStays
<1> QED BY <1>1, <1>2, <1>3, RoomGrows DEF WindowsFit

\* The requests: a switch keeps the window, and a verdict (feedback.py 45-52)
\* makes it one longer at most.
LEMMA RequestWindows ==
    ASSUME OneThreadEach, TypeOK, [Next]_vars, WindowsFit, NEW th \in Threads, Request(th)
    PROVE  WindowsFit'
<1> USE DEF TypeOK, ThreadType
<1>1. ASSUME NEW a \in Agents, PauseAgent(th, a) \/ ResumeAgent(th, a) PROVE WindowsFit'
  <2>1. Others(th) /\ pc[th] \notin Lengthened /\ pc'[th] = "snap"
    BY <1>1 DEF PauseAgent, ResumeAgent, Goto, Others, Idle, Lengthened
  <2>2. PICK b \in BOOLEAN : standing' = [standing EXCEPT ![ProcOf[th]][a].paused = b]
    BY <1>1 DEF PauseAgent, ResumeAgent
  <2> DEFINE new == [standing[ProcOf[th]][a] EXCEPT !.paused = b]
  <2>3. standing' = [standing EXCEPT ![ProcOf[th]][a] = new] /\ UNCHANGED dbAgents
    BY <1>1, <2>2 DEF PauseAgent, ResumeAgent
  <2>4. new \in Standings /\ new.window = standing[ProcOf[th]][a].window
    BY Home, StandingAt DEF Standings, StandingOf
  <2>5. Len(standing[ProcOf[th]][a].window) <= Room
    BY <2>1, OwnWindowsFit
  <2> HIDE DEF new
  <2> QED BY <2>1, <2>3, <2>4, <2>5, OneWindow
<1>2. CASE \/ \E a \in Agents, t \in Tasks : AssignTask(th, a, t)
           \/ \E t \in Tasks : RouteTask(th, t) \/ ApproveTask(th, t) \/ RejectTask(th, t)
  <2>1. Others(th) /\ SameWindows
    BY <1>2 DEF AssignTask, Admit, RouteTask, ApproveTask, RejectTask, TakePending,
                Return, Goto, Others, SameWindows
  <2>2. pc[th] \notin Lengthened /\ pc'[th] # "commit"
    <3>1. CASE \E a \in Agents, t \in Tasks : AssignTask(th, a, t)
      BY <3>1 DEF AssignTask, Admit, Return, Goto, Idle, Lengthened
    <3>2. CASE \E t \in Tasks : RouteTask(th, t) \/ ApproveTask(th, t) \/ RejectTask(th, t)
      BY <3>2 DEF RouteTask, ApproveTask, RejectTask, TakePending, Goto, Idle, Lengthened
    <3> QED BY <1>2, <3>1, <3>2
  <2> QED BY <2>1, <2>2, WindowsKept
<1>3. ASSUME NEW t \in Tasks, NEW x \in Scores, RecordHumanFeedback(th, t, x)
      PROVE  WindowsFit'
  <2> DEFINE p == ProcOf[th]
             f == IF results[p][t] # None THEN results[p][t] ELSE dbResults[t]
             r == standing[p][f.agent]
             w == ApplyFeedback(r.window, f.score, x)
             new == [r EXCEPT !.window = w]
  <2>1. /\ Others(th) /\ UNCHANGED dbAgents
        /\ pc[th] \notin Lengthened /\ pc'[th] = "log_feedback"
    BY <1>3 DEF RecordHumanFeedback, Goto, Others, Idle, Lengthened
  <2>2. f.agent \in Agents
    BY <1>3, Home DEF RecordHumanFeedback, MemoryType, DatabaseType, Result
  <2>3. call'[th].agent = f.agent
    BY <1>3 DEF RecordHumanFeedback, NoCall
  <2>4. r \in Standings
    <3> HIDE DEF f
    <3> QED BY <2>2, Home, StandingAt
  <2>5. Len(w) \in {Len(r.window), Len(r.window) + 1} /\ new \in Standings
    <3>1. r.window \in Seq(Scores)
      BY <2>4 DEF Standings, StandingOf
    <3> HIDE DEF r, f
    <3>2. Len(w) \in {Len(r.window), Len(r.window) + 1} /\ w \in Seq(Scores)
      BY <3>1, ApplyFeedbackType
    <3> HIDE DEF w
    <3> QED BY <2>4, <3>2, StandingFields
  <2>6. new.window = w
    BY <2>4 DEF Standings, StandingOf
  <2>7. standing' = [standing EXCEPT ![p][f.agent] = new]
    BY <1>3 DEF RecordHumanFeedback
  <2>8. Len(r.window) <= Room /\ Len(r.window) \in Nat
    <3> HIDE DEF f
    <3> QED BY <2>1, <2>2, <2>4, OwnWindowsFit DEF Standings, StandingOf
  <2> HIDE DEF new, w, r
  <2>9. Len(new.window) <= Room + 1
    BY <2>5, <2>6, <2>8, RoomGrows
  <2> HIDE DEF f
  <2> QED BY <2>1, <2>2, <2>3, <2>5, <2>7, <2>9, OneWindow DEF Lengthened
<1> QED BY <1>1, <1>2, <1>3 DEF Request

\* A score (supervisor.py 220) makes the window one longer until it is cut
\* (221-222).
LEMMA ScoreWindows ==
    ASSUME OneThreadEach, TypeOK, [Next]_vars, WindowsFit, NEW th \in Threads,
           CutWindow(th) \/ \E x \in Scores : Score(th, x)
    PROVE  WindowsFit'
<1> USE DEF TypeOK, ThreadType
<1> DEFINE p == ProcOf[th]
           a == call[th].agent
           r == standing[p][a]
<1>1. a \in Agents /\ call[th] \in Calls
  BY Locals DEF Score, CutWindow
<1>2. r \in Standings /\ r.window \in Seq(Scores)
  BY <1>1, StandingAt DEF Standings, StandingOf
<1>3. ASSUME NEW x \in Scores, Score(th, x) PROVE WindowsFit'
  <2> DEFINE w == Append(r.window, x)
             new == [r EXCEPT !.window = w]
  <2>1. /\ Others(th) /\ UNCHANGED dbAgents
        /\ pc[th] \notin Lengthened /\ pc'[th] = "cut"
    BY <1>3 DEF Score, Goto, Others, Lengthened
  <2>2. call'[th].agent = a
    BY <1>1, <1>3 DEF Score, Calls
  <2>3. Len(r.window) <= Room /\ Len(r.window) \in Nat
    BY <1>1, <1>2, <2>1, OwnWindowsFit
  <2>4. w \in Seq(Scores) /\ Len(w) = Len(r.window) + 1
    BY <1>2
  <2>5. standing' = [standing EXCEPT ![p][a] = new]
    BY <1>3 DEF Score
  <2> HIDE DEF w, r
  <2>6. new \in Standings /\ new.window = w
    BY <1>2, <2>4, StandingFields DEF Standings, StandingOf
  <2> HIDE DEF new
  <2>7. Len(new.window) <= Room + 1
    BY <2>3, <2>4, <2>6, RoomGrows
  <2> QED BY <1>1, <2>1, <2>2, <2>5, <2>6, <2>7, OneWindow DEF Lengthened
<1>4. CASE CutWindow(th)
  <2> DEFINE w == LatestScores(r.window)
             new == [r EXCEPT !.window = w, !.count = r.count + 1]
  <2>1. /\ Others(th) /\ UNCHANGED dbAgents /\ pc'[th] # "commit"
    BY <1>4, CutLocals DEF CutWindow, Others
  <2>2. Len(w) <= EvaluationWindow /\ Len(w) \in Nat
    <3> HIDE DEF r
    <3>1. CASE r.window = <<>>
      BY <3>1, EvaluationWindowAssumption DEF LatestScores
    <3>2. CASE r.window # <<>>
      <4>1. Len(w) \in 1..EvaluationWindow
        BY <1>2, <3>2, LatestScoresBound
      <4> HIDE DEF w
      <4> QED BY <4>1, EvaluationWindowAssumption
    <3> QED BY <3>1, <3>2
  <2>3. new \in Standings /\ new.window = w
    BY <1>2, CompletedStanding DEF Standings, StandingOf
  <2>4. standing' = [standing EXCEPT ![p][a] = new]
    BY <1>1, <1>4, Home DEF CutWindow, MemoryType, Standings, StandingOf
  <2> HIDE DEF w, r, new
  <2>5. Len(new.window) <= Room
    BY <2>2, <2>3, RoomGrows, EvaluationWindowAssumption
  <2> QED BY <1>1, <2>1, <2>3, <2>4, <2>5, OneWindow
<1> QED BY <1>3, <1>4

\* The event (feedback.py 54) makes room for the verdict that was folded in.
LEMMA LogFeedbackWindows ==
    ASSUME TypeOK, [Next]_vars, WindowsFit, NEW th \in Threads, LogFeedback(th)
    PROVE  WindowsFit'
<1> USE DEF TypeOK, ThreadType
<1>1. Others(th) /\ SameWindows /\ pc'[th] # "commit"
  BY DEF LogFeedback, Goto, Others, SameWindows
<1>2. VerdictLogged
  BY Locals DEF LogFeedback, LocalsFit, VerdictLogged
<1>3. \A p \in Procs, a \in Agents : WindowFits(p, a)'
  <2> SUFFICES ASSUME NEW p \in Procs, NEW a \in Agents PROVE WindowFits(p, a)'
    OBVIOUS
  <2>1. Len(standing[p][a].window) \in Nat /\ standing'[p][a].window = standing[p][a].window
    BY <1>1, WindowLengths DEF SameWindows
  <2>2. Len(standing[p][a].window) <= Room + 1
    BY <2>1, RoomGrows DEF WindowsFit, WindowFits
  <2> QED BY <1>2, <2>1, <2>2, RoomGrows DEF WindowFits
<1>4. \A s \in Saved' : Len(s.window) <= Room'
  BY <1>1, SavedStays DEF SameWindows
<1> QED BY <1>3, <1>4, RoomGrows DEF WindowsFit

\* save_agent carries a window to the database as it was read.
LEMMA SaveWindows ==
    ASSUME OneThreadEach, TypeOK, [Next]_vars, WindowsFit, NEW th \in Threads,
           SnapshotAgent(th) \/ CommitAgent(th)
    PROVE  WindowsFit'
<1> USE DEF TypeOK, ThreadType
<1>1. PICK a \in Agents : a = call[th].agent
  BY Locals DEF SnapshotAgent, CommitAgent
<1>2. Others(th) /\ pc[th] \notin Lengthened /\ UNCHANGED standing
  BY DEF SnapshotAgent, CommitAgent, Goto, Return, Others, Lengthened
<1>3. \A p \in Procs, b \in Agents : WindowFits(p, b)'
  BY <1>2, WindowStays
<1>4. \A s \in Saved' : s \in Saved \/ s = standing[ProcOf[th]][a]
  <2>1. CASE SnapshotAgent(th)
    <3>1. call[th] \in Calls
      BY <2>1, Locals DEF SnapshotAgent
    <3>2. call'[th].snap = standing[ProcOf[th]][a] /\ UNCHANGED dbAgents
      BY <1>1, <2>1, <3>1 DEF SnapshotAgent, Calls
    <3> QED BY <1>2, <3>2 DEF Saved, Others
  <2>2. CASE CommitAgent(th)
    <3>1. pc'[th] # "commit"
      BY <2>2 DEF CommitAgent, Goto, Return
    <3>2. dbAgents' = [dbAgents EXCEPT ![a] = call[th].snap] /\ call[th].snap \in Saved
      BY <1>1, <2>2 DEF CommitAgent, Saved
    <3> QED BY <1>2, <3>1, <3>2 DEF Saved, Others, DatabaseType
  <2> QED BY <2>1, <2>2
<1>5. Len(standing[ProcOf[th]][a].window) <= Room
      /\ Len(standing[ProcOf[th]][a].window) \in Nat
  BY <1>2, Home, OwnWindowsFit, WindowLengths
<1>6. \A s \in Saved' : Len(s.window) <= Room'
  BY <1>4, <1>5, RoomGrows, WindowLengths DEF WindowsFit
<1> QED BY <1>3, <1>6, RoomGrows DEF WindowsFit

\* The other steps of a call touch no window.
LEMMA OtherStepsWindows ==
    ASSUME TypeOK, [Next]_vars, WindowsFit, NEW th \in Threads,
           \/ AssignRouted(th) \/ PassGate(th) \/ HoldAtGate(th) \/ SavePending(th)
           \/ LogPending(th) \/ LogApproved(th) \/ StartApproved(th) \/ LogRejected(th)
           \/ WorkerReturns(th) \/ WorkerRaises(th) \/ LogFailed(th)
           \/ CheckerRaises(th) \/ LogEscalated(th) \/ LogCompleted(th)
           \/ Review(th) \/ AdjustAutonomy(th) \/ LogAdjusted(th)
           \/ RecordResult(th) \/ LogSwitch(th)
    PROVE  WindowsFit'
<1> USE DEF TypeOK, ThreadType
<1>1. CASE AdjustAutonomy(th)
  <2>1. Others(th) /\ pc[th] \notin Lengthened /\ pc'[th] # "commit" /\ UNCHANGED dbAgents
    BY <1>1 DEF AdjustAutonomy, Goto, Others, Lengthened
  <2>2. PICK next : standing' = [standing EXCEPT ![ProcOf[th]][call[th].agent].level = next]
    BY <1>1 DEF AdjustAutonomy
  <2>3. \A p \in Procs, b \in Agents : standing'[p][b].window = standing[p][b].window
    BY <2>2, Home DEF MemoryType, Standings, StandingOf
  <2> QED BY <2>1, <2>3, WindowsKept DEF SameWindows
<1>2. CASE LogAdjusted(th)
  <2>1. Others(th) /\ pc[th] \notin Lengthened /\ pc'[th] # "commit"
    BY <1>2, AdjustedLocals DEF LogAdjusted, Others, Lengthened
  <2> QED BY <1>2, <2>1, WindowsKept DEF LogAdjusted, SameWindows
<1>3. CASE ~ AdjustAutonomy(th) /\ ~ LogAdjusted(th)
  <2>1. SameWindows
    BY <1>3 DEF AssignRouted, PassGate, HoldAtGate, SavePending, LogPending, LogApproved,
         StartApproved, LogRejected, WorkerReturns, WorkerRaises, LogFailed,
         CheckerRaises, LogEscalated, LogCompleted, Review, RecordResult, LogSwitch,
         SameWindows
  <2>2. Others(th) /\ pc[th] \notin Lengthened /\ pc'[th] # "commit"
    BY <1>3 DEF AssignRouted, Admit, PassGate, Begin, HoldAtGate, SavePending, LogPending,
         LogApproved, StartApproved, LogRejected, WorkerReturns, WorkerRaises, LogFailed,
         CheckerRaises, LogEscalated, LogCompleted, Review, RecordResult, LogSwitch, Goto,
         Return, Others, Lengthened
  <2> QED BY <2>1, <2>2, WindowsKept
<1> QED BY <1>1, <1>2, <1>3

\* A process that starts loads what was saved; one that ends only forgets.
LEMMA ProcessWindows ==
    ASSUME TypeOK, [Next]_vars, WindowsFit, NEW p \in Procs,
           StartProcess(p) \/ EndProcess(p)
    PROVE  WindowsFit'
<1>1. ASSUME NEW q \in Procs, NEW a \in Agents,
             \/ standing'[q][a] = FirstProfile(a)
             \/ standing'[q][a] \in Saved
      PROVE  WindowFits(q, a)'
  <2>1. Len(standing'[q][a].window) <= Room /\ Len(standing'[q][a].window) \in Nat
    BY <1>1, FirstWindow, RoomGrows, WindowLengths DEF WindowsFit
  <2> QED BY <2>1, RoomGrows DEF WindowFits
<1>2. ASSUME NEW q \in Procs, NEW a \in Agents, standing'[q][a] = standing[q][a],
             \A th \in Threads : ProcOf[th] = q => pc'[th] = pc[th] /\ call'[th] = call[th]
      PROVE  WindowFits(q, a)'
  <2>1. Longer(q, a) => Longer(q, a)'
    BY <1>2 DEF Longer
  <2>2. Len(standing'[q][a].window) \in Nat
    BY <1>2, WindowLengths
  <2> QED BY <1>2, <2>1, <2>2, RoomGrows DEF WindowsFit, WindowFits
<1>3. CASE StartProcess(p)
  <2>1. \A a \in Agents : Loaded(a) = FirstProfile(a) \/ Loaded(a) \in Saved
    BY DEF Loaded, Saved
  <2>2. \A q \in Procs, a \in Agents : WindowFits(q, a)'
    <3> SUFFICES ASSUME NEW q \in Procs, NEW a \in Agents PROVE WindowFits(q, a)'
      OBVIOUS
    <3>1. \/ standing'[q][a] = standing[q][a]
          \/ standing'[q][a] = FirstProfile(a)
          \/ standing'[q][a] = Loaded(a)
      BY <1>3 DEF StartProcess, TypeOK, MemoryType
    <3>2. UNCHANGED <<pc, call>>
      BY <1>3 DEF StartProcess
    <3> QED BY <1>1, <1>2, <2>1, <3>1, <3>2
  <2>3. \A s \in Saved' : s \in Saved \/ \E a \in Agents : s = FirstProfile(a)
    <3>1. \A a \in Agents : dbAgents'[a] = dbAgents[a] \/ dbAgents'[a] = Loaded(a)
      BY <1>3 DEF StartProcess
    <3>2. UNCHANGED <<pc, call>>
      BY <1>3 DEF StartProcess
    <3> QED BY <2>1, <3>1, <3>2 DEF Saved
  <2>4. \A s \in Saved' : Len(s.window) <= Room'
    BY <2>3, FirstWindow, RoomGrows, WindowLengths DEF WindowsFit
  <2> QED BY <2>2, <2>4, RoomGrows DEF WindowsFit
<1>4. CASE EndProcess(p)
  <2>1. \A q \in Procs, a \in Agents : WindowFits(q, a)'
    <3> SUFFICES ASSUME NEW q \in Procs, NEW a \in Agents PROVE WindowFits(q, a)'
      OBVIOUS
    <3>1. CASE q = p
      <4>1. standing'[q][a] = FirstProfile(a)
        BY <1>4, <3>1 DEF EndProcess, NoStanding, TypeOK, MemoryType
      <4> QED BY <1>1, <4>1
    <3>2. CASE q # p
      <4>1. standing'[q][a] = standing[q][a]
        BY <1>4, <3>2 DEF EndProcess, TypeOK, MemoryType
      <4>2. \A th \in Threads : ProcOf[th] = q => pc'[th] = pc[th] /\ call'[th] = call[th]
        BY <1>4, <3>2 DEF EndProcess
      <4> QED BY <1>2, <4>1, <4>2
    <3> QED BY <3>1, <3>2
  <2>2. \A s \in Saved' : s \in Saved
    <3>1. \A o \in Threads : pc'[o] = "commit" => pc[o] = "commit" /\ call'[o] = call[o]
      BY <1>4 DEF EndProcess
    <3>2. UNCHANGED dbAgents
      BY <1>4 DEF EndProcess
    <3> QED BY <3>1, <3>2 DEF Saved
  <2>3. \A s \in Saved' : Len(s.window) <= Room'
    BY <2>2, RoomGrows, WindowLengths DEF WindowsFit
  <2> QED BY <2>1, <2>3, RoomGrows DEF WindowsFit
<1> QED BY <1>3, <1>4

\* No step puts a window on disk longer than the verdicts logged by then explain.
LEMMA WindowsNext ==
    ASSUME OneThreadEach
    PROVE  TypeOK /\ WindowsFit /\ [Next]_vars => WindowsFit'
<1> SUFFICES ASSUME TypeOK, WindowsFit, [Next]_vars PROVE WindowsFit'
  OBVIOUS
<1>1. CASE UNCHANGED vars
  BY <1>1 DEF vars, WindowsFit, WindowFits, Longer, Room, Verdicts, Saved
<1>2. ASSUME NEW p \in Procs, StartProcess(p) \/ EndProcess(p) PROVE WindowsFit'
  BY <1>2, ProcessWindows
<1>3. ASSUME NEW th \in Threads, Request(th) PROVE WindowsFit'
  BY <1>3, RequestWindows
<1>4. ASSUME NEW th \in Threads, Proceed(th) PROVE WindowsFit'
  BY <1>4, ScoreWindows, LogFeedbackWindows, SaveWindows, OtherStepsWindows DEF Proceed
<1> QED BY <1>1, <1>2, <1>3, <1>4 DEF Next

\* At first every window is empty and nobody gave a verdict.
LEMMA InitWindows == Init => WindowsFit
<1> SUFFICES ASSUME Init PROVE WindowsFit
  OBVIOUS
<1>1. Verdicts = {}
  <2>1. \A t \in Tasks : taskLog[t]["HUMAN_FEEDBACK_APPLIED"] = 0
    BY DEF Init, TaskEvents
  <2>2. 1..0 = {}
    OBVIOUS
  <2> QED BY <2>1, <2>2 DEF Verdicts
<1>2. /\ \A p \in Procs, a \in Agents : standing[p][a] = FirstProfile(a)
      /\ Saved = {}
  BY DEF Init, Saved, NoStanding
<1>3. IsFiniteSet(Verdicts) /\ Room \in Nat
  BY <1>1, FS_EmptySet, EvaluationWindowAssumption DEF Room
<1> QED BY <1>2, <1>3, FirstWindow DEF WindowsFit, WindowFits

\* The durable trust window is the last EvaluationWindow scores (supervisor.py
\* 221-222 cuts it after every task), and longer only by verdicts the trail
\* shows, for any number of processes over the database, and wherever they die,
\* as long as each has one thread: a second one may save the window between the
\* append (220) and the cut, or between a verdict and its event (feedback.py 52,
\* 54).
THEOREM WindowsAreBounded ==
    ASSUME OneThreadEach
    PROVE  Spec => []WindowBounded
<1>1. Init => WindowsFit
  BY InitWindows
<1>2. TypeOK /\ WindowsFit /\ [Next]_vars => WindowsFit'
  BY WindowsNext
<1>3. WindowsFit => WindowBounded
  BY DEF WindowsFit, WindowBounded, Saved, Room
<1> QED BY <1>1, <1>2, <1>3, TypeCorrect, PTL DEF Spec
===============================================================================

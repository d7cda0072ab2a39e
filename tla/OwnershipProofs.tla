--------------------------- MODULE OwnershipProofs ----------------------------
(***************************************************************************)
(* Who works on a task: two threads of a process never work on one task,   *)
(* the slots of an agent are exactly its running tasks, and a task the     *)
(* approval gate held back starts only after a human approved it, once for *)
(* each approval.                                                          *)
(*                                                                         *)
(* The invariant behind all three says that a task just submitted is known *)
(* to its thread alone, and that a task some thread of a process works on  *)
(* is not in that process's queue of pending approvals.  The one behind    *)
(* the last counts the calls between an approval and a start, so the proof *)
(* needs finitely many threads.                                            *)
(***************************************************************************)
EXTENDS AuditTrailProofs

USE DEF memory, database, audit, history

\* The thread works on the task, or is about to finish holding it.
Works(th, t) == call[th].op = "task" /\ call[th].task = t
Holds(th, t) == call[th].op \in {"task", "held"} /\ call[th].task = t

\* No approver can find the task, and it has neither been held nor started.
Fresh(t) ==
    /\ dbPending[t] = None
    /\ \A p \in Procs : pending[p][t] = None
    /\ t \notin gated
    /\ taskLog[t]["TASK_EXECUTION_STARTED"] = 0

\* Nobody has heard of a task before it is submitted.
UnissuedFresh ==
    \A t \in Tasks \ issued : Fresh(t) /\ \A th \in Threads : ~ Holds(th, t)

\* Until the gate, a task belongs to the thread that submitted it.
GateExclusive ==
    \A th \in Threads :
        pc[th] \in {"routed", "gate"} =>
            /\ Fresh(call[th].task)
            /\ \A o \in Threads \ {th} : ~ Holds(o, call[th].task)

\* A task somebody works on is not in the queue of that process.
OffTheQueue ==
    \A th \in Threads, t \in Tasks : Works(th, t) => pending[ProcOf[th]][t] = None

Ownership == UnissuedFresh /\ GateExclusive /\ OffTheQueue /\ OneOwner

\* A thread past the gate, or starting something else, goes on with its task or
\* drops it; only the holder of a task touches its row and its start.
Carries(th) ==
    /\ Moved(th)
    /\ pc'[th] \notin {"routed", "gate"}
    /\ \/ /\ call'[th].task = call[th].task
          /\ call'[th].op = call[th].op
       \/ call'[th].op \notin {"task", "held"}
    /\ UNCHANGED <<pending, gated, issued>>
    /\ \A t \in Tasks : ~ Holds(th, t) =>
            /\ dbPending'[t] = dbPending[t]
            /\ taskLog'[t]["TASK_EXECUTION_STARTED"] = taskLog[t]["TASK_EXECUTION_STARTED"]

\* A step that gives its thread no task it did not have keeps the ownership.
LEMMA CarriesOwnership ==
    ASSUME TypeOK, Ownership, NEW th \in Threads, Carries(th)
    PROVE  Ownership'
<1> USE DEF Ownership
<1>1. \A o \in Threads, t \in Tasks :
        /\ Holds(o, t)' => Holds(o, t)
        /\ Works(o, t)' => Works(o, t)
  BY DEF Carries, Moved, Holds, Works
<1>2. \A t \in Tasks : Fresh(t) /\ ~ Holds(th, t) => Fresh(t)'
  BY DEF Carries, Fresh
<1>3. \A o \in Threads : pc[o] \in {"routed", "gate"} => call[o].task \in Tasks
  BY Locals DEF TypeOK, WorkSteps
<1>4. UnissuedFresh'
  BY <1>1, <1>2 DEF UnissuedFresh, Carries
<1>5. GateExclusive'
  <2> SUFFICES ASSUME NEW o \in Threads, pc'[o] \in {"routed", "gate"}
               PROVE  /\ Fresh(call[o].task)'
                      /\ \A u \in Threads \ {o} : ~ Holds(u, call[o].task)'
    BY DEF GateExclusive
  <2>1. o # th /\ pc'[o] = pc[o] /\ call'[o] = call[o]
    BY DEF Carries, Moved
  <2>2. call[o].task \in Tasks
    BY <1>3, <2>1
  <2> QED BY <1>1, <1>2, <2>1, <2>2 DEF GateExclusive, Fresh, Holds
<1>6. OffTheQueue'
  BY <1>1 DEF OffTheQueue, Carries
<1>7. OneOwner'
  <2>1. \A o \in Threads : call'[o].op = "task" =>
            call[o].op = "task" /\ call[o].task = call'[o].task
    BY DEF Carries, Moved
  <2> QED BY <2>1 DEF OneOwner
<1> QED BY <1>4, <1>5, <1>6, <1>7

\* Every step of a call but a submission, the gate's hold and a decision.
LEMMA ProceedCarries ==
    ASSUME TypeOK, NEW th \in Threads, Proceed(th), ~ AssignRouted(th), ~ HoldAtGate(th)
    PROVE  Carries(th)
<1> USE DEF TypeOK, ThreadType
<1>0. call[th] \in Calls /\ LocalsFit(pc[th], call[th])
  OBVIOUS
<1>1. \A t \in Tasks, e \in TaskEvents :
        Log(call[th].task, e) /\ pc[th] \in WorkSteps \cup HoldSteps /\ ~ Holds(th, t)
            => taskLog'[t]["TASK_EXECUTION_STARTED"] = taskLog[t]["TASK_EXECUTION_STARTED"]
  BY <1>0 DEF Log, Holds, LocalsFit, AuditType
<1>2. CASE PassGate(th) \/ StartApproved(th)
  BY <1>0, <1>1, <1>2 DEF PassGate, StartApproved, Begin, Goto, Carries, Moved, TaskEvents,
                          WorkSteps
<1>3. CASE SavePending(th)
  BY <1>0, <1>3 DEF SavePending, Goto, Carries, Moved, Holds, LocalsFit, HoldSteps,
                    DatabaseType
<1>4. CASE LogPending(th) \/ LogApproved(th) \/ LogRejected(th) \/ LogFailed(th)
            \/ LogEscalated(th) \/ LogCompleted(th)
  <2>1. /\ pc' = [pc EXCEPT ![th] = pc'[th]] /\ UNCHANGED call
        /\ pc'[th] \notin {"routed", "gate"} /\ pc[th] \in WorkSteps \cup HoldSteps
        /\ UNCHANGED <<pending, gated, issued, dbPending>>
        /\ \E e \in TaskEvents : Log(call[th].task, e)
    BY <1>4 DEF LogPending, LogApproved, LogRejected, LogFailed, LogEscalated,
                LogCompleted, Goto, WorkSteps, HoldSteps, TaskEvents
  <2> QED BY <1>1, <2>1 DEF Carries, Moved
<1>5. CASE LogFeedback(th)
  <2>1. \A t \in Tasks :
            taskLog'[t]["TASK_EXECUTION_STARTED"] = taskLog[t]["TASK_EXECUTION_STARTED"]
    BY <1>5 DEF LogFeedback, Log, AuditType, TaskEvents
  <2> QED BY <1>5, <2>1 DEF LogFeedback, Goto, Carries, Moved
<1>6. CASE CheckerRaises(th) \/ LogSwitch(th)
  BY <1>6 DEF CheckerRaises, LogSwitch, Return, Goto, NoCall, Carries, Moved
<1>7. CASE WorkerReturns(th)
  BY <1>7 DEF WorkerReturns, Goto, Carries, Moved
<1>8. CASE \/ WorkerRaises(th) \/ Review(th) \/ AdjustAutonomy(th)
           \/ SnapshotAgent(th) \/ CommitAgent(th) \/ RecordResult(th)
           \/ (\E s \in Scores : Score(th, s)) \/ CutWindow(th) \/ LogAdjusted(th)
  <2>1. /\ UNCHANGED <<pending, gated, issued, dbPending, taskLog>>
        /\ pc' = [pc EXCEPT ![th] = pc'[th]]
        /\ pc'[th] \notin {"routed", "gate"}
    BY <1>8 DEF WorkerRaises, Review, AdjustAutonomy, SnapshotAgent, CommitAgent,
                RecordResult, Score, CutWindow, LogAdjusted, Goto, Return
  <2>2. \A o \in Threads \ {th} : call'[o] = call[o]
    BY <1>8 DEF WorkerRaises, Review, AdjustAutonomy, SnapshotAgent, CommitAgent,
                RecordResult, Score, CutWindow, LogAdjusted, Return
  <2>3. \/ call'[th].task = call[th].task /\ call'[th].op = call[th].op
        \/ call'[th].op = "none"
    <3>1. CASE WorkerRaises(th) \/ SnapshotAgent(th)
      BY <1>0, <3>1 DEF WorkerRaises, SnapshotAgent, Calls
    <3>2. CASE Review(th)
      BY <3>2, ReviewKeeps
    <3>4. CASE AdjustAutonomy(th)
      BY <3>4 DEF AdjustAutonomy
    <3>6. CASE \E s \in Scores : Score(th, s)
      BY <1>0, <3>6 DEF Score, Calls
    <3>5. CASE CutWindow(th) \/ LogAdjusted(th)
      BY <3>5, CutLocals, AdjustedLocals
    <3>3. CASE CommitAgent(th) \/ RecordResult(th)
      BY <1>0, <3>3 DEF CommitAgent, RecordResult, Return, NoCall, Calls
    <3> QED BY <1>8, <3>1, <3>2, <3>3, <3>4, <3>5, <3>6
  <2> QED BY <2>1, <2>2, <2>3 DEF Carries, Moved
<1> QED BY <1>2, <1>3, <1>4, <1>5, <1>6, <1>7, <1>8 DEF Proceed

\* Pausing, resuming and feedback hold no task.
LEMMA OtherRequestsCarry ==
    ASSUME TypeOK, NEW th \in Threads,
           \/ \E a \in Agents : PauseAgent(th, a) \/ ResumeAgent(th, a)
           \/ \E t \in Tasks, s \in Scores : RecordHumanFeedback(th, t, s)
    PROVE  Carries(th)
<1> USE DEF TypeOK, ThreadType
<1>1. \A t \in Tasks : taskLog'[t]["TASK_EXECUTION_STARTED"] = taskLog[t]["TASK_EXECUTION_STARTED"]
  <2>1. \/ UNCHANGED taskLog
        \/ \E u \in Tasks : Log(u, "HUMAN_FEEDBACK_APPLIED")
    BY DEF PauseAgent, ResumeAgent, RecordHumanFeedback
  <2> QED BY <2>1 DEF Log, AuditType, TaskEvents
<1>2. UNCHANGED <<pending, gated, issued, dbPending>>
  BY DEF PauseAgent, ResumeAgent, RecordHumanFeedback
<1>3. pc' = [pc EXCEPT ![th] = pc'[th]] /\ pc'[th] \in {"snap", "log_feedback"}
  BY DEF PauseAgent, ResumeAgent, RecordHumanFeedback, Goto
<1>4. call' = [call EXCEPT ![th] = call'[th]]
  BY DEF PauseAgent, ResumeAgent, RecordHumanFeedback
<1>5. call'[th].op \in {"pause", "resume", "feedback"}
  <2>1. CASE \E a \in Agents : PauseAgent(th, a) \/ ResumeAgent(th, a)
    <3>1. PICK a \in Agents, op \in {"pause", "resume"} :
            call' = [call EXCEPT ![th] = [NoCall EXCEPT !.op = op, !.agent = a]]
      BY <2>1 DEF PauseAgent, ResumeAgent
    <3>2. [NoCall EXCEPT !.op = op, !.agent = a].op = op
      BY DEF NoCall
    <3> QED BY <3>1, <3>2
  <2>2. CASE \E t \in Tasks, s \in Scores : RecordHumanFeedback(th, t, s)
    <3>1. PICK t \in Tasks, s \in Scores : RecordHumanFeedback(th, t, s)
      BY <2>2
    <3> DEFINE p == ProcOf[th]
               r == IF results[p][t] # None THEN results[p][t] ELSE dbResults[t]
               c == [NoCall EXCEPT !.op = "feedback", !.agent = r.agent, !.task = t,
                                   !.status = r.status, !.score = s]
    <3>2. call' = [call EXCEPT ![th] = c]
      BY <3>1 DEF RecordHumanFeedback
    <3>3. c.op = "feedback"
      BY DEF NoCall
    <3> HIDE DEF c
    <3> QED BY <3>2, <3>3
  <2> QED BY <2>1, <2>2
<1> QED BY <1>1, <1>2, <1>3, <1>4, <1>5 DEF Carries, Moved

\* A submitted task is the thread's own, and nobody's before.
LEMMA SubmitOwnership ==
    ASSUME TypeOK, Ownership, NEW th \in Threads, NEW t \in Tasks,
           t \notin issued, issued' = issued \cup {t}, Moved(th),
           UNCHANGED <<pending, dbPending, gated>>,
           \A u \in Tasks : taskLog'[u]["TASK_EXECUTION_STARTED"]
                                = taskLog[u]["TASK_EXECUTION_STARTED"],
           \/ call'[th].op \notin {"task", "held"} /\ pc'[th] = "idle"
           \/ call'[th].op = "task" /\ call'[th].task = t
    PROVE  Ownership'
<1> USE DEF Ownership
<1>1. Fresh(t) /\ \A o \in Threads : ~ Holds(o, t)
  BY DEF UnissuedFresh
<1>2. \A u \in Tasks : Fresh(u) => Fresh(u)'
  BY DEF Fresh
<1>3. \A o \in Threads, u \in Tasks :
        /\ o # th \/ u # t => (Holds(o, u)' => Holds(o, u))
        /\ o # th \/ u # t => (Works(o, u)' => Works(o, u))
  BY DEF Moved, Holds, Works
<1>4. \A o \in Threads : pc[o] \in {"routed", "gate"} => call[o].task \in Tasks
  BY Locals DEF TypeOK, WorkSteps
<1>5. UnissuedFresh'
  BY <1>2, <1>3 DEF UnissuedFresh
<1>6. GateExclusive'
  <2>1. ASSUME NEW o \in Threads \ {th}, pc'[o] \in {"routed", "gate"}
        PROVE  /\ Fresh(call[o].task)'
               /\ \A u \in Threads \ {o} : ~ Holds(u, call[o].task)'
    <3>1. pc'[o] = pc[o] /\ call'[o] = call[o] /\ call[o].task \in Tasks
      BY <1>4, <2>1 DEF Moved
    <3>2. Holds(o, call[o].task)
      BY <2>1, <3>1, Locals DEF Holds, TypeOK, LocalsFit, WorkSteps
    <3>3. call[o].task # t
      BY <1>1, <3>2
    <3> QED BY <1>2, <1>3, <2>1, <3>1, <3>3 DEF GateExclusive, Fresh, Holds
  <2>2. ASSUME pc'[th] \in {"routed", "gate"}
        PROVE  /\ Fresh(call[th].task)'
               /\ \A u \in Threads \ {th} : ~ Holds(u, call[th].task)'
    <3>1. call'[th].task = t
      BY <2>2
    <3> QED BY <1>1, <1>2, <1>3, <3>1 DEF Fresh, Holds
  <2> QED BY <2>1, <2>2 DEF GateExclusive
<1>7. OffTheQueue'
  BY <1>1, <1>3, Home DEF OffTheQueue, Fresh
<1>8. OneOwner'
  <2>1. \A o \in Threads \ {th} : call'[o] = call[o] /\ (call[o].op = "task" => call[o].task # t)
    BY <1>1 DEF Moved, Holds
  <2>2. call'[th].op = "task" => call'[th].task = t
    OBVIOUS
  <2> QED BY <2>1, <2>2 DEF OneOwner
<1> QED BY <1>5, <1>6, <1>7, <1>8

\* What a fresh call and an idle thread say about a task.
LEMMA TaskCallFields ==
    /\ \A a, t : /\ TaskCall(a, t).op = "task" /\ TaskCall(a, t).task = t
                 /\ TaskCall(a, t).agent = a
    /\ NoCall.op = "none" /\ NoCall.task = None
BY DEF TaskCall, NoCall

\* assign_task and route_task.
LEMMA SubmissionsOwn ==
    ASSUME TypeOK, Ownership, NEW th \in Threads,
           \/ \E a \in Agents, t \in Tasks : AssignTask(th, a, t)
           \/ \E t \in Tasks : RouteTask(th, t)
    PROVE  Ownership'
<1> USE DEF TypeOK, ThreadType
<1>1. \A e \in TaskEvents \ {"TASK_EXECUTION_STARTED"}, t, u \in Tasks :
        Log(t, e) => taskLog'[u]["TASK_EXECUTION_STARTED"] = taskLog[u]["TASK_EXECUTION_STARTED"]
  BY DEF Log, AuditType, TaskEvents
<1>2. ASSUME NEW a \in Agents, NEW t \in Tasks, AssignTask(th, a, t) PROVE Ownership'
  <2>1. /\ t \notin issued /\ issued' = issued \cup {t}
        /\ UNCHANGED <<pending, dbPending, gated>>
    BY <1>2 DEF AssignTask
  <2>2. \A u \in Tasks :
            taskLog'[u]["TASK_EXECUTION_STARTED"] = taskLog[u]["TASK_EXECUTION_STARTED"]
    BY <1>1, <1>2 DEF AssignTask, Admit, TaskEvents
  <2>3. \/ Return(th)
        \/ call' = [call EXCEPT ![th] = TaskCall(a, t)] /\ Goto(th, "gate")
    BY <1>2 DEF AssignTask, Admit
  <2>4. Moved(th)
    BY <2>3 DEF Return, Goto, Moved
  <2>5. \/ call'[th].op \notin {"task", "held"} /\ pc'[th] = "idle"
        \/ call'[th].op = "task" /\ call'[th].task = t
    BY <2>3, TaskCallFields DEF Return, Goto
  <2> QED BY <2>1, <2>2, <2>4, <2>5, SubmitOwnership
<1>3. ASSUME NEW t \in Tasks, RouteTask(th, t) PROVE Ownership'
  <2>1. /\ t \notin issued /\ issued' = issued \cup {t}
        /\ UNCHANGED <<pending, dbPending, gated>>
        /\ pc[th] = "idle"
    BY <1>3 DEF RouteTask, Idle
  <2>2. \A u \in Tasks :
            taskLog'[u]["TASK_EXECUTION_STARTED"] = taskLog[u]["TASK_EXECUTION_STARTED"]
    BY <1>1, <1>3 DEF RouteTask, TaskEvents
  <2>3. \/ UNCHANGED <<pc, call>>
        \/ \E a : call' = [call EXCEPT ![th] = TaskCall(a, t)] /\ Goto(th, "routed")
    BY <1>3 DEF RouteTask
  <2>4. Moved(th)
    BY <2>3 DEF Goto, Moved
  <2>5. call[th].op = "none"
    BY <2>1 DEF LocalsFit, NoCall
  <2>6. \/ call'[th].op \notin {"task", "held"} /\ pc'[th] = "idle"
        \/ call'[th].op = "task" /\ call'[th].task = t
    BY <2>1, <2>3, <2>5, TaskCallFields DEF Goto
  <2> QED BY <2>1, <2>2, <2>4, <2>6, SubmitOwnership
<1> QED BY <1>2, <1>3

\* A routed task goes on to the gate, or its call ends in a refusal.
LEMMA AssignRoutedOwns ==
    ASSUME TypeOK, Ownership, NEW th \in Threads, AssignRouted(th)
    PROVE  Ownership'
<1> USE DEF TypeOK, ThreadType, Ownership
<1>1. /\ call[th].task \in Tasks /\ call[th].op = "task"
      /\ pc[th] = "routed" /\ UNCHANGED <<pending, dbPending, gated, issued>>
  BY DEF AssignRouted, LocalsFit, WorkSteps
<1>2. \/ Return(th)
      \/ call' = [call EXCEPT ![th] = TaskCall(call[th].agent, call[th].task)]
            /\ Goto(th, "gate")
  BY DEF AssignRouted, Admit
<1>3. \A u \in Tasks :
        taskLog'[u]["TASK_EXECUTION_STARTED"] = taskLog[u]["TASK_EXECUTION_STARTED"]
  <2>1. \A e \in TaskEvents \ {"TASK_EXECUTION_STARTED"}, u \in Tasks :
          Log(call[th].task, e) =>
            taskLog'[u]["TASK_EXECUTION_STARTED"] = taskLog[u]["TASK_EXECUTION_STARTED"]
    BY <1>1 DEF Log, AuditType, TaskEvents
  <2> QED BY <2>1 DEF AssignRouted, Admit, TaskEvents
<1>4. Moved(th)
  BY <1>2 DEF Return, Goto, Moved
<1>5. CASE Return(th)
  <2>1. Carries(th)
    BY <1>1, <1>3, <1>4, <1>5, TaskCallFields DEF Carries, Return, Goto
  <2> QED BY <2>1, CarriesOwnership
<1>6. CASE call'[th].op = "task" /\ call'[th].task = call[th].task /\ pc'[th] = "gate"
  <2>1. \A o \in Threads, u \in Tasks : /\ Holds(o, u)' <=> Holds(o, u)
                                        /\ Works(o, u)' <=> Works(o, u)
    BY <1>1, <1>4, <1>6 DEF Moved, Holds, Works
  <2>2. \A u \in Tasks : Fresh(u)' <=> Fresh(u)
    BY <1>1, <1>3 DEF Fresh
  <2>3. UnissuedFresh'
    BY <1>1, <2>1, <2>2 DEF UnissuedFresh
  <2>4. GateExclusive'
    <3>1. \A o \in Threads : /\ pc'[o] \in {"routed", "gate"} => pc[o] \in {"routed", "gate"}
                             /\ call'[o].task = call[o].task
      BY <1>1, <1>4, <1>6 DEF Moved
    <3>2. \A o \in Threads : pc[o] \in {"routed", "gate"} => call[o].task \in Tasks
      BY Locals DEF WorkSteps
    <3>3. ASSUME NEW o \in Threads, pc'[o] \in {"routed", "gate"}
          PROVE  /\ Fresh(call[o].task)'
                 /\ \A u \in Threads \ {o} : ~ Holds(u, call[o].task)'
      <4>1. call'[o].task = call[o].task /\ call[o].task \in Tasks
            /\ pc[o] \in {"routed", "gate"}
        BY <3>1, <3>2, <3>3
      <4>2. Fresh(call[o].task) /\ \A u \in Threads \ {o} : ~ Holds(u, call[o].task)
        BY <4>1 DEF GateExclusive
      <4> QED BY <2>1, <2>2, <4>1, <4>2 DEF Fresh, Holds
    <3> QED BY <3>3 DEF GateExclusive
  <2>5. OffTheQueue'
    BY <1>1, <2>1 DEF OffTheQueue
  <2>6. OneOwner'
    BY <1>1, <1>4, <1>6 DEF OneOwner, Moved
  <2> QED BY <2>3, <2>4, <2>5, <2>6
<1> QED BY <1>2, <1>5, <1>6, TaskCallFields DEF Goto

\* The gate holds a task: it was the thread's own, and no longer is.
LEMMA HoldAtGateOwns ==
    ASSUME TypeOK, Ownership, NEW th \in Threads, HoldAtGate(th)
    PROVE  Ownership'
<1> DEFINE t == call[th].task
           p == ProcOf[th]
<1> USE DEF TypeOK, ThreadType, Ownership
<1>1. /\ t \in Tasks /\ call[th] \in Calls /\ p \in Procs
      /\ pc[th] = "gate" /\ call[th].op = "task"
  BY Home DEF HoldAtGate, LocalsFit, WorkSteps
<1>2. /\ UNCHANGED <<dbPending, issued, taskLog>> /\ gated' = gated \cup {t}
      /\ pending' = [pending EXCEPT ![p][t] = call[th].agent]
      /\ pc' = [pc EXCEPT ![th] = "save_pending"]
      /\ Moved(th)
  BY DEF HoldAtGate, Goto, Moved
<1>3. call'[th].op = "held" /\ call'[th].task = t
  BY <1>1 DEF HoldAtGate, Calls
<1>4. Holds(th, t) /\ \A o \in Threads \ {th} : ~ Holds(o, t)
  BY <1>1 DEF GateExclusive, Holds
<1>5. \A o \in Threads, u \in Tasks : /\ Holds(o, u)' => Holds(o, u)
                                      /\ Works(o, u)' => Works(o, u) /\ o # th
  BY <1>1, <1>2, <1>3 DEF Moved, Holds, Works
<1>6. \A u \in Tasks : u # t /\ Fresh(u) => Fresh(u)'
  BY <1>1, <1>2 DEF Fresh, MemoryType
<1>7. UnissuedFresh'
  BY <1>2, <1>4, <1>5, <1>6 DEF UnissuedFresh
<1>8. GateExclusive'
  <2>1. ASSUME NEW o \in Threads, pc'[o] \in {"routed", "gate"}
        PROVE  /\ Fresh(call[o].task)'
               /\ \A u \in Threads \ {o} : ~ Holds(u, call[o].task)'
    <3>1. o # th /\ pc'[o] = pc[o] /\ call'[o] = call[o]
      BY <1>2, <2>1 DEF Moved
    <3>2. call[o].task \in Tasks /\ Holds(o, call[o].task)
      BY <2>1, <3>1 DEF Holds, LocalsFit, WorkSteps
    <3>3. call[o].task # t
      BY <1>4, <3>1, <3>2
    <3> QED BY <1>5, <1>6, <2>1, <3>1, <3>2, <3>3 DEF GateExclusive, Fresh, Holds
  <2> QED BY <2>1 DEF GateExclusive
<1>9. OffTheQueue'
  <2>1. \A o \in Threads \ {th} : ~ Works(o, t)
    BY <1>4 DEF Holds, Works
  <2> QED BY <1>1, <1>2, <1>5, <2>1, Home DEF OffTheQueue, MemoryType
<1>10. OneOwner'
  BY <1>2, <1>3 DEF OneOwner, Moved
<1> QED BY <1>7, <1>8, <1>9, <1>10

\* A decision takes the task out of the queue, and the thread works on it if the
\* process knows the agent.
LEMMA DecisionOwns ==
    ASSUME TypeOK, Ownership, NEW th \in Threads, NEW t \in Tasks,
           ApproveTask(th, t) \/ RejectTask(th, t)
    PROVE  Ownership'
<1> DEFINE p == ProcOf[th]
<1> USE DEF TypeOK, ThreadType, Ownership
<1>1. /\ p \in Procs /\ pc[th] = "idle" /\ call[th].op = "none"
      /\ pending[p][t] # None
      /\ pending' = [pending EXCEPT ![p][t] = None]
      /\ dbPending' = [dbPending EXCEPT ![t] = None]
      /\ UNCHANGED <<gated, issued, taskLog>>
  BY Home, TaskCallFields DEF ApproveTask, RejectTask, TakePending, Idle, LocalsFit
<1>2. \/ UNCHANGED <<pc, call>>
      \/ /\ Moved(th) /\ pc'[th] \in {"approved", "rejected"}
         /\ call'[th].op = "task" /\ call'[th].task = t
  <2>1. CASE ApproveTask(th, t)
    BY <2>1, TaskCallFields DEF ApproveTask, Goto, Moved
  <2>2. CASE RejectTask(th, t)
    <3> DEFINE d == TaskCall(pending[p][t], t)
               c == [d EXCEPT !.status = "REJECTED"]
    <3>1. c.op = "task" /\ c.task = t
      <4>1. d.op = "task" /\ d.task = t
        BY TaskCallFields
      <4>2. c.op = d.op /\ c.task = d.task
        BY DEF TaskCall, NoCall
      <4> QED BY <4>1, <4>2
    <3>2. call' = [call EXCEPT ![th] = c] /\ pc' = [pc EXCEPT ![th] = "rejected"]
      BY <2>2 DEF RejectTask, Goto
    <3> HIDE DEF c
    <3> QED BY <3>1, <3>2 DEF Moved
  <2> QED BY <2>1, <2>2
<1>3. ~ Fresh(t)
  BY <1>1 DEF Fresh
<1>4. \A u \in Tasks : Fresh(u) => Fresh(u)'
  BY <1>1 DEF Fresh, MemoryType, DatabaseType
<1>5. \A o \in Threads, u \in Tasks :
        /\ o # th \/ u # t => (Holds(o, u)' => Holds(o, u))
        /\ o # th \/ u # t => (Works(o, u)' => Works(o, u))
  BY <1>2 DEF Moved, Holds, Works
<1>6. UnissuedFresh'
  BY <1>1, <1>3, <1>4, <1>5 DEF UnissuedFresh
<1>7. GateExclusive'
  <2>1. ASSUME NEW o \in Threads, pc'[o] \in {"routed", "gate"}
        PROVE  /\ Fresh(call[o].task)'
               /\ \A u \in Threads \ {o} : ~ Holds(u, call[o].task)'
    <3>1. o # th /\ pc'[o] = pc[o] /\ call'[o] = call[o]
      BY <1>1, <1>2, <2>1 DEF Moved
    <3>2. call[o].task \in Tasks /\ Fresh(call[o].task)
      BY <2>1, <3>1 DEF LocalsFit, WorkSteps, GateExclusive
    <3>3. call[o].task # t
      BY <1>3, <3>2
    <3> QED BY <1>4, <1>5, <2>1, <3>1, <3>2, <3>3 DEF GateExclusive, Fresh, Holds
  <2> QED BY <2>1 DEF GateExclusive
<1>8. OffTheQueue'
  <2>1. \A o \in Threads, u \in Tasks : pending[ProcOf[o]][u] = None => pending'[ProcOf[o]][u] = None
    BY <1>1, Home DEF MemoryType
  <2>2. pending'[p][t] = None
    BY <1>1 DEF MemoryType
  <2> QED BY <1>5, <2>1, <2>2 DEF OffTheQueue
<1>9. OneOwner'
  <2>1. \A o \in Threads : ProcOf[o] = p /\ call[o].op = "task" => call[o].task # t
    BY <1>1 DEF OffTheQueue, Works
  <2> QED BY <1>2, <2>1 DEF OneOwner, Moved
<1> QED BY <1>6, <1>7, <1>8, <1>9

\* A process that starts reads the queue and has no call in progress; one that
\* dies drops what it held.
LEMMA ProcessOwns ==
    ASSUME TypeOK, Ownership, NEW p \in Procs, StartProcess(p) \/ EndProcess(p)
    PROVE  Ownership'
<1> USE DEF TypeOK, ThreadType, Ownership
<1>1. UNCHANGED <<dbPending, gated, issued, taskLog>>
  BY DEF StartProcess, EndProcess
<1>2. \A o \in Threads : \/ pc'[o] = pc[o] /\ call'[o] = call[o]
                         \/ pc'[o] = "idle" /\ call'[o] = NoCall
  BY DEF StartProcess, EndProcess
<1>3. \A o \in Threads, u \in Tasks : /\ Holds(o, u)' => Holds(o, u)
                                      /\ Works(o, u)' => Works(o, u)
  BY <1>2, TaskCallFields DEF Holds, Works
<1>4. \/ StartProcess(p) /\ pending' = [pending EXCEPT ![p] = dbPending]
      \/ EndProcess(p) /\ pending' = [pending EXCEPT ![p] = NoTask]
  BY DEF StartProcess, EndProcess
<1>5. \A u \in Tasks : Fresh(u) => Fresh(u)'
  BY <1>1, <1>4 DEF Fresh, MemoryType, NoTask
<1>6. UnissuedFresh'
  BY <1>1, <1>3, <1>5 DEF UnissuedFresh
<1>7. GateExclusive'
  <2>1. ASSUME NEW o \in Threads, pc'[o] \in {"routed", "gate"}
        PROVE  /\ Fresh(call[o].task)'
               /\ \A u \in Threads \ {o} : ~ Holds(u, call[o].task)'
    <3>1. pc'[o] = pc[o] /\ call'[o] = call[o]
      BY <1>2, <2>1
    <3>2. call[o].task \in Tasks
      BY <2>1, <3>1 DEF LocalsFit, WorkSteps
    <3> QED BY <1>3, <1>5, <2>1, <3>1, <3>2 DEF GateExclusive, Fresh, Holds
  <2> QED BY <2>1 DEF GateExclusive
<1>8. OffTheQueue'
  <2>1. ASSUME NEW o \in Threads, NEW u \in Tasks, Works(o, u)'
        PROVE  pending'[ProcOf[o]][u] = None
    <3>1. Works(o, u) /\ pending[ProcOf[o]][u] = None
      BY <1>3, <2>1 DEF OffTheQueue
    <3>2. CASE ProcOf[o] # p
      BY <1>4, <3>1, <3>2, Home DEF MemoryType
    <3>3. CASE ProcOf[o] = p
      <4>1. EndProcess(p)
        BY <1>4, <3>1, <3>3, TaskCallFields DEF Works, StartProcess, LocalsFit
      <4> QED BY <3>3, <4>1 DEF EndProcess, MemoryType, NoTask
    <3> QED BY <3>2, <3>3
  <2> QED BY <2>1 DEF OffTheQueue
<1>9. OneOwner'
  BY <1>2, TaskCallFields DEF OneOwner
<1> QED BY <1>6, <1>7, <1>8, <1>9

\* Ownership is inductive: every operation of the supervisor keeps it.
LEMMA OwnershipNext == TypeOK /\ Ownership /\ [Next]_vars => Ownership'
<1> SUFFICES ASSUME TypeOK, Ownership, [Next]_vars PROVE Ownership'
  OBVIOUS
<1>1. CASE UNCHANGED vars
  BY <1>1 DEF vars, Ownership, UnissuedFresh, GateExclusive, OffTheQueue, OneOwner,
              Fresh, Holds, Works
<1>2. ASSUME NEW p \in Procs, StartProcess(p) \/ EndProcess(p) PROVE Ownership'
  BY <1>2, ProcessOwns
<1>3. ASSUME NEW th \in Threads, Request(th) PROVE Ownership'
  BY <1>3, SubmissionsOwn, DecisionOwns, OtherRequestsCarry, CarriesOwnership DEF Request
<1>4. ASSUME NEW th \in Threads, Proceed(th) PROVE Ownership'
  BY <1>4, AssignRoutedOwns, HoldAtGateOwns, ProceedCarries, CarriesOwnership
<1> QED BY <1>1, <1>2, <1>3, <1>4 DEF Next

\* Nothing is submitted, queued or in progress at the beginning.
LEMMA InitOwnership == Init => Ownership
<1> SUFFICES ASSUME Init PROVE Ownership
  OBVIOUS
<1>1. \A th \in Threads, t \in Tasks : ~ Holds(th, t) /\ ~ Works(th, t) /\ pc[th] = "idle"
  BY TaskCallFields DEF Init, Holds, Works
<1>2. \A t \in Tasks : Fresh(t)
  BY DEF Init, Fresh, NoTask, TaskEvents
<1>3. OneOwner
  BY TaskCallFields DEF Init, OneOwner
<1>4. UnissuedFresh
  BY <1>1, <1>2 DEF UnissuedFresh
<1>5. GateExclusive
  BY <1>1 DEF GateExclusive, Init
<1>6. OffTheQueue
  BY <1>1 DEF OffTheQueue
<1> QED BY <1>3, <1>4, <1>5, <1>6 DEF Ownership

\* The ownership of tasks is an invariant.
THEOREM Owned == Spec => []Ownership
BY InitOwnership, OwnershipNext, TypeCorrect, PTL DEF Spec

\* Two threads of a process never work on the same task: pending_approvals.pop
\* (supervisor.py 178, 188) hands it to one of two racing decisions only, and the
\* thread that holds it at the gate is done with it.
THEOREM OneOwnerEach == Spec => []OneOwner
<1>1. Ownership => OneOwner
  BY DEF Ownership
<1> QED BY <1>1, Owned, PTL

-------------------------------------------------------------------------------
(* The slots of an agent.                                                  *)

Runs(th, a, t) == pc[th] = "run" /\ call[th].agent = a /\ call[th].task = t

\* A step that neither starts nor ends the run of a worker.
LEMMA SlotsKept ==
    ASSUME SlotsExact, UNCHANGED active,
           \A th \in Threads, a \in Agents, t \in Tasks : Runs(th, a, t)' <=> Runs(th, a, t)
    PROVE  SlotsExact'
BY DEF SlotsExact, ThreadsOf, Runs

\* A thread steps outside of a run.
LEMMA SlotsOutside ==
    ASSUME SlotsExact, UNCHANGED active, NEW th \in Threads, Moved(th),
           pc[th] # "run", pc'[th] # "run"
    PROVE  SlotsExact'
BY SlotsKept DEF Moved, Runs

\* A worker starts: nobody else in the process runs the task.
LEMMA SlotsBegin ==
    ASSUME TypeOK, Ownership, SlotsExact, NEW th \in Threads,
           PassGate(th) \/ StartApproved(th)
    PROVE  SlotsExact'
<1> DEFINE q == ProcOf[th]
           b == call[th].agent
           u == call[th].task
<1> USE DEF TypeOK, ThreadType
<1>1. /\ q \in Procs /\ b \in Agents /\ u \in Tasks /\ call[th].op = "task"
      /\ pc[th] \in {"gate", "start"} /\ pc' = [pc EXCEPT ![th] = "run"] /\ UNCHANGED call
      /\ active' = [active EXCEPT ![q][b][u] = active[q][b][u] + 1]
  BY Home DEF PassGate, StartApproved, Begin, Goto, LocalsFit, WorkSteps
<1>2. \A o \in Threads : ProcOf[o] = q /\ pc[o] = "run" => call[o].task # u
  BY <1>1 DEF Ownership, OneOwner, LocalsFit, WorkSteps
<1>3. active[q][b][u] = 0
  BY <1>1, <1>2 DEF SlotsExact, ThreadsOf
<1>4. active'[q][b][u] = 1
  BY <1>1, <1>3 DEF MemoryType
<1>5. \A p \in Procs, a \in Agents, t \in Tasks :
        ~ (p = q /\ a = b /\ t = u) => active'[p][a][t] = active[p][a][t]
  BY <1>1 DEF MemoryType
<1>6. Runs(th, b, u)' /\ \A o \in Threads, a \in Agents, t \in Tasks :
        ~ (o = th /\ a = b /\ t = u) => (Runs(o, a, t)' <=> Runs(o, a, t))
  BY <1>1 DEF Runs
<1> QED BY <1>1, <1>4, <1>5, <1>6 DEF SlotsExact, ThreadsOf, Runs

\* A worker ends: it was the only one on the task.
LEMMA SlotsEnd ==
    ASSUME TypeOK, Ownership, SlotsExact, NEW th \in Threads,
           WorkerReturns(th) \/ WorkerRaises(th)
    PROVE  SlotsExact'
<1> USE DEF TypeOK, ThreadType
<1>0. PICK q \in Procs, b \in Agents, u \in Tasks :
        q = ProcOf[th] /\ b = call[th].agent /\ u = call[th].task
  BY Home DEF WorkerReturns, WorkerRaises, LocalsFit, WorkSteps
<1>1. /\ call[th].op = "task"
      /\ pc[th] = "run" /\ pc'[th] # "run" /\ Moved(th)
      /\ active' = [active EXCEPT ![q][b][u] = active[q][b][u] - 1]
  BY <1>0 DEF WorkerReturns, WorkerRaises, FreeSlot, Goto, LocalsFit, WorkSteps, Moved
<1>2. \A o \in Threads \ {th} : ProcOf[o] = q /\ pc[o] = "run" => call[o].task # u
  BY <1>0, <1>1 DEF Ownership, OneOwner, LocalsFit, WorkSteps
<1>3. active[q][b][u] = 1
  BY <1>0, <1>1 DEF SlotsExact, ThreadsOf
<1>4. active'[q][b][u] = 0
  BY <1>1, <1>3 DEF MemoryType
<1>5. \A p \in Procs, a \in Agents, t \in Tasks :
        ~ (p = q /\ a = b /\ t = u) => active'[p][a][t] = active[p][a][t]
  BY <1>1 DEF MemoryType
<1>6. /\ \A o \in Threads \ {th}, a \in Agents, t \in Tasks : Runs(o, a, t)' <=> Runs(o, a, t)
      /\ \A a \in Agents, t \in Tasks : ~ Runs(th, a, t)'
      /\ \A a \in Agents, t \in Tasks : Runs(th, a, t) => a = b /\ t = u
  BY <1>0, <1>1 DEF Runs, Moved
<1>7. ~ \E o \in ThreadsOf(q) : Runs(o, b, u)'
  <2> SUFFICES ASSUME NEW o \in Threads, ProcOf[o] = q, Runs(o, b, u)' PROVE FALSE
    BY DEF ThreadsOf
  <2>1. o # th /\ Runs(o, b, u)
    BY <1>1, <1>6
  <2> QED BY <1>2, <2>1 DEF Runs
<1>8. ASSUME NEW p \in Procs, NEW a \in Agents, NEW t \in Tasks,
             ~ (p = q /\ a = b /\ t = u)
      PROVE  (\E o \in ThreadsOf(p) : Runs(o, a, t)') <=> (\E o \in ThreadsOf(p) : Runs(o, a, t))
  BY <1>0, <1>6, <1>8 DEF ThreadsOf
<1>9. \A p \in Procs, a \in Agents, t \in Tasks :
        active[p][a][t] = IF \E o \in ThreadsOf(p) : Runs(o, a, t) THEN 1 ELSE 0
  BY DEF SlotsExact, Runs
<1>10. \A p \in Procs, a \in Agents, t \in Tasks :
        active'[p][a][t] = IF \E o \in ThreadsOf(p) : Runs(o, a, t)' THEN 1 ELSE 0
  BY <1>4, <1>5, <1>7, <1>8, <1>9
<1> QED BY <1>10 DEF SlotsExact, ThreadsOf, Runs

\* A process that starts or dies has no worker running and no slot taken.
LEMMA SlotsProcess ==
    ASSUME TypeOK, SlotsExact, NEW p \in Procs, StartProcess(p) \/ EndProcess(p)
    PROVE  SlotsExact'
<1> USE DEF TypeOK, ThreadType
<1>1. CASE StartProcess(p)
  BY <1>1, SlotsKept DEF StartProcess, Runs
<1>2. CASE EndProcess(p)
  <2>1. \A th \in Threads : IF ProcOf[th] = p THEN pc'[th] = "idle"
                            ELSE pc'[th] = pc[th] /\ call'[th] = call[th]
    BY <1>2 DEF EndProcess
  <2>2. \A q \in Procs : active'[q] = IF q = p THEN NothingActive ELSE active[q]
    BY <1>2 DEF EndProcess, MemoryType
  <2> QED BY <2>1, <2>2 DEF SlotsExact, ThreadsOf, NothingActive
<1> QED BY <1>1, <1>2

\* No request takes or gives back a slot before its first event.
LEMMA SlotsRequest ==
    ASSUME TypeOK, SlotsExact, NEW th \in Threads, Request(th)
    PROVE  SlotsExact'
<1> USE DEF TypeOK, ThreadType
<1>1. pc[th] = "idle" /\ UNCHANGED active
  BY DEF Request, PauseAgent, ResumeAgent, AssignTask, RouteTask, ApproveTask, RejectTask,
         TakePending, RecordHumanFeedback, Idle
<1>2. CASE UNCHANGED <<pc, call>>
  BY <1>1, <1>2, SlotsKept DEF Runs
<1>3. ASSUME NEW step \in {"idle", "snap", "gate", "routed", "approved", "rejected",
                          "log_feedback"},
             Goto(th, step), \A o \in Threads \ {th} : call'[o] = call[o]
      PROVE  SlotsExact'
  BY <1>1, <1>3, SlotsOutside DEF Goto, Moved
<1>4. \A a \in Agents, t \in Tasks : AssignTask(th, a, t) => SlotsExact'
  BY <1>3 DEF AssignTask, Admit, Return
<1>5. \A t \in Tasks : RouteTask(th, t) => SlotsExact'
  BY <1>2, <1>3 DEF RouteTask
<1>6. \A t \in Tasks : ApproveTask(th, t) \/ RejectTask(th, t) => SlotsExact'
  BY <1>2, <1>3 DEF ApproveTask, RejectTask
<1>7. \A a \in Agents : PauseAgent(th, a) \/ ResumeAgent(th, a) => SlotsExact'
  BY <1>3 DEF PauseAgent, ResumeAgent
<1>8. \A t \in Tasks, s \in Scores : RecordHumanFeedback(th, t, s) => SlotsExact'
  BY <1>3 DEF RecordHumanFeedback
<1> QED BY <1>4, <1>5, <1>6, <1>7, <1>8 DEF Request

\* Only the start and the end of a run touch active_task_ids.
LEMMA SlotsProceed ==
    ASSUME TypeOK, Ownership, SlotsExact, NEW th \in Threads, Proceed(th)
    PROVE  SlotsExact'
<1> USE DEF TypeOK, ThreadType
<1>1. CASE PassGate(th) \/ StartApproved(th)
  BY <1>1, SlotsBegin
<1>2. CASE WorkerReturns(th) \/ WorkerRaises(th)
  BY <1>2, SlotsEnd
<1>3. ASSUME UNCHANGED active, pc[th] # "run", NEW step \in Steps \ {"run"}, Goto(th, step),
             \A o \in Threads \ {th} : call'[o] = call[o]
      PROVE  SlotsExact'
  BY <1>3, SlotsOutside DEF Goto, Moved
<1>4. CASE AssignRouted(th)
  BY <1>3, <1>4 DEF AssignRouted, Admit, Return, Steps, WorkSteps
<1>5. CASE HoldAtGate(th) \/ SavePending(th) \/ LogPending(th) \/ LogApproved(th)
            \/ LogRejected(th) \/ LogFailed(th)
  BY <1>3, <1>5 DEF HoldAtGate, SavePending, LogPending, LogApproved, LogRejected,
                    LogFailed, Steps, WorkSteps, HoldSteps
<1>6. CASE (\E s \in Scores : Score(th, s)) \/ CutWindow(th) \/ LogEscalated(th)
            \/ CheckerRaises(th) \/ LogCompleted(th)
  BY <1>3, <1>6 DEF Score, CutWindow, LogEscalated, CheckerRaises, LogCompleted, Return,
                    Steps, WorkSteps
<1>8. CASE Review(th) \/ AdjustAutonomy(th) \/ LogAdjusted(th) \/ LogFeedback(th)
  BY <1>3, <1>8 DEF Review, AdjustAutonomy, LogAdjusted, LogFeedback, Steps, WorkSteps
<1>7. CASE SnapshotAgent(th) \/ CommitAgent(th) \/ RecordResult(th) \/ LogSwitch(th)
  BY <1>3, <1>7 DEF SnapshotAgent, CommitAgent, RecordResult, LogSwitch, Return, Steps,
                    WorkSteps
<1> QED BY <1>1, <1>2, <1>4, <1>5, <1>6, <1>7, <1>8 DEF Proceed

\* active_task_ids names exactly the tasks a worker is running: every way out of
\* worker.run (supervisor.py 208, 217) gives the slot back, once.
THEOREM SlotsAreExact == Spec => []SlotsExact
<1>1. Init => SlotsExact
  BY DEF Init, SlotsExact, NothingActive, ThreadsOf
<1>2. TypeOK /\ Ownership /\ SlotsExact /\ [Next]_vars => SlotsExact'
  <2> SUFFICES ASSUME TypeOK, Ownership, SlotsExact, [Next]_vars PROVE SlotsExact'
    OBVIOUS
  <2>1. CASE UNCHANGED vars
    BY <2>1, SlotsKept DEF vars, Runs
  <2>2. CASE Next
    BY <2>2, SlotsProcess, SlotsRequest, SlotsProceed DEF Next
  <2> QED BY <2>1, <2>2
<1> QED BY <1>1, <1>2, TypeCorrect, Owned, PTL DEF Spec

-------------------------------------------------------------------------------
(* Sign-off before execution.                                              *)

\* The approved calls that have not begun to execute.
Starting(t) == {th \in Threads : pc[th] = "start" /\ call[th].task = t}

Started(t) == taskLog[t]["TASK_EXECUTION_STARTED"]
Approved(t) == taskLog[t]["TASK_APPROVED_BY_HUMAN"]

\* Every start of a held task, made or about to be made, has its own approval.
Covered == \A t \in gated : Started(t) + Cardinality(Starting(t)) <= Approved(t)

\* A task has finitely many calls between its approval and its start.
LEMMA StartingFinite ==
    \A t : /\ IsFiniteSet(Starting(t)) /\ Cardinality(Starting(t)) \in Nat
           /\ IsFiniteSet(Starting(t)') /\ Cardinality(Starting(t)') \in Nat
BY RosterAssumption, FS_Subset, FS_CardinalityType DEF Starting

\* A step that starts no held task and makes no call about to start one.
LEMMA CoveredKept ==
    ASSUME TypeOK, [Next]_vars, Covered, UNCHANGED gated,
           \A t \in gated : Started(t)' = Started(t) /\ Starting(t)' \subseteq Starting(t)
    PROVE  Covered'
<1> SUFFICES ASSUME NEW t \in gated
             PROVE  Started(t)' + Cardinality(Starting(t)') <= Approved(t)'
  BY DEF Covered, Started, Approved, Starting
<1>1. t \in Tasks
  BY DEF TypeOK, HistoryType
<1>2. Cardinality(Starting(t)') <= Cardinality(Starting(t))
  BY StartingFinite, FS_Subset
<1>3. /\ Approved(t)' >= Approved(t) /\ Approved(t) \in Nat /\ Approved(t)' \in Nat
      /\ Started(t) \in Nat
  BY <1>1, LogGrows DEF Approved, Started, TaskEvents
<1> QED BY <1>2, <1>3, StartingFinite DEF Covered

\* A thread that is not about to start adds no start.
LEMMA StartingOutside ==
    ASSUME NEW th \in Threads, Moved(th), pc'[th] # "start"
    PROVE  \A t : Starting(t)' \subseteq Starting(t)
BY DEF Moved, Starting

\* Only a TASK_EXECUTION_STARTED about the task changes the count.
LEMMA StartedKept ==
    ASSUME TypeOK, NEW t \in Tasks,
           \/ UNCHANGED taskLog
           \/ \E u \in Tasks, e \in TaskEvents \ {"TASK_EXECUTION_STARTED"} : Log(u, e)
           \/ \E u \in Tasks \ {t}, e \in TaskEvents : Log(u, e)
    PROVE  Started(t)' = Started(t)
BY DEF TypeOK, AuditType, Log, Started, TaskEvents

\* A request adds no start, and a decision takes the task out of the queue.
LEMMA CoveredRequest ==
    ASSUME TypeOK, [Next]_vars, Covered, NEW th \in Threads, Request(th)
    PROVE  Covered'
<1> USE DEF TypeOK, ThreadType
<1>1. UNCHANGED gated /\ pc[th] = "idle"
  BY DEF Request, PauseAgent, ResumeAgent, AssignTask, RouteTask, ApproveTask, RejectTask,
         TakePending, RecordHumanFeedback, Idle
<1>2. \/ UNCHANGED taskLog
      \/ \E u \in Tasks, e \in TaskEvents \ {"TASK_EXECUTION_STARTED"} : Log(u, e)
  BY DEF Request, PauseAgent, ResumeAgent, AssignTask, Admit, RouteTask, ApproveTask,
         RejectTask, RecordHumanFeedback, TaskEvents
<1>3. \A t \in gated : Started(t)' = Started(t)
  BY <1>2, StartedKept DEF HistoryType
<1>4. CASE UNCHANGED <<pc, call>>
  BY <1>1, <1>3, <1>4, CoveredKept DEF Starting
<1>5. ASSUME NEW step \in {"idle", "snap", "gate", "routed", "approved", "rejected",
                          "log_feedback"},
             Goto(th, step), \A o \in Threads \ {th} : call'[o] = call[o]
      PROVE  Covered'
  <2>1. Moved(th) /\ pc'[th] # "start"
    BY <1>5 DEF Goto, Moved
  <2> QED BY <1>1, <1>3, <2>1, StartingOutside, CoveredKept
<1>6. \A a \in Agents, t \in Tasks : AssignTask(th, a, t) => Covered'
  BY <1>5 DEF AssignTask, Admit, Return
<1>7. \A t \in Tasks : RouteTask(th, t) => Covered'
  BY <1>4, <1>5 DEF RouteTask
<1>8. \A t \in Tasks : ApproveTask(th, t) \/ RejectTask(th, t) => Covered'
  BY <1>4, <1>5 DEF ApproveTask, RejectTask
<1>9. \A a \in Agents : PauseAgent(th, a) \/ ResumeAgent(th, a) => Covered'
  BY <1>5 DEF PauseAgent, ResumeAgent
<1>10. \A t \in Tasks, s \in Scores : RecordHumanFeedback(th, t, s) => Covered'
  BY <1>5 DEF RecordHumanFeedback
<1> QED BY <1>6, <1>7, <1>8, <1>9, <1>10 DEF Request

\* The gate holds a task that never started.
LEMMA CoveredHold ==
    ASSUME TypeOK, [Next]_vars, Ownership, Covered, NEW th \in Threads, HoldAtGate(th)
    PROVE  Covered'
<1> USE DEF TypeOK, ThreadType
<1>0. PICK u \in Tasks : u = call[th].task
  BY DEF HoldAtGate, LocalsFit, WorkSteps
<1>1. /\ gated' = gated \cup {u} /\ UNCHANGED taskLog /\ Moved(th)
      /\ pc[th] = "gate" /\ pc'[th] = "save_pending"
  BY <1>0 DEF HoldAtGate, Goto, Moved
<1>2. \A t : Starting(t)' \subseteq Starting(t)
  BY <1>1, StartingOutside
<1>3. Starting(u) = {} /\ Started(u) = 0
  BY <1>0, <1>1 DEF Ownership, GateExclusive, Fresh, Holds, Starting, Started, LocalsFit,
                    WorkSteps
<1>4. \A t \in Tasks : /\ Started(t)' = Started(t) /\ Approved(t)' = Approved(t)
                       /\ Started(t) \in Nat /\ Approved(t) \in Nat
  BY <1>1 DEF Started, Approved, AuditType, TaskEvents
<1>5. \A t : Cardinality(Starting(t)') <= Cardinality(Starting(t))
  BY <1>2, StartingFinite, FS_Subset
<1>6. Cardinality(Starting(u)') = 0
  BY <1>2, <1>3, FS_EmptySet
<1>7. \A t \in gated' : Started(t)' + Cardinality(Starting(t)') <= Approved(t)'
  <2> SUFFICES ASSUME NEW t \in gated'
               PROVE  Started(t)' + Cardinality(Starting(t)') <= Approved(t)'
    OBVIOUS
  <2>1. CASE t = u
    BY <1>3, <1>4, <1>6, <2>1
  <2>2. CASE t # u
    <3>1. t \in gated /\ t \in Tasks
      BY <1>1, <2>2 DEF HistoryType
    <3> QED BY <1>4, <1>5, <3>1, StartingFinite DEF Covered
  <2> QED BY <2>1, <2>2
<1> QED BY <1>7 DEF Covered, Started, Approved, Starting

\* An approval is logged, and its call is about to start the task.
LEMMA CoveredApproved ==
    ASSUME TypeOK, [Next]_vars, Covered, NEW th \in Threads, LogApproved(th)
    PROVE  Covered'
<1> USE DEF TypeOK, ThreadType
<1>0. PICK u \in Tasks : u = call[th].task
  BY DEF LogApproved, LocalsFit, WorkSteps
<1>1. /\ UNCHANGED <<gated, call>> /\ Log(u, "TASK_APPROVED_BY_HUMAN")
      /\ pc[th] = "approved" /\ pc' = [pc EXCEPT ![th] = "start"]
  BY <1>0 DEF LogApproved, Goto
<1>2. Starting(u)' = Starting(u) \cup {th} /\ th \notin Starting(u)
  BY <1>0, <1>1 DEF Starting
<1>3. \A t : t # u => Starting(t)' = Starting(t)
  BY <1>0, <1>1 DEF Starting
<1>4. Cardinality(Starting(u)') = Cardinality(Starting(u)) + 1
  BY <1>2, StartingFinite, FS_AddElement
<1>5. \A t \in Tasks : /\ Started(t)' = Started(t) /\ Started(t) \in Nat
                       /\ Approved(t) \in Nat
                       /\ Approved(t)' = IF t = u THEN Approved(t) + 1 ELSE Approved(t)
  BY <1>1 DEF Started, Approved, AuditType, TaskEvents, Log
<1>6. \A t \in gated' : Started(t)' + Cardinality(Starting(t)') <= Approved(t)'
  <2> SUFFICES ASSUME NEW t \in gated'
               PROVE  Started(t)' + Cardinality(Starting(t)') <= Approved(t)'
    OBVIOUS
  <2>1. t \in gated /\ t \in Tasks
    BY <1>1 DEF HistoryType
  <2>2. Started(t) + Cardinality(Starting(t)) <= Approved(t)
    BY <2>1 DEF Covered
  <2>3. CASE t = u
    BY <1>4, <1>5, <2>1, <2>2, <2>3, StartingFinite
  <2>4. CASE t # u
    BY <1>3, <1>5, <2>1, <2>2, <2>4, StartingFinite
  <2> QED BY <2>3, <2>4
<1> QED BY <1>6 DEF Covered, Started, Approved, Starting

\* An approved call starts the task.
LEMMA CoveredStart ==
    ASSUME TypeOK, [Next]_vars, Covered, NEW th \in Threads, StartApproved(th)
    PROVE  Covered'
<1> USE DEF TypeOK, ThreadType
<1>0. PICK u \in Tasks : u = call[th].task
  BY DEF StartApproved, LocalsFit, WorkSteps
<1>1. /\ UNCHANGED <<gated, call>> /\ Log(u, "TASK_EXECUTION_STARTED")
      /\ pc[th] = "start" /\ pc' = [pc EXCEPT ![th] = "run"]
  BY <1>0 DEF StartApproved, Begin, Goto
<1>2. Starting(u)' = Starting(u) \ {th} /\ th \in Starting(u)
  BY <1>0, <1>1 DEF Starting
<1>3. \A t : t # u => Starting(t)' = Starting(t)
  BY <1>0, <1>1 DEF Starting
<1>4. Cardinality(Starting(u)') = Cardinality(Starting(u)) - 1
  BY <1>2, StartingFinite, FS_RemoveElement
<1>5. \A t \in Tasks : /\ Approved(t)' = Approved(t) /\ Started(t) \in Nat
                       /\ Approved(t) \in Nat
                       /\ Started(t)' = IF t = u THEN Started(t) + 1 ELSE Started(t)
  BY <1>1 DEF Started, Approved, AuditType, TaskEvents, Log
<1>6. \A t \in gated' : Started(t)' + Cardinality(Starting(t)') <= Approved(t)'
  <2> SUFFICES ASSUME NEW t \in gated'
               PROVE  Started(t)' + Cardinality(Starting(t)') <= Approved(t)'
    OBVIOUS
  <2>1. t \in gated /\ t \in Tasks
    BY <1>1 DEF HistoryType
  <2>2. Started(t) + Cardinality(Starting(t)) <= Approved(t)
    BY <2>1 DEF Covered
  <2>3. CASE t = u
    BY <1>4, <1>5, <2>1, <2>2, <2>3, StartingFinite
  <2>4. CASE t # u
    BY <1>3, <1>5, <2>1, <2>2, <2>4, StartingFinite
  <2> QED BY <2>3, <2>4
<1> QED BY <1>6 DEF Covered, Started, Approved, Starting

\* A task that passes the gate was never held.
LEMMA CoveredPass ==
    ASSUME TypeOK, [Next]_vars, Ownership, Covered, NEW th \in Threads, PassGate(th)
    PROVE  Covered'
<1> USE DEF TypeOK, ThreadType
<1>0. PICK u \in Tasks : u = call[th].task
  BY DEF PassGate, LocalsFit, WorkSteps
<1>1. /\ UNCHANGED <<gated, call>> /\ Log(u, "TASK_EXECUTION_STARTED")
      /\ pc[th] = "gate" /\ pc'[th] = "run" /\ Moved(th)
  BY <1>0 DEF PassGate, Begin, Goto, Moved
<1>2. u \notin gated
  BY <1>0, <1>1 DEF Ownership, GateExclusive, Fresh
<1>3. \A t \in gated : Started(t)' = Started(t)
  BY <1>1, <1>2, StartedKept DEF HistoryType, TaskEvents
<1> QED BY <1>1, <1>3, StartingOutside, CoveredKept

\* A call in progress starts a held task only after logging its approval.
LEMMA CoveredProceed ==
    ASSUME TypeOK, [Next]_vars, Ownership, Covered, NEW th \in Threads, Proceed(th)
    PROVE  Covered'
<1> USE DEF TypeOK, ThreadType
<1>1. CASE HoldAtGate(th) \/ LogApproved(th) \/ StartApproved(th) \/ PassGate(th)
  BY <1>1, CoveredHold, CoveredApproved, CoveredStart, CoveredPass
<1>2. pc[th] \in WorkSteps \cup HoldSteps => call[th].task \in Tasks
  BY Locals
<1>3. ASSUME UNCHANGED gated, NEW step \in Steps \ {"start"}, Goto(th, step),
             \A o \in Threads \ {th} : call'[o] = call[o],
             \/ UNCHANGED taskLog
             \/ \E u \in Tasks, e \in TaskEvents \ {"TASK_EXECUTION_STARTED"} : Log(u, e)
      PROVE  Covered'
  <2>1. Moved(th) /\ pc'[th] # "start"
    BY <1>3 DEF Goto, Moved
  <2>2. \A t \in gated : Started(t)' = Started(t)
    BY <1>3, StartedKept DEF HistoryType
  <2> QED BY <1>3, <2>1, <2>2, StartingOutside, CoveredKept
<1>4. CASE AssignRouted(th)
  BY <1>2, <1>3, <1>4 DEF AssignRouted, Admit, Return, Steps, WorkSteps, TaskEvents
<1>5. CASE LogPending(th) \/ LogRejected(th) \/ LogFailed(th) \/ LogEscalated(th)
            \/ LogCompleted(th)
  BY <1>2, <1>3, <1>5 DEF LogPending, LogRejected, LogFailed, LogEscalated, LogCompleted,
                          Steps, WorkSteps, HoldSteps, TaskEvents
<1>6. CASE LogFeedback(th)
  <2>1. call[th].task \in Tasks
    BY <1>6 DEF LogFeedback, LocalsFit
  <2> QED BY <1>3, <1>6, <2>1 DEF LogFeedback, Steps, TaskEvents
<1>7. CASE SavePending(th) \/ WorkerReturns(th) \/ WorkerRaises(th) \/ CheckerRaises(th)
            \/ (\E s \in Scores : Score(th, s)) \/ CutWindow(th)
            \/ Review(th) \/ AdjustAutonomy(th) \/ LogAdjusted(th)
  BY <1>3, <1>7 DEF SavePending, WorkerReturns, WorkerRaises, CheckerRaises, Score,
                    CutWindow, Review, AdjustAutonomy, LogAdjusted, Return, Steps,
                    WorkSteps, HoldSteps
<1>8. CASE SnapshotAgent(th) \/ CommitAgent(th) \/ RecordResult(th) \/ LogSwitch(th)
  BY <1>3, <1>8 DEF SnapshotAgent, CommitAgent, RecordResult, LogSwitch, Return, Steps,
                    WorkSteps
<1> QED BY <1>1, <1>4, <1>5, <1>6, <1>7, <1>8 DEF Proceed

\* A process that dies makes no call about to start a task.
LEMMA CoveredProcess ==
    ASSUME TypeOK, [Next]_vars, Covered, NEW p \in Procs, StartProcess(p) \/ EndProcess(p)
    PROVE  Covered'
<1>1. UNCHANGED <<gated, taskLog>>
  BY DEF StartProcess, EndProcess
<1>2. \A o \in Threads : pc'[o] = "start" => pc[o] = "start" /\ call'[o] = call[o]
  BY DEF StartProcess, EndProcess
<1> QED BY <1>1, <1>2, CoveredKept DEF Started, Starting

\* A held task never starts more often than a human approved it, in however many
\* processes the approval turns up again: past the gate the only way into _execute
\* is approve_task, which logs the approval first (supervisor.py 182-183), and a
\* task the gate lets through was never held (162, 173).
THEOREM SignOffIsCovered == Spec => []SignOffCovers
<1>1. Init => Covered
  BY DEF Init, Covered
<1>2. TypeOK /\ Ownership /\ Covered /\ [Next]_vars => Covered'
  <2> SUFFICES ASSUME TypeOK, Ownership, Covered, [Next]_vars PROVE Covered'
    OBVIOUS
  <2>1. CASE UNCHANGED vars
    BY <2>1, CoveredKept DEF vars, Started, Starting
  <2>2. CASE Next
    BY <2>2, CoveredProcess, CoveredRequest, CoveredProceed DEF Next
  <2> QED BY <2>1, <2>2
<1>3. TypeOK /\ Covered => SignOffCovers
  <2> SUFFICES ASSUME TypeOK, Covered, NEW t \in gated PROVE Started(t) <= Approved(t)
    BY DEF SignOffCovers, Started, Approved
  <2>1. Started(t) \in Nat /\ Approved(t) \in Nat
    BY DEF TypeOK, AuditType, HistoryType, Started, Approved, TaskEvents
  <2> QED BY <2>1, StartingFinite DEF Covered
<1> QED BY <1>1, <1>2, <1>3, TypeCorrect, Owned, PTL DEF Spec
===============================================================================

--------------------------- MODULE SupervisorProofs ---------------------------
(***************************************************************************)
(* What holds of the supervisor for every set of processes, threads,       *)
(* agents, tasks and scores, and every choice of faults.                   *)
(***************************************************************************)
EXTENDS Supervisor, SequenceTheorems, TLAPS

-------------------------------------------------------------------------------
(* The rolling window, for every window and every score (Autonomy).        *)

\* Cutting a window leaves a window of scores.
LEMMA LatestScoresType ==
    ASSUME NEW S, NEW window \in Seq(S)
    PROVE  LatestScores(window) \in Seq(S)
<1>1. CASE Len(window) > EvaluationWindow
  <2>1. /\ Len(window) - EvaluationWindow + 1 \in 1..(Len(window) + 1)
        /\ Len(window) \in Nat
    BY <1>1, EvaluationWindowAssumption
  <2>2. SubSeq(window, Len(window) - EvaluationWindow + 1, Len(window)) \in Seq(S)
    BY <2>1
  <2> QED BY <1>1, <2>2 DEF LatestScores
<1>2. CASE ~ (Len(window) > EvaluationWindow)
  BY <1>2 DEF LatestScores
<1> QED BY <1>1, <1>2

\* Once cut, the window holds EvaluationWindow scores at most, however long
\* feedback had made it, and it does not lose its last score, which is the one
\* of the task that was just completed (supervisor.py 220-222).
THEOREM LatestScoresBound ==
    ASSUME NEW S, NEW window \in Seq(S), window # <<>>
    PROVE  /\ Len(LatestScores(window)) \in 1..EvaluationWindow
           /\ LatestScores(window)[Len(LatestScores(window))] = window[Len(window)]
<1>1. Len(window) \in Nat \ {0}
  BY EmptySeq
<1>2. CASE Len(window) > EvaluationWindow
  <2> DEFINE m == Len(window) - EvaluationWindow + 1
             cut == SubSeq(window, m, Len(window))
  <2>1. Len(cut) = EvaluationWindow /\ \A i \in 1..Len(cut) : cut[i] = window[m + i - 1]
    BY <1>1, <1>2, EvaluationWindowAssumption, SubSeqProperties
  <2>2. cut[EvaluationWindow] = window[Len(window)]
    BY <1>1, <2>1, EvaluationWindowAssumption
  <2>3. LatestScores(window) = cut
    BY <1>2 DEF LatestScores
  <2> HIDE DEF cut
  <2> QED BY <2>1, <2>2, <2>3, EvaluationWindowAssumption
<1>3. CASE ~ (Len(window) > EvaluationWindow)
  BY <1>1, <1>3, EvaluationWindowAssumption DEF LatestScores
<1> QED BY <1>2, <1>3

\* Overwriting one place of a window, or none, leaves a window as long as it was.
LEMMA Overwrite ==
    ASSUME NEW S, NEW window \in Seq(S), NEW i, NEW s \in S
    PROVE  /\ [window EXCEPT ![i] = s] \in Seq(S)
           /\ Len([window EXCEPT ![i] = s]) = Len(window)
<1>1. CASE i \in 1..Len(window)
  BY <1>1, ExceptSeq
<1>2. CASE i \notin 1..Len(window)
  <2>1. window = [j \in 1..Len(window) |-> window[j]] /\ DOMAIN window = 1..Len(window)
    BY LenProperties
  <2>2. [window EXCEPT ![i] = s] = window
    BY <1>2, <2>1
  <2> QED BY <2>2
<1> QED BY <1>1, <1>2

\* Feedback leaves a window of scores, longer by at most one.
THEOREM ApplyFeedbackType ==
    ASSUME NEW S, NEW window \in Seq(S), NEW original, NEW corrected \in S
    PROVE  /\ ApplyFeedback(window, original, corrected) \in Seq(S)
           /\ Len(ApplyFeedback(window, original, corrected))
                \in {Len(window), Len(window) + 1}
<1> DEFINE places == {i \in DOMAIN window : window[i] = original}
           latest == CHOOSE i \in places : \A j \in places : j <= i
           over == [window EXCEPT ![latest] = corrected]
           longer == Append(window, corrected)
<1>1. longer \in Seq(S) /\ Len(longer) = Len(window) + 1
  OBVIOUS
<1>2. over \in Seq(S) /\ Len(over) = Len(window)
  BY Overwrite
<1>3. ApplyFeedback(window, original, corrected) =
        IF places # {} THEN over ELSE longer
  BY DEF ApplyFeedback
<1> HIDE DEF over, longer, places
<1> QED BY <1>1, <1>2, <1>3

-------------------------------------------------------------------------------
(* The types of the state and of the locals of a call.                     *)

USE DEF memory, database, audit, history

\* A thread belongs to a process.
LEMMA Home == \A th \in Threads : ProcOf[th] \in Procs
BY RosterAssumption

\* An idle thread's locals are those of no call.
LEMMA NoCallType == NoCall \in Calls /\ LocalsFit("idle", NoCall)
BY DEF NoCall, Calls, SomeScore, Levels, LocalsFit, WorkSteps, HoldSteps

\* What a thread in the middle of a call knows.
LEMMA Locals ==
    ASSUME ThreadType, NEW th \in Threads
    PROVE  /\ call[th] \in Calls
           /\ LocalsFit(pc[th], call[th])
           /\ pc[th] # "idle" => up[ProcOf[th]] /\ call[th].agent \in Agents
           /\ pc[th] \in WorkSteps \cup HoldSteps \cup {"log_feedback", "record"} =>
                call[th].task \in Tasks
BY DEF ThreadType, LocalsFit, WorkSteps, HoldSteps

\* A review changes, of the locals, at most the level and the verdict.
LEMMA ReviewKeeps ==
    ASSUME ThreadType, NEW th \in Threads, Review(th)
    PROVE  /\ call'[th].op = call[th].op /\ call'[th].agent = call[th].agent
           /\ call'[th].task = call[th].task
           /\ \A o \in Threads \ {th} : call'[o] = call[o]
<1>1. DOMAIN call = Threads /\ call[th] \in Calls
  BY DEF ThreadType
<1>2. CASE UNCHANGED call
  BY <1>2
<1>3. CASE \E l, v : call' = [call EXCEPT ![th].level = l, ![th].verdict = v]
  <2>1. PICK l, v : call' = [call EXCEPT ![th].level = l, ![th].verdict = v]
    BY <1>3
  <2> DEFINE c == [call[th] EXCEPT !.level = l, !.verdict = v]
  <2>2. c.op = call[th].op /\ c.agent = call[th].agent /\ c.task = call[th].task
    BY <1>1 DEF Calls
  <2>3. call' = [call EXCEPT ![th] = c]
    BY <1>1, <2>1
  <2> HIDE DEF c
  <2> QED BY <1>1, <2>2, <2>3
<1> QED BY <1>2, <1>3 DEF Review

\* One thread takes a step and its locals fit the next one.
LEMMA ThreadStep ==
    ASSUME ThreadType, NEW th \in Threads, NEW step \in Steps, NEW c \in Calls,
           LocalsFit(step, c), up[ProcOf[th]], UNCHANGED up,
           pc' = [pc EXCEPT ![th] = step], call' = [call EXCEPT ![th] = c]
    PROVE  ThreadType'
<1>1. pc' \in [Threads -> Steps] /\ call' \in [Threads -> Calls]
  BY DEF ThreadType
<1>2. ASSUME NEW o \in Threads
      PROVE  LocalsFit(pc[o], call[o])' /\ (pc[o] # "idle" => up[ProcOf[o]])'
  <2>1. CASE o = th
    BY <2>1 DEF ThreadType, LocalsFit
  <2>2. CASE o # th
    BY <2>2 DEF ThreadType, LocalsFit
  <2> QED BY <2>1, <2>2
<1> QED BY <1>1, <1>2 DEF ThreadType

\* A thread steps and keeps its locals, or drops them.
LEMMA ThreadGoto ==
    ASSUME ThreadType, NEW th \in Threads, NEW step \in Steps,
           LocalsFit(step, call[th]), up[ProcOf[th]], UNCHANGED <<up, call>>,
           Goto(th, step)
    PROVE  ThreadType'
<1>1. call' = [call EXCEPT ![th] = call[th]] /\ call[th] \in Calls
  BY DEF ThreadType
<1> QED BY <1>1, ThreadStep DEF Goto

\* A call that returns leaves its thread idle.
LEMMA ThreadReturn ==
    ASSUME ThreadType, NEW th \in Threads, up[ProcOf[th]], UNCHANGED up, Return(th)
    PROVE  ThreadType'
BY ThreadStep, NoCallType DEF Return, Goto, Steps

\* Logging an event keeps the counts of events natural numbers.
LEMMA LogType ==
    ASSUME AuditType, NEW t \in Tasks, NEW e \in TaskEvents, Log(t, e), UNCHANGED agentLog
    PROVE  AuditType'
BY DEF AuditType, Log

\* A profile, a slot and a result of some process change.
LEMMA StandingStep ==
    ASSUME MemoryType, NEW p \in Procs, NEW a \in Agents, NEW s \in Standings,
           standing' = [standing EXCEPT ![p][a] = s],
           UNCHANGED <<up, registered, active, pending, results>>
    PROVE  MemoryType'
BY DEF MemoryType

\* active_task_ids of one agent changes.
LEMMA ActiveStep ==
    ASSUME MemoryType, NEW p \in Procs, NEW a \in Agents, NEW t \in Tasks, NEW n \in Int,
           active' = [active EXCEPT ![p][a][t] = n],
           UNCHANGED <<up, registered, standing, pending, results>>
    PROVE  MemoryType'
BY DEF MemoryType

\* The locals a pause, a resume or a submission starts with.
LEMMA FreshCall ==
    ASSUME NEW op \in {"task", "pause", "resume"}, NEW a \in Agents
    PROVE  [NoCall EXCEPT !.op = op, !.agent = a] \in Calls
BY NoCallType DEF Calls

\* A call about a task may go to the routing check, the gate or an approval.
LEMMA TaskCallType ==
    ASSUME NEW a \in Agents, NEW t \in Tasks
    PROVE  /\ TaskCall(a, t) \in Calls
           /\ \A step \in {"routed", "gate", "approved"} : LocalsFit(step, TaskCall(a, t))
<1>1. TaskCall(a, t) \in Calls
  BY NoCallType DEF TaskCall, Calls
<1>2. TaskCall(a, t).op = "task" /\ TaskCall(a, t).agent = a /\ TaskCall(a, t).task = t
  BY DEF TaskCall, NoCall
<1> QED BY <1>1, <1>2 DEF LocalsFit, WorkSteps, HoldSteps

\* A profile stays a profile when one field of it changes.
LEMMA StandingFields ==
    ASSUME NEW s \in Standings
    PROVE  /\ \A b \in BOOLEAN : [s EXCEPT !.paused = b] \in Standings
           /\ \A l \in Levels : [s EXCEPT !.level = l] \in Standings
           /\ \A w \in Seq(Scores) : [s EXCEPT !.window = w] \in Standings
           /\ \A w \in Seq(Scores), n \in Nat :
                [s EXCEPT !.window = w, !.count = n] \in Standings
BY DEF Standings, StandingOf

\* The profile a process holds of an agent is a profile.
LEMMA StandingAt ==
    ASSUME MemoryType, NEW th \in Threads, NEW a \in Agents
    PROVE  standing[ProcOf[th]][a] \in Standings
BY Home DEF MemoryType

\* A call stays a call when its status, its snapshot or its decision changes.
LEMMA CallFields ==
    ASSUME NEW c \in Calls
    PROVE  /\ \A st \in Statuses : [c EXCEPT !.status = st] \in Calls
           /\ \A s \in Scores, st \in Statuses :
                [c EXCEPT !.score = s, !.status = st] \in Calls
           /\ [c EXCEPT !.op = "held", !.status = "PENDING_APPROVAL"] \in Calls
           /\ \A l \in Levels, v \in AgentEvents \cup {None} :
                [c EXCEPT !.level = l, !.verdict = v] \in Calls
           /\ \A s \in Standings \cup {None} : [c EXCEPT !.snap = s] \in Calls
<1>1. \A s \in Scores, st \in Statuses : [c EXCEPT !.score = s, !.status = st] \in Calls
  BY DEF Calls, SomeScore
<1>2. \A st \in Statuses : [c EXCEPT !.status = st] \in Calls
  BY DEF Calls
<1>3. [c EXCEPT !.op = "held", !.status = "PENDING_APPROVAL"] \in Calls
  BY DEF Calls, Statuses
<1>4. \A l \in Levels, v \in AgentEvents \cup {None} :
        [c EXCEPT !.level = l, !.verdict = v] \in Calls
  BY DEF Calls
<1>5. \A s \in Standings \cup {None} : [c EXCEPT !.snap = s] \in Calls
  BY DEF Calls
<1> QED BY <1>1, <1>2, <1>3, <1>4, <1>5

\* pause_agent and resume_agent (supervisor.py 78-91) keep the types.
LEMMA SwitchType ==
    ASSUME TypeOK, NEW th \in Threads, NEW a \in Agents,
           PauseAgent(th, a) \/ ResumeAgent(th, a)
    PROVE  TypeOK'
<1> DEFINE p == ProcOf[th]
           s(b) == [standing[p][a] EXCEPT !.paused = b]
           c(op) == [NoCall EXCEPT !.op = op, !.agent = a]
<1> USE DEF TypeOK, PauseAgent, ResumeAgent, Idle
<1>1. MemoryType'
  <2>1. s(TRUE) \in Standings /\ s(FALSE) \in Standings
    BY StandingAt, StandingFields
  <2>2. CASE PauseAgent(th, a)
    <3>1. /\ standing' = [standing EXCEPT ![p][a] = s(TRUE)]
          /\ UNCHANGED <<up, registered, active, pending, results>>
      BY <2>2
    <3> HIDE DEF s
    <3> QED BY Home, <2>1, <3>1, StandingStep
  <2>3. CASE ResumeAgent(th, a)
    <3>1. /\ standing' = [standing EXCEPT ![p][a] = s(FALSE)]
          /\ UNCHANGED <<up, registered, active, pending, results>>
      BY <2>3
    <3> HIDE DEF s
    <3> QED BY Home, <2>1, <3>1, StandingStep
  <2> QED BY <2>2, <2>3
<1>2. ThreadType'
  <2>1. \A op \in {"pause", "resume"} : c(op) \in Calls /\ LocalsFit("snap", c(op))
    BY FreshCall DEF LocalsFit, WorkSteps, HoldSteps, NoCall
  <2> QED BY <2>1, ThreadStep DEF Goto, Steps
<1> QED BY <1>1, <1>2 DEF DatabaseType, AuditType, HistoryType

\* Logging the switch and answering (supervisor.py 85, 91) keeps the types.
LEMMA LogSwitchType ==
    ASSUME TypeOK, NEW th \in Threads, LogSwitch(th)
    PROVE  TypeOK'
<1> USE DEF TypeOK, LogSwitch
<1>1. ThreadType'
  BY Locals, ThreadReturn
<1>2. HistoryType'
  BY Locals DEF HistoryType
<1> QED BY <1>1, <1>2 DEF MemoryType, DatabaseType, AuditType

\* assign_task up to the gate (supervisor.py 141-160) keeps the types.
LEMMA AssignTaskType ==
    ASSUME TypeOK, NEW th \in Threads, NEW a \in Agents, NEW t \in Tasks, AssignTask(th, a, t)
    PROVE  TypeOK'
<1> USE DEF TypeOK, AssignTask, Idle
<1>1. AuditType'
  BY LogType DEF Admit, TaskEvents, AuditType
<1>2. ThreadType'
  BY ThreadReturn, ThreadStep, TaskCallType DEF Admit, Goto, Steps, WorkSteps, HoldSteps
<1> QED BY <1>1, <1>2 DEF MemoryType, DatabaseType, HistoryType

\* route_task (supervisor.py 100-107) keeps the types.
LEMMA RouteTaskType ==
    ASSUME TypeOK, NEW th \in Threads, NEW t \in Tasks, RouteTask(th, t)
    PROVE  TypeOK'
<1> USE DEF TypeOK, RouteTask, Idle
<1>1. AuditType'
  BY LogType DEF TaskEvents, AuditType
<1>2. ThreadType'
  <2>1. CASE UNCHANGED <<taskLog, pc, call>>
    BY <2>1 DEF ThreadType, LocalsFit
  <2>2. ASSUME NEW a \in Eligible(ProcOf[th], t),
               call' = [call EXCEPT ![th] = TaskCall(a, t)], Goto(th, "routed")
        PROVE  ThreadType'
    <3>1. a \in Agents
      BY Home DEF Eligible, MemoryType
    <3> QED BY <2>2, <3>1, ThreadStep, TaskCallType DEF Goto, Steps, WorkSteps, HoldSteps
  <2> QED BY <2>1, <2>2
<1> QED BY <1>1, <1>2 DEF MemoryType, DatabaseType, HistoryType

\* assign_task called by route_task (supervisor.py 107) keeps the types.
LEMMA AssignRoutedType ==
    ASSUME TypeOK, NEW th \in Threads, AssignRouted(th)
    PROVE  TypeOK'
<1> USE DEF TypeOK, AssignRouted
<1>1. call[th].agent \in Agents /\ call[th].task \in Tasks /\ up[ProcOf[th]]
  BY Locals DEF WorkSteps, HoldSteps
<1>2. AuditType'
  BY <1>1, LogType DEF Admit, TaskEvents, AuditType
<1>3. ThreadType'
  BY <1>1, ThreadReturn, ThreadStep, TaskCallType DEF Admit, Goto, Steps, WorkSteps, HoldSteps
<1> QED BY <1>2, <1>3 DEF MemoryType, DatabaseType, HistoryType

\* A task takes a slot.
LEMMA BeginType ==
    ASSUME TypeOK, NEW th \in Threads, Begin(th), pc[th] \in {"gate", "start"},
           UNCHANGED <<up, registered, standing, pending, results, database,
                       agentLog, call, history>>
    PROVE  TypeOK'
<1> DEFINE p == ProcOf[th]
           a == call[th].agent
           t == call[th].task
<1> USE DEF TypeOK
<1>1. a \in Agents /\ t \in Tasks /\ p \in Procs /\ up[p]
  BY Home, Locals DEF WorkSteps, HoldSteps
<1>2. MemoryType'
  <2>1. active[p][a][t] + 1 \in Int
    BY <1>1 DEF MemoryType
  <2>2. active' = [active EXCEPT ![p][a][t] = active[p][a][t] + 1]
    BY DEF Begin
  <2> QED BY <1>1, <2>1, <2>2, ActiveStep
<1>3. AuditType'
  BY <1>1, LogType DEF Begin, TaskEvents
<1>4. ThreadType'
  BY <1>1, Locals, ThreadGoto DEF Begin, LocalsFit, Steps, WorkSteps, HoldSteps
<1> QED BY <1>2, <1>3, <1>4 DEF DatabaseType, HistoryType

\* Queueing a held task in memory (supervisor.py 162-164) keeps the types.
LEMMA HoldAtGateType ==
    ASSUME TypeOK, NEW th \in Threads, HoldAtGate(th)
    PROVE  TypeOK'
<1> DEFINE c == [call[th] EXCEPT !.op = "held", !.status = "PENDING_APPROVAL"]
<1> USE DEF TypeOK, HoldAtGate
<1>1. call[th].agent \in Agents /\ call[th].task \in Tasks /\ up[ProcOf[th]]
  BY Locals DEF WorkSteps, HoldSteps
<1>2. MemoryType'
  BY <1>1, Home DEF MemoryType
<1>3. ThreadType'
  <2>1. c \in Calls /\ LocalsFit("save_pending", c)
    <3>1. /\ c.op = "held" /\ c.status = "PENDING_APPROVAL"
          /\ c.agent = call[th].agent /\ c.task = call[th].task
      BY Locals DEF Calls
    <3> QED BY <1>1, <3>1, Locals, CallFields DEF LocalsFit, WorkSteps, HoldSteps
  <2>2. call' = [call EXCEPT ![th] = c]
    OBVIOUS
  <2> QED BY <1>1, <2>1, <2>2, ThreadStep DEF Goto, Steps, WorkSteps, HoldSteps
<1>4. HistoryType'
  BY <1>1 DEF HistoryType
<1> QED BY <1>2, <1>3, <1>4 DEF DatabaseType, AuditType

\* Queueing a held task in the database (supervisor.py 165) keeps the types.
LEMMA SavePendingType ==
    ASSUME TypeOK, NEW th \in Threads, SavePending(th)
    PROVE  TypeOK'
<1> USE DEF TypeOK, SavePending
<1>1. call[th].agent \in Agents /\ call[th].task \in Tasks /\ up[ProcOf[th]]
  BY Locals DEF WorkSteps, HoldSteps
<1>2. DatabaseType'
  BY <1>1 DEF DatabaseType
<1>3. ThreadType'
  BY <1>1, Locals, ThreadGoto DEF LocalsFit, Steps, WorkSteps, HoldSteps
<1> QED BY <1>2, <1>3 DEF MemoryType, AuditType, HistoryType

\* Taking a task out of the queue.
LEMMA TakePendingType ==
    ASSUME TypeOK, NEW th \in Threads, NEW t \in Tasks, TakePending(th, t),
           UNCHANGED <<up, registered, standing, active, results, dbAgents, dbResults>>
    PROVE  MemoryType' /\ DatabaseType' /\ up[ProcOf[th]] /\ pending[ProcOf[th]][t] \in Agents
BY Home DEF TypeOK, TakePending, Idle, MemoryType, DatabaseType

\* approve_task up to its event (supervisor.py 175-181) keeps the types.
LEMMA ApproveTaskType ==
    ASSUME TypeOK, NEW th \in Threads, NEW t \in Tasks, ApproveTask(th, t)
    PROVE  TypeOK'
<1> USE DEF TypeOK, ApproveTask
<1>1. MemoryType' /\ DatabaseType' /\ up[ProcOf[th]] /\ pending[ProcOf[th]][t] \in Agents
  BY TakePendingType
<1>2. ThreadType'
  <2>1. CASE UNCHANGED <<pc, call>>
    BY <2>1 DEF ThreadType, LocalsFit
  <2>2. CASE ~ UNCHANGED <<pc, call>>
    BY <1>1, <2>2, ThreadStep, TaskCallType DEF Goto, Steps, WorkSteps, HoldSteps
  <2> QED BY <2>1, <2>2
<1> QED BY <1>1, <1>2 DEF AuditType, HistoryType

\* reject_task up to its event (supervisor.py 185-190) keeps the types.
LEMMA RejectTaskType ==
    ASSUME TypeOK, NEW th \in Threads, NEW t \in Tasks, RejectTask(th, t)
    PROVE  TypeOK'
<1> DEFINE c == [TaskCall(pending[ProcOf[th]][t], t) EXCEPT !.status = "REJECTED"]
<1> USE DEF TypeOK, RejectTask
<1>1. MemoryType' /\ DatabaseType' /\ up[ProcOf[th]] /\ pending[ProcOf[th]][t] \in Agents
  BY TakePendingType
<1>2. ThreadType'
  <2>1. c \in Calls
    BY <1>1, TaskCallType, CallFields DEF Statuses
  <2>2. c.op = "task" /\ c.agent \in Agents /\ c.task = t /\ c.status = "REJECTED"
    BY <1>1 DEF TaskCall, NoCall
  <2>3. LocalsFit("rejected", c)
    BY <2>2 DEF LocalsFit, WorkSteps, HoldSteps
  <2> QED BY <1>1, <2>1, <2>3, ThreadStep DEF Goto, Steps, WorkSteps, HoldSteps
<1> QED BY <1>1, <1>2 DEF AuditType, HistoryType

\* A call logs an event about its task and goes on with the same locals.
LEMMA LogStepType ==
    ASSUME TypeOK, NEW th \in Threads, NEW e \in TaskEvents, NEW step \in Steps,
           pc[th] \in WorkSteps \cup HoldSteps \cup {"log_feedback"},
           LocalsFit(step, call[th]), Log(call[th].task, e), Goto(th, step),
           UNCHANGED <<memory, database, agentLog, call, history>>
    PROVE  TypeOK'
<1> USE DEF TypeOK
<1>1. call[th].task \in Tasks /\ up[ProcOf[th]]
  BY Locals DEF LocalsFit, WorkSteps, HoldSteps
<1>2. AuditType'
  BY <1>1, LogType
<1>3. ThreadType'
  BY <1>1, ThreadGoto
<1> QED BY <1>2, <1>3 DEF MemoryType, DatabaseType, HistoryType

\* The steps that only log an event about the task keep the types.
LEMMA LogActionsType ==
    ASSUME TypeOK, NEW th \in Threads,
           \/ LogPending(th) \/ LogApproved(th) \/ LogRejected(th)
           \/ LogFailed(th) \/ LogEscalated(th) \/ LogCompleted(th) \/ LogFeedback(th)
    PROVE  TypeOK'
<1>1. LocalsFit(pc[th], call[th]) /\ call[th].agent \in Agents
  BY Locals
  DEF TypeOK, LogPending, LogApproved, LogRejected, LogFailed, LogEscalated,
      LogCompleted, LogFeedback
<1>2. CASE LogPending(th)
  BY <1>1, <1>2, LogStepType DEF LogPending, LocalsFit, TaskEvents, Steps, WorkSteps, HoldSteps, Statuses
<1>3. CASE LogApproved(th)
  BY <1>1, <1>3, LogStepType DEF LogApproved, LocalsFit, TaskEvents, Steps, WorkSteps, HoldSteps
<1>4. CASE LogRejected(th)
  BY <1>1, <1>4, LogStepType
     DEF LogRejected, LocalsFit, TaskEvents, Steps, WorkSteps, HoldSteps, Outcomes, Statuses
<1>5. CASE LogFailed(th)
  BY <1>1, <1>5, LogStepType
     DEF LogFailed, LocalsFit, TaskEvents, Steps, WorkSteps, HoldSteps, Outcomes, Statuses
<1>6. CASE LogCompleted(th)
  BY <1>1, <1>6, LogStepType DEF LogCompleted, LocalsFit, TaskEvents, Steps, WorkSteps, HoldSteps
<1>7. CASE LogEscalated(th)
  BY <1>1, <1>7, LogStepType DEF LogEscalated, LocalsFit, TaskEvents, Steps, WorkSteps, HoldSteps
<1>8. CASE LogFeedback(th)
  BY <1>1, <1>8, LogStepType DEF LogFeedback, LocalsFit, TaskEvents, Steps, WorkSteps, HoldSteps
<1> QED BY <1>2, <1>3, <1>4, <1>5, <1>6, <1>7, <1>8

\* A task gives its slot back.
LEMMA FreeSlotType ==
    ASSUME TypeOK, NEW th \in Threads, FreeSlot(th), pc[th] = "run",
           UNCHANGED <<up, registered, standing, pending, results>>
    PROVE  MemoryType'
<1> DEFINE p == ProcOf[th]
           a == call[th].agent
           t == call[th].task
<1>1. a \in Agents /\ t \in Tasks /\ p \in Procs
  BY Home, Locals DEF TypeOK, WorkSteps, HoldSteps
<1>2. active[p][a][t] - 1 \in Int
  BY <1>1 DEF TypeOK, MemoryType
<1>3. active' = [active EXCEPT ![p][a][t] = active[p][a][t] - 1]
  BY DEF FreeSlot
<1> QED BY <1>1, <1>2, <1>3, ActiveStep DEF TypeOK

\* A worker that returns (supervisor.py 216-217) keeps the types.
LEMMA WorkerReturnsType ==
    ASSUME TypeOK, NEW th \in Threads, WorkerReturns(th)
    PROVE  TypeOK'
<1> USE DEF TypeOK, WorkerReturns
<1>1. MemoryType'
  BY FreeSlotType
<1>2. ThreadType'
  BY Locals, ThreadGoto DEF LocalsFit, Steps, WorkSteps, HoldSteps
<1> QED BY <1>1, <1>2 DEF DatabaseType, AuditType, HistoryType

\* A worker that raises (supervisor.py 207-208) keeps the types.
LEMMA WorkerRaisesType ==
    ASSUME TypeOK, NEW th \in Threads, WorkerRaises(th)
    PROVE  TypeOK'
<1> DEFINE c == [call[th] EXCEPT !.status = "FAILED"]
<1> USE DEF TypeOK, WorkerRaises
<1>1. MemoryType'
  BY FreeSlotType
<1>2. ThreadType'
  <2>1. call[th] \in Calls /\ LocalsFit(pc[th], call[th]) /\ up[ProcOf[th]]
    BY Locals
  <2>2. /\ c.op = call[th].op /\ c.status = "FAILED"
        /\ c.agent = call[th].agent /\ c.task = call[th].task
    BY <2>1 DEF Calls
  <2>3. c \in Calls
    BY <2>1, CallFields DEF Statuses
  <2>4. LocalsFit("snap", c)
    BY <2>1, <2>2 DEF LocalsFit, WorkSteps, HoldSteps, Outcomes, Statuses
  <2>5. call' = [call EXCEPT ![th] = c]
    OBVIOUS
  <2> QED BY <2>1, <2>3, <2>4, <2>5, ThreadStep DEF Goto, Steps
<1> QED BY <1>1, <1>2 DEF DatabaseType, AuditType, HistoryType

\* A profile stays a profile when a score enters its window and when the window
\* is cut.
LEMMA CompletedStanding ==
    ASSUME NEW s \in Standings
    PROVE  /\ \A score \in Scores :
                [s EXCEPT !.window = Append(s.window, score)] \in Standings
           /\ [s EXCEPT !.window = LatestScores(s.window), !.count = s.count + 1]
                \in Standings
<1>1. s.window \in Seq(Scores) /\ s.count \in Nat
  BY DEF Standings, StandingOf
<1>2. LatestScores(s.window) \in Seq(Scores)
  BY <1>1, LatestScoresType
<1>3. s.count + 1 \in Nat
  BY <1>1
<1>4. \A score \in Scores : Append(s.window, score) \in Seq(Scores)
  BY <1>1
<1> QED BY <1>2, <1>3, <1>4, StandingFields

\* The score enters the window (supervisor.py 219-220): the types are kept.
LEMMA ScoreType ==
    ASSUME TypeOK, NEW th \in Threads, NEW score \in Scores, Score(th, score)
    PROVE  TypeOK'
<1> DEFINE p == ProcOf[th]
           a == call[th].agent
           s == [standing[p][a] EXCEPT !.window = Append(standing[p][a].window, score)]
           c == [call[th] EXCEPT !.score = score]
<1> USE DEF TypeOK, Score
<1>1. /\ call[th] \in Calls /\ LocalsFit(pc[th], call[th]) /\ up[p]
      /\ a \in Agents /\ call[th].task \in Tasks
  BY Locals DEF WorkSteps
<1>2. MemoryType'
  <2>1. standing[p][a] \in Standings
    BY <1>1, StandingAt
  <2>2. s \in Standings
    BY <2>1, CompletedStanding
  <2>3. /\ standing' = [standing EXCEPT ![p][a] = s]
        /\ UNCHANGED <<up, registered, active, pending, results>>
    OBVIOUS
  <2> HIDE DEF s
  <2> QED BY <1>1, Home, <2>2, <2>3, StandingStep
<1>3. ThreadType'
  <2>1. call' = [call EXCEPT ![th] = c]
    OBVIOUS
  <2>2. /\ c.op = call[th].op /\ c.status = call[th].status /\ c.score = score
        /\ c.agent = call[th].agent /\ c.task = call[th].task
    BY <1>1 DEF Calls
  <2>3. c \in Calls
    BY <1>1 DEF Calls, SomeScore
  <2>4. LocalsFit("cut", c)
    BY <1>1, <2>2 DEF LocalsFit, WorkSteps, HoldSteps
  <2> HIDE DEF c
  <2> QED BY <1>1, <2>1, <2>3, <2>4, ThreadStep DEF Goto, Steps, WorkSteps
<1> QED BY <1>2, <1>3 DEF AuditType, DatabaseType, HistoryType

\* What cutting the window (supervisor.py 221-228) leaves in the locals.
LEMMA CutLocals ==
    ASSUME ThreadType, NEW th \in Threads, CutWindow(th)
    PROVE  /\ call'[th].op = call[th].op /\ call'[th].agent = call[th].agent
           /\ call'[th].task = call[th].task /\ call'[th].score = call[th].score
           /\ \/ call'[th].status = "ESCALATED" /\ pc'[th] = "log_escalated"
              \/ call'[th].status = "COMPLETED" /\ pc'[th] = "log_completed"
           /\ call'[th] \in Calls
           /\ \A o \in Threads \ {th} : call'[o] = call[o] /\ pc'[o] = pc[o]
<1>1. /\ DOMAIN call = Threads /\ call[th] \in Calls
      /\ DOMAIN pc = Threads
  BY DEF ThreadType
<1>2. PICK low \in BOOLEAN :
        /\ call' = [call EXCEPT ![th].status = IF low THEN "ESCALATED" ELSE "COMPLETED"]
        /\ pc' = [pc EXCEPT ![th] = IF low THEN "log_escalated" ELSE "log_completed"]
  BY DEF CutWindow, Goto, EscalatesAfter
<1> DEFINE st == IF low THEN "ESCALATED" ELSE "COMPLETED"
           c == [call[th] EXCEPT !.status = st]
<1>3. call' = [call EXCEPT ![th] = c]
  BY <1>1, <1>2
<1>4. st \in {"ESCALATED", "COMPLETED"} /\ st \in Statuses
  BY DEF Statuses
<1>5. /\ c.op = call[th].op /\ c.agent = call[th].agent /\ c.task = call[th].task
      /\ c.score = call[th].score /\ c.status = st /\ c \in Calls
  BY <1>1, <1>4 DEF Calls
<1>6. /\ pc'[th] = IF low THEN "log_escalated" ELSE "log_completed"
      /\ \A o \in Threads \ {th} : pc'[o] = pc[o]
  BY <1>1, <1>2
<1>7. call'[th] = c /\ \A o \in Threads \ {th} : call'[o] = call[o]
  BY <1>1, <1>3
<1> HIDE DEF c
<1> QED BY <1>2, <1>5, <1>6, <1>7

\* Cutting the window and counting the task (supervisor.py 221-228) keeps the
\* types.
LEMMA CutWindowType ==
    ASSUME TypeOK, NEW th \in Threads, CutWindow(th)
    PROVE  TypeOK'
<1> DEFINE p == ProcOf[th]
           a == call[th].agent
           s == [standing[p][a] EXCEPT !.window = LatestScores(standing[p][a].window),
                                       !.count = standing[p][a].count + 1]
<1> USE DEF TypeOK
<1>1. /\ call[th] \in Calls /\ LocalsFit("cut", call[th]) /\ up[p]
      /\ a \in Agents /\ call[th].task \in Tasks
  BY Locals DEF WorkSteps, CutWindow
<1>2. MemoryType'
  <2>1. standing[p][a] \in Standings
    BY <1>1, StandingAt
  <2>2. s \in Standings
    BY <2>1, CompletedStanding
  <2>3. /\ standing' = [standing EXCEPT ![p][a] = s]
        /\ UNCHANGED <<up, registered, active, pending, results>>
    BY DEF CutWindow
  <2> HIDE DEF s
  <2> QED BY <1>1, Home, <2>2, <2>3, StandingStep
<1>3. ThreadType'
  <2>1. PICK step \in {"log_escalated", "log_completed"} : pc' = [pc EXCEPT ![th] = step]
    BY DEF CutWindow, Goto
  <2>2. pc'[th] = step
    BY <2>1 DEF ThreadType
  <2>3. PICK c : call' = [call EXCEPT ![th] = c]
    BY DEF CutWindow
  <2>4. call'[th] = c
    BY <2>3 DEF ThreadType
  <2>5. LocalsFit(step, c)
    BY <1>1, <2>1, <2>2, <2>4, CutLocals DEF LocalsFit, WorkSteps, HoldSteps
  <2>6. c \in Calls /\ UNCHANGED up
    BY <2>4, CutLocals DEF CutWindow
  <2> QED BY <1>1, <2>1, <2>3, <2>5, <2>6, ThreadStep DEF Steps, WorkSteps
<1> QED BY <1>2, <1>3 DEF CutWindow, AuditType, DatabaseType, HistoryType

\* A quality checker that raises (supervisor.py 219) keeps the types.
LEMMA CheckerRaisesType ==
    ASSUME TypeOK, NEW th \in Threads, CheckerRaises(th)
    PROVE  TypeOK'
<1>1. ThreadType'
  BY Locals, ThreadReturn DEF TypeOK, CheckerRaises
<1> QED BY <1>1 DEF TypeOK, CheckerRaises, MemoryType, DatabaseType, AuditType, HistoryType

\* The decision of the review (policy.py 21-31) keeps the types.
LEMMA ReviewType ==
    ASSUME TypeOK, NEW th \in Threads, Review(th)
    PROVE  TypeOK'
<1> DEFINE p == ProcOf[th]
           a == call[th].agent
           l == standing[p][a].level
           c(v) == [call[th] EXCEPT !.level = l, !.verdict = v]
<1> USE DEF TypeOK, Review
<1>1. /\ call[th] \in Calls /\ LocalsFit(pc[th], call[th]) /\ up[p]
      /\ a \in Agents /\ standing[p][a] \in Standings
  BY Locals, StandingAt
<1>2. l \in Levels
  BY <1>1 DEF Standings, StandingOf
<1>3. ASSUME NEW v \in AgentEvents, v = "PROMOTED" => l < 4, v = "DEMOTED" => l > 0,
             call' = [call EXCEPT ![th] = c(v)], Goto(th, "adjust")
      PROVE  ThreadType'
  <2>1. c(v) \in Calls
    BY <1>1, <1>2, CallFields
  <2>2. /\ c(v).op = call[th].op /\ c(v).status = call[th].status
        /\ c(v).agent = call[th].agent /\ c(v).task = call[th].task
        /\ c(v).level = l /\ c(v).verdict = v
    BY <1>1 DEF Calls
  <2>3. LocalsFit("adjust", c(v))
    BY <1>1, <1>3, <2>2 DEF LocalsFit, WorkSteps, HoldSteps, AgentEvents
  <2> HIDE DEF c
  <2> QED BY <1>1, <1>3, <2>1, <2>3, ThreadStep DEF Goto, Steps, WorkSteps
<1>4. ThreadType'
  <2>1. CASE Promotes(standing[p][a]) /\ call' = [call EXCEPT ![th] = c("PROMOTED")]
               /\ Goto(th, "adjust")
    <3>1. "PROMOTED" \in AgentEvents /\ l < 4
      BY <2>1 DEF Promotes, AgentEvents
    <3> HIDE DEF c, l, Review
    <3> QED BY <1>3, <2>1, <3>1
  <2>2. CASE Demotes(standing[p][a]) /\ call' = [call EXCEPT ![th] = c("DEMOTED")]
               /\ Goto(th, "adjust")
    <3>1. "DEMOTED" \in AgentEvents /\ l > 0
      BY <2>2 DEF Demotes, AgentEvents
    <3> HIDE DEF c, l, Review
    <3> QED BY <1>3, <2>2, <3>1
  <2>3. CASE Goto(th, "snap") /\ UNCHANGED call
    <3>1. LocalsFit("snap", call[th])
      BY <1>1 DEF LocalsFit, WorkSteps, HoldSteps, Outcomes, Statuses
    <3>2. UNCHANGED up
      OBVIOUS
    <3> HIDE DEF Review
    <3> QED BY <1>1, <2>3, <3>1, <3>2, ThreadGoto DEF Steps
  <2> QED BY <2>1, <2>2, <2>3
<1> QED BY <1>4 DEF MemoryType, DatabaseType, AuditType, HistoryType

\* A promotion or a demotion (policy.py 28-31) stays on the ladder.
LEMMA AdjustAutonomyType ==
    ASSUME TypeOK, NEW th \in Threads, AdjustAutonomy(th)
    PROVE  TypeOK'
<1> DEFINE p == ProcOf[th]
           a == call[th].agent
           l == IF call[th].verdict = "PROMOTED"
                THEN call[th].level + 1 ELSE call[th].level - 1
           s == [standing[p][a] EXCEPT !.level = l]
<1> USE DEF TypeOK, AdjustAutonomy
<1>1. /\ call[th] \in Calls /\ LocalsFit(pc[th], call[th]) /\ up[p]
      /\ a \in Agents /\ standing[p][a] \in Standings
  BY Locals, StandingAt
<1>2. call[th].level \in 0..4 /\ call[th].verdict \in AgentEvents
  BY <1>1 DEF Calls, Levels, LocalsFit, AgentEvents
<1>3. MemoryType'
  <2>1. l \in Levels
    BY <1>1, <1>2 DEF LocalsFit, Levels
  <2>2. s \in Standings
    BY <1>1, <2>1, StandingFields
  <2>3. /\ standing' = [standing EXCEPT ![p][a] = s]
        /\ UNCHANGED <<up, registered, active, pending, results>>
    OBVIOUS
  <2> HIDE DEF s
  <2> QED BY <1>1, Home, <2>2, <2>3, StandingStep
<1>4. ThreadType'
  <2>1. LocalsFit("log_adjusted", call[th])
    BY <1>1 DEF LocalsFit, WorkSteps, HoldSteps
  <2> QED BY <1>1, <2>1, ThreadGoto DEF Steps, WorkSteps
<1> QED BY <1>3, <1>4 DEF AuditType, DatabaseType, HistoryType

\* Logging the promotion or the demotion (policy.py 36-46) leaves the locals
\* but the level and the verdict, which are done with.
LEMMA AdjustedLocals ==
    ASSUME ThreadType, NEW th \in Threads, LogAdjusted(th)
    PROVE  /\ call'[th].op = call[th].op /\ call'[th].agent = call[th].agent
           /\ call'[th].task = call[th].task /\ call'[th].status = call[th].status
           /\ call'[th].score = call[th].score
           /\ call'[th] \in Calls
           /\ pc'[th] = "snap"
           /\ \A o \in Threads \ {th} : call'[o] = call[o] /\ pc'[o] = pc[o]
<1>1. /\ DOMAIN call = Threads /\ call[th] \in Calls
      /\ DOMAIN pc = Threads
  BY DEF ThreadType
<1> DEFINE c == [call[th] EXCEPT !.level = 0, !.verdict = None]
<1>2. call' = [call EXCEPT ![th] = c] /\ pc' = [pc EXCEPT ![th] = "snap"]
  BY <1>1 DEF LogAdjusted, Goto
<1>3. /\ c.op = call[th].op /\ c.agent = call[th].agent /\ c.task = call[th].task
      /\ c.status = call[th].status /\ c.score = call[th].score
  BY <1>1 DEF Calls
<1>4. c \in Calls
  <2>1. 0 \in Levels /\ None \in AgentEvents \cup {None}
    BY DEF Levels
  <2> QED BY <1>1, <2>1, CallFields
<1>5. /\ call'[th] = c /\ pc'[th] = "snap"
      /\ \A o \in Threads \ {th} : call'[o] = call[o] /\ pc'[o] = pc[o]
  BY <1>1, <1>2
<1> HIDE DEF c
<1> QED BY <1>3, <1>4, <1>5

\* Logging the promotion or the demotion keeps the types.
LEMMA LogAdjustedType ==
    ASSUME TypeOK, NEW th \in Threads, LogAdjusted(th)
    PROVE  TypeOK'
<1>1. /\ call[th] \in Calls /\ LocalsFit("log_adjusted", call[th]) /\ up[ProcOf[th]]
      /\ call[th].agent \in Agents /\ call[th].verdict \in AgentEvents
  BY Locals DEF TypeOK, LogAdjusted, LocalsFit, AgentEvents
<1>2. AuditType'
  BY <1>1 DEF TypeOK, AuditType, LogAdjusted
<1>3. ThreadType'
  <2>1. PICK c : call' = [call EXCEPT ![th] = c]
    BY DEF LogAdjusted
  <2>2. call'[th] = c
    BY <2>1 DEF TypeOK, ThreadType
  <2>3. LocalsFit("snap", c)
    BY <1>1, <2>2, AdjustedLocals
    DEF TypeOK, LocalsFit, WorkSteps, HoldSteps, Outcomes, Statuses
  <2>4. c \in Calls /\ UNCHANGED up /\ pc' = [pc EXCEPT ![th] = "snap"]
    BY <2>2, AdjustedLocals DEF LogAdjusted, Goto, TypeOK
  <2> QED BY <1>1, <2>1, <2>3, <2>4, ThreadStep DEF Steps, TypeOK
<1> QED BY <1>2, <1>3 DEF TypeOK, LogAdjusted, MemoryType, DatabaseType, HistoryType

\* record_human_feedback (supervisor.py 111-123, feedback.py 45-52) keeps the
\* types.
LEMMA RecordHumanFeedbackType ==
    ASSUME TypeOK, NEW th \in Threads, NEW t \in Tasks, NEW score \in Scores,
           RecordHumanFeedback(th, t, score)
    PROVE  TypeOK'
<1> DEFINE p == ProcOf[th]
           r == IF results[p][t] # None THEN results[p][t] ELSE dbResults[t]
           a == r.agent
           w == ApplyFeedback(standing[p][a].window, r.score, score)
           s == [standing[p][a] EXCEPT !.window = w]
           c == [NoCall EXCEPT !.op = "feedback", !.agent = a, !.task = t,
                               !.status = r.status, !.score = score]
<1> USE DEF TypeOK, RecordHumanFeedback
<1>1. r \in Result /\ up[p]
  <2>1. results[p][t] \in Result \cup {None} /\ dbResults[t] \in Result \cup {None}
    BY Home DEF MemoryType, DatabaseType
  <2>2. r # None /\ up[p]
    BY DEF Idle
  <2> QED BY <2>1, <2>2
<1>2. a \in Agents /\ r.status \in Statuses
  BY <1>1 DEF Result
<1>3. MemoryType'
  <2>1. standing[p][a] \in Standings
    BY <1>2, StandingAt
  <2>2. standing[p][a].window \in Seq(Scores)
    BY <2>1 DEF Standings, StandingOf
  <2>3. s \in Standings
    BY <2>1, <2>2, ApplyFeedbackType, StandingFields
  <2>4. /\ standing' = [standing EXCEPT ![p][a] = s]
        /\ UNCHANGED <<up, registered, active, pending, results>>
    OBVIOUS
  <2>5. MemoryType /\ p \in Procs
    BY Home
  <2> HIDE DEF s, p, RecordHumanFeedback
  <2> QED BY <1>2, <2>3, <2>4, <2>5, StandingStep
<1>4. ThreadType'
  <2>1. c \in Calls
    BY <1>2, NoCallType DEF Calls, SomeScore
  <2>2. c.op = "feedback" /\ c.agent = a /\ c.task = t /\ c.status = r.status
    BY DEF NoCall
  <2>3. LocalsFit("log_feedback", c)
    BY <1>2, <2>2 DEF LocalsFit, WorkSteps, HoldSteps
  <2>4. call' = [call EXCEPT ![th] = c]
    OBVIOUS
  <2> HIDE DEF c
  <2> QED BY <1>1, <2>1, <2>3, <2>4, ThreadStep DEF Goto, Steps
<1> QED BY <1>3, <1>4 DEF AuditType, DatabaseType, HistoryType

\* What save_agent reads (state_store.py 111-116) is a profile.
LEMMA SnapshotAgentType ==
    ASSUME TypeOK, NEW th \in Threads, SnapshotAgent(th)
    PROVE  TypeOK'
<1> DEFINE s == standing[ProcOf[th]][call[th].agent]
           c == [call[th] EXCEPT !.snap = s]
<1> USE DEF TypeOK, SnapshotAgent
<1>1. /\ call[th] \in Calls /\ LocalsFit(pc[th], call[th]) /\ up[ProcOf[th]]
      /\ s \in Standings
  BY Locals, StandingAt
<1>2. c \in Calls
  BY <1>1, CallFields
<1>3. /\ c.op = call[th].op /\ c.status = call[th].status /\ c.snap = s
      /\ c.agent = call[th].agent /\ c.task = call[th].task
  BY <1>1 DEF Calls
<1>4. LocalsFit("commit", c)
  BY <1>1, <1>3 DEF LocalsFit, WorkSteps, HoldSteps
<1>5. call' = [call EXCEPT ![th] = c]
  OBVIOUS
<1>6. ThreadType'
  <2> HIDE DEF c
  <2> QED BY <1>1, <1>2, <1>4, <1>5, ThreadStep DEF Goto, Steps
<1> QED BY <1>6 DEF MemoryType, DatabaseType, AuditType, HistoryType

\* What save_agent commits (state_store.py 94-110) is a profile.
LEMMA CommitAgentType ==
    ASSUME TypeOK, NEW th \in Threads, CommitAgent(th)
    PROVE  TypeOK'
<1> DEFINE c == [call[th] EXCEPT !.snap = None]
<1> USE DEF TypeOK, CommitAgent
<1>1. /\ call[th] \in Calls /\ LocalsFit(pc[th], call[th]) /\ up[ProcOf[th]]
      /\ call[th].agent \in Agents /\ UNCHANGED up
  BY Locals
<1>2. DatabaseType'
  BY <1>1 DEF DatabaseType, LocalsFit
<1>3. CASE Return(th)
  <2>1. ThreadType'
    BY <1>1, <1>3, ThreadReturn
  <2> QED BY <1>2, <2>1 DEF MemoryType, AuditType, HistoryType
<1>4. CASE /\ call[th].op # "feedback"
           /\ call' = [call EXCEPT ![th] = c]
  <2>1. c \in Calls
    BY <1>1, CallFields
  <2>2. /\ c.op = call[th].op /\ c.status = call[th].status
        /\ c.agent = call[th].agent /\ c.task = call[th].task
    BY <1>1 DEF Calls
  <2>3. ThreadType'
    <3>1. CASE call[th].op \in {"pause", "resume"} /\ Goto(th, "log_switch")
      <4>1. LocalsFit("log_switch", c)
        BY <1>1, <2>2, <3>1 DEF LocalsFit, WorkSteps, HoldSteps
      <4> HIDE DEF c, CommitAgent
      <4> QED BY <1>1, <1>4, <2>1, <3>1, <4>1, ThreadStep DEF Goto, Steps
    <3>2. CASE call[th].op = "task" /\ call[th].status = "FAILED" /\ Goto(th, "log_failed")
      <4>1. LocalsFit("log_failed", c)
        BY <1>1, <2>2, <3>2 DEF LocalsFit, WorkSteps, HoldSteps
      <4> HIDE DEF c, CommitAgent
      <4> QED BY <1>1, <1>4, <2>1, <3>2, <4>1, ThreadStep DEF Goto, Steps, WorkSteps
    <3>3. CASE call[th].op = "task" /\ Goto(th, "record")
      <4>1. LocalsFit("record", c)
        BY <1>1, <2>2, <3>3 DEF LocalsFit, WorkSteps, HoldSteps
      <4> HIDE DEF c, CommitAgent
      <4> QED BY <1>1, <1>4, <2>1, <3>3, <4>1, ThreadStep DEF Goto, Steps
    <3> QED BY <1>4, <3>1, <3>2, <3>3
  <2> QED BY <1>2, <2>3 DEF MemoryType, AuditType, HistoryType
<1> QED BY <1>3, <1>4

\* Storing and saving a result (supervisor.py 243-244) keeps the types.
LEMMA RecordResultType ==
    ASSUME TypeOK, NEW th \in Threads, RecordResult(th)
    PROVE  TypeOK'
<1> DEFINE r == [agent |-> call[th].agent, status |-> call[th].status,
                 score |-> call[th].score]
<1> USE DEF TypeOK, RecordResult
<1>1. /\ call[th] \in Calls /\ LocalsFit(pc[th], call[th]) /\ up[ProcOf[th]]
      /\ call[th].agent \in Agents /\ call[th].task \in Tasks
  BY Locals
<1>2. r \in Result
  <2>1. call[th].status \in Statuses /\ call[th].score \in SomeScore
    BY <1>1 DEF LocalsFit, Calls, Outcomes, Statuses
  <2> QED BY <1>1, <2>1 DEF Result
<1>3. MemoryType'
  BY <1>1, <1>2, Home DEF MemoryType
<1>4. DatabaseType'
  BY <1>1, <1>2 DEF DatabaseType
<1>5. ThreadType'
  <2>1. CASE call[th].op = "feedback" /\ Goto(th, "snap") /\ UNCHANGED call
    <3>1. LocalsFit("snap", call[th])
      BY <1>1, <2>1 DEF LocalsFit, WorkSteps, HoldSteps
    <3> QED BY <1>1, <2>1, <3>1, ThreadGoto DEF Steps
  <2>2. CASE Return(th)
    BY <1>1, <2>2, ThreadReturn
  <2> QED BY <2>1, <2>2
<1> QED BY <1>3, <1>4, <1>5 DEF AuditType, HistoryType

\* The start and the death of a process keep the types.
LEMMA ProcessType ==
    ASSUME TypeOK, NEW p \in Procs, StartProcess(p) \/ EndProcess(p)
    PROVE  TypeOK'
<1> USE DEF TypeOK
<1>1. \A a \in Agents : FirstProfile(a) \in Standings
  BY RosterAssumption DEF FirstProfile, Standings, StandingOf
<1>2. CASE StartProcess(p)
  <2>1. \A a \in Agents : Loaded(a) \in Standings
    BY <1>1 DEF Loaded, DatabaseType
  <2>2. MemoryType'
    BY <1>1, <1>2, <2>1 DEF StartProcess, MemoryType, DatabaseType
  <2>3. DatabaseType'
    BY <1>2, <2>1 DEF StartProcess, DatabaseType
  <2>4. ThreadType'
    BY <1>2 DEF StartProcess, ThreadType, MemoryType
  <2> QED BY <1>2, <2>2, <2>3, <2>4 DEF StartProcess, AuditType, HistoryType
<1>3. CASE EndProcess(p)
  <2>1. MemoryType'
    BY <1>1, <1>3 DEF EndProcess, MemoryType, NoStanding, NothingActive, NoTask
  <2>2. ThreadType'
    <3>1. pc' \in [Threads -> Steps] /\ call' \in [Threads -> Calls]
      BY <1>3, NoCallType DEF EndProcess, ThreadType, Steps
    <3>2. ASSUME NEW th \in Threads
          PROVE  LocalsFit(pc[th], call[th])' /\ (pc[th] # "idle" => up[ProcOf[th]])'
      <4>1. CASE ProcOf[th] = p
        <5>1. pc'[th] = "idle" /\ call'[th] = NoCall
          BY <1>3, <4>1 DEF EndProcess
        <5> QED BY <5>1, NoCallType DEF LocalsFit
      <4>2. CASE ProcOf[th] # p
        <5>1. pc'[th] = pc[th] /\ call'[th] = call[th] /\ up'[ProcOf[th]] = up[ProcOf[th]]
          BY <1>3, <4>2, Home DEF EndProcess, MemoryType
        <5> QED BY <5>1 DEF ThreadType, LocalsFit
      <4> QED BY <4>1, <4>2
    <3> QED BY <3>1, <3>2 DEF ThreadType
  <2> QED BY <1>3, <2>1, <2>2 DEF EndProcess, DatabaseType, AuditType, HistoryType
<1> QED BY <1>2, <1>3

\* Empty databases and no running process have their types.
LEMMA InitType == Init => TypeOK
<1> SUFFICES ASSUME Init PROVE TypeOK
  OBVIOUS
<1> USE DEF Init
<1>1. \A a \in Agents : FirstProfile(a) \in Standings
  BY RosterAssumption DEF FirstProfile, Standings, StandingOf
<1>2. MemoryType
  BY <1>1 DEF MemoryType, NoStanding, NothingActive, NoTask
<1>3. DatabaseType
  BY DEF DatabaseType, NoTask
<1>4. AuditType
  BY DEF AuditType
<1>5. ThreadType
  BY NoCallType DEF ThreadType, Steps
<1> QED BY <1>2, <1>3, <1>4, <1>5 DEF TypeOK, HistoryType

\* A step that changes nothing keeps the types.
LEMMA StutterType ==
    ASSUME TypeOK, UNCHANGED vars
    PROVE  TypeOK'
BY DEF TypeOK, vars, MemoryType, DatabaseType, AuditType, HistoryType, ThreadType, LocalsFit

\* TypeOK is inductive: every operation of the supervisor keeps it.
LEMMA NextType == TypeOK /\ [Next]_vars => TypeOK'
<1> SUFFICES ASSUME TypeOK, [Next]_vars PROVE TypeOK'
  OBVIOUS
<1>1. CASE UNCHANGED vars
  BY <1>1, StutterType
<1>2. ASSUME NEW p \in Procs, StartProcess(p) \/ EndProcess(p) PROVE TypeOK'
  BY <1>2, ProcessType
<1>3. ASSUME NEW th \in Threads, Request(th) PROVE TypeOK'
  BY <1>3, SwitchType, AssignTaskType, RouteTaskType, ApproveTaskType, RejectTaskType,
     RecordHumanFeedbackType DEF Request
<1>4. ASSUME NEW th \in Threads, PassGate(th) \/ StartApproved(th) PROVE TypeOK'
  BY <1>4, BeginType DEF PassGate, StartApproved
<1>5. ASSUME NEW th \in Threads, Proceed(th) PROVE TypeOK'
  BY <1>4, <1>5, AssignRoutedType, HoldAtGateType, SavePendingType, LogActionsType,
     WorkerReturnsType, WorkerRaisesType, ScoreType, CheckerRaisesType, CutWindowType,
     ReviewType, AdjustAutonomyType, LogAdjustedType, SnapshotAgentType, CommitAgentType, RecordResultType,
     LogSwitchType DEF Proceed
<1> QED BY <1>1, <1>2, <1>3, <1>5 DEF Next

\* Every variable keeps its type, and a thread in the middle of a call has the
\* locals the rest of the call uses (core/supervisor.py, every method).
THEOREM TypeCorrect == Spec => []TypeOK
BY InitType, NextType, PTL DEF Spec
===============================================================================

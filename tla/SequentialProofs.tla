--------------------------- MODULE SequentialProofs ---------------------------
(***************************************************************************)
(* What holds of the supervisor when one process works alone on its        *)
(* databases, with one thread, as the demo and the triage script do: for   *)
(* every roster and set of tasks, and however often the process is stopped *)
(* or killed and started again.  With a second thread or a second process  *)
(* these properties fail, which is what the runs that find disagreements   *)
(* show.                                                                   *)
(***************************************************************************)
EXTENDS OwnershipProofs

USE DEF memory, database, audit, history

\* One thread, of the only process.
Alone(th) == Threads = {th} /\ Procs = {ProcOf[th]}

\* The step a thread takes is the one its pc names.
LEMMA StepAt ==
    ASSUME NEW th, Proceed(th)
    PROVE  /\ pc[th] # "idle"
           /\ pc[th] = "routed" => AssignRouted(th)
           /\ pc[th] = "gate" => PassGate(th) \/ HoldAtGate(th)
           /\ pc[th] = "save_pending" => SavePending(th)
           /\ pc[th] = "log_pending" => LogPending(th)
           /\ pc[th] = "approved" => LogApproved(th)
           /\ pc[th] = "start" => StartApproved(th)
           /\ pc[th] = "rejected" => LogRejected(th)
           /\ pc[th] = "run" => WorkerReturns(th) \/ WorkerRaises(th)
           /\ pc[th] = "score" => CheckerRaises(th) \/ \E x \in Scores : Score(th, x)
           /\ pc[th] = "cut" => CutWindow(th)
           /\ pc[th] = "log_escalated" => LogEscalated(th)
           /\ pc[th] = "log_completed" => LogCompleted(th)
           /\ pc[th] = "review" => Review(th)
           /\ pc[th] = "adjust" => AdjustAutonomy(th)
           /\ pc[th] = "log_adjusted" => LogAdjusted(th)
           /\ pc[th] = "log_feedback" => LogFeedback(th)
           /\ pc[th] = "snap" => SnapshotAgent(th)
           /\ pc[th] = "commit" => CommitAgent(th)
           /\ pc[th] = "log_failed" => LogFailed(th)
           /\ pc[th] = "record" => RecordResult(th)
           /\ pc[th] = "log_switch" => LogSwitch(th)
BY DEF Proceed, AssignRouted, PassGate, HoldAtGate, SavePending, LogPending,
       LogApproved, StartApproved, LogRejected, WorkerReturns, WorkerRaises, LogFailed,
       Score, CheckerRaises, CutWindow, LogEscalated, LogCompleted, Review,
       AdjustAutonomy, LogAdjusted, LogFeedback, SnapshotAgent, CommitAgent,
       RecordResult, LogSwitch

-------------------------------------------------------------------------------
(* Memory and database agree, but for what the call in progress is at.     *)

\* The call has changed the profile of its agent and not yet saved it.
Unsaved(th) ==
    \/ pc[th] \in {"cut", "log_escalated", "log_completed", "review", "adjust",
                  "log_adjusted", "log_feedback", "snap", "commit"}
    \/ pc[th] = "record" /\ call[th].op = "feedback"

InSync(th) ==
    LET p == ProcOf[th]
    IN  /\ up[p] => \A t \in Tasks :
                pending[p][t] = IF pc[th] = "save_pending" /\ call[th].task = t
                                THEN call[th].agent ELSE dbPending[t]
        /\ \A a \in registered[p] : \/ Unsaved(th) /\ call[th].agent = a
                                    \/ dbAgents[a] = standing[p][a]
        /\ \A t \in Tasks : results[p][t] # None => dbResults[t] = results[p][t]
        /\ pc[th] = "commit" => call[th].snap = standing[p][call[th].agent]

\* A step that writes neither, and leaves nothing unsaved behind.
LEMMA SyncKept ==
    ASSUME NEW th, InSync(th),
           UNCHANGED <<up, registered, standing, pending, results, database>>,
           pc[th] # "save_pending", pc'[th] \notin {"save_pending", "commit"},
           Unsaved(th) => Unsaved(th)' /\ call'[th].agent = call[th].agent
    PROVE  InSync(th)'
BY DEF InSync

\* A step that changes the profile of the agent of its call and will save it.
LEMMA SyncUnsaved ==
    ASSUME TypeOK, NEW th, InSync(th), NEW a, NEW s,
           standing' = [standing EXCEPT ![ProcOf[th]][a] = s],
           UNCHANGED <<up, registered, pending, results, database>>,
           ProcOf[th] \in Procs, pc[th] # "save_pending", pc'[th] # "commit",
           Unsaved(th)', call'[th].agent = a, Unsaved(th) => call[th].agent = a
    PROVE  InSync(th)'
<1> DEFINE p == ProcOf[th]
<1>1. standing'[p] = [standing[p] EXCEPT ![a] = s] /\ DOMAIN standing[p] = Agents
      /\ registered[p] \subseteq Agents
  BY DEF TypeOK, MemoryType
<1>2. \A b \in registered[p] : b # a => standing'[p][b] = standing[p][b]
  BY <1>1
<1> QED BY <1>2 DEF InSync, Unsaved

\* The steps of a call that write neither memory nor database, or only the log.
LEMMA SyncQuiet ==
    ASSUME NEW th, Alone(th), TypeOK, InSync(th),
           \/ \E a \in Agents, t \in Tasks : AssignTask(th, a, t)
           \/ \E t \in Tasks : RouteTask(th, t)
           \/ AssignRouted(th) \/ PassGate(th) \/ LogPending(th) \/ LogApproved(th)
           \/ StartApproved(th) \/ LogRejected(th) \/ WorkerReturns(th)
           \/ WorkerRaises(th) \/ LogFailed(th) \/ CheckerRaises(th)
           \/ LogEscalated(th) \/ LogCompleted(th) \/ Review(th) \/ LogAdjusted(th)
           \/ LogFeedback(th) \/ LogSwitch(th)
    PROVE  InSync(th)'
<1> USE DEF Alone, TypeOK, ThreadType
<1>1. UNCHANGED <<up, registered, standing, pending, results, database>>
  BY DEF AssignTask, RouteTask, AssignRouted, PassGate, LogPending, LogApproved,
         StartApproved, LogRejected, WorkerReturns, WorkerRaises, LogFailed,
         CheckerRaises, LogEscalated, LogCompleted, Review, LogAdjusted, LogFeedback,
         LogSwitch
<1>2. pc[th] # "save_pending" /\ pc'[th] \notin {"save_pending", "commit"}
  BY DEF AssignTask, RouteTask, AssignRouted, Admit, PassGate, LogPending, LogApproved,
         StartApproved, Begin, LogRejected, WorkerReturns, WorkerRaises, LogFailed,
         CheckerRaises, LogEscalated, LogCompleted, Review, LogAdjusted, LogFeedback,
         LogSwitch, Goto, Return, Idle
<1>3. Unsaved(th) => Unsaved(th)' /\ call'[th].agent = call[th].agent
  <2>1. CASE LogEscalated(th) \/ LogCompleted(th)
    BY <2>1 DEF LogEscalated, LogCompleted, Goto, Unsaved
  <2>4. CASE LogFeedback(th)
    <3>1. call[th].op = "feedback" /\ UNCHANGED call /\ pc'[th] = "record"
      BY <2>4, Locals DEF LogFeedback, Goto, LocalsFit
    <3> QED BY <3>1 DEF Unsaved
  <2>5. CASE LogAdjusted(th)
    BY <2>5, AdjustedLocals DEF Unsaved
  <2>3. CASE Review(th)
    <3>1. pc'[th] \in {"adjust", "snap"}
      BY <2>3 DEF Review, Goto
    <3>2. call'[th].agent = call[th].agent
      BY <2>3, ReviewKeeps
    <3> QED BY <3>1, <3>2 DEF Unsaved
  <2>2. CASE ~ (\/ LogEscalated(th) \/ LogCompleted(th) \/ Review(th)
                \/ LogAdjusted(th) \/ LogFeedback(th))
    BY <2>2 DEF AssignTask, RouteTask, AssignRouted, PassGate, LogPending, LogApproved,
         StartApproved, LogRejected, WorkerReturns, WorkerRaises, LogFailed,
         CheckerRaises, LogSwitch, Idle, Unsaved
  <2> QED BY <2>1, <2>2, <2>3, <2>4, <2>5
<1> QED BY <1>1, <1>2, <1>3, SyncKept

\* The requests that change a profile: the switch, and a human verdict.
LEMMA SyncSwitchAndFeedback ==
    ASSUME NEW th, Alone(th), TypeOK, InSync(th),
           \/ \E a \in Agents : PauseAgent(th, a) \/ ResumeAgent(th, a)
           \/ \E t \in Tasks, x \in Scores : RecordHumanFeedback(th, t, x)
    PROVE  InSync(th)'
<1> USE DEF Alone, TypeOK, ThreadType
<1>1. ASSUME NEW a \in Agents, PauseAgent(th, a) \/ ResumeAgent(th, a)
      PROVE  InSync(th)'
  <2>1. PICK b \in BOOLEAN : standing' = [standing EXCEPT ![ProcOf[th]][a].paused = b]
    BY <1>1 DEF PauseAgent, ResumeAgent
  <2>2. PICK s : standing' = [standing EXCEPT ![ProcOf[th]][a] = s]
    BY <2>1
  <2>3. /\ UNCHANGED <<up, registered, pending, results, database>>
        /\ pc[th] = "idle" /\ pc'[th] = "snap"
    BY <1>1 DEF PauseAgent, ResumeAgent, Idle, Goto
  <2>4. PICK op : call' = [call EXCEPT ![th] = [NoCall EXCEPT !.op = op, !.agent = a]]
    BY <1>1 DEF PauseAgent, ResumeAgent
  <2>5. call'[th].agent = a
    BY <2>4 DEF NoCall
  <2> QED BY <2>2, <2>3, <2>5, SyncUnsaved DEF Unsaved
<1>2. ASSUME NEW t \in Tasks, NEW x \in Scores, RecordHumanFeedback(th, t, x)
      PROVE  InSync(th)'
  <2>1. PICK r : /\ \E w : standing' = [standing EXCEPT ![ProcOf[th]][r.agent].window = w]
                 /\ call' = [call EXCEPT ![th] =
                        [NoCall EXCEPT !.op = "feedback", !.agent = r.agent,
                                       !.task = t, !.status = r.status, !.score = x]]
    BY <1>2 DEF RecordHumanFeedback
  <2>2. PICK s : standing' = [standing EXCEPT ![ProcOf[th]][r.agent] = s]
    BY <2>1
  <2>3. /\ UNCHANGED <<up, registered, pending, results, database>>
        /\ pc[th] = "idle" /\ pc'[th] = "log_feedback"
    BY <1>2 DEF RecordHumanFeedback, Idle, Goto
  <2>4. call'[th].agent = r.agent /\ call'[th].op = "feedback"
    BY <2>1 DEF NoCall
  <2> QED BY <2>2, <2>3, <2>4, SyncUnsaved DEF Unsaved
<1> QED BY <1>1, <1>2

\* The steps of a call that change a profile: a score, the cut of the window, and
\* an adjustment.
LEMMA SyncScoreAndAdjust ==
    ASSUME NEW th, Alone(th), TypeOK, InSync(th),
           \/ AdjustAutonomy(th) \/ CutWindow(th)
           \/ \E x \in Scores : Score(th, x)
    PROVE  InSync(th)'
<1> USE DEF Alone, TypeOK, ThreadType
<1> DEFINE p == ProcOf[th]
           a == call[th].agent
<1>1. CASE AdjustAutonomy(th)
  <2>1. PICK l : standing' = [standing EXCEPT ![p][a].level = l]
    BY <1>1 DEF AdjustAutonomy
  <2>2. PICK s : standing' = [standing EXCEPT ![p][a] = s]
    BY <2>1
  <2>3. /\ UNCHANGED <<up, registered, pending, results, database>>
        /\ pc[th] = "adjust" /\ pc'[th] = "log_adjusted" /\ call'[th].agent = a
    BY <1>1 DEF AdjustAutonomy, Goto
  <2> QED BY <2>2, <2>3, SyncUnsaved DEF Unsaved
<1>2. ASSUME NEW x \in Scores, Score(th, x) PROVE InSync(th)'
  <2>1. PICK w : standing' = [standing EXCEPT ![p][a].window = w]
    BY <1>2 DEF Score
  <2>2. PICK s : standing' = [standing EXCEPT ![p][a] = s]
    BY <2>1
  <2>3. /\ UNCHANGED <<up, registered, pending, results, database>>
        /\ pc[th] = "score" /\ pc'[th] = "cut"
    BY <1>2 DEF Score, Goto
  <2>4. call'[th].agent = a
    BY <1>2 DEF Score, Calls
  <2> QED BY <2>2, <2>3, <2>4, SyncUnsaved DEF Unsaved
<1>3. CASE CutWindow(th)
  <2>1. standing' = [standing EXCEPT ![p][a].window = LatestScores(@), ![p][a].count = @ + 1]
    BY <1>3 DEF CutWindow
  <2>2. PICK s : standing' = [standing EXCEPT ![p][a] = s]
    <3> DEFINE s == [standing[p][a] EXCEPT !.window = LatestScores(standing[p][a].window),
                                           !.count = standing[p][a].count + 1]
    <3>1. a \in Agents /\ "count" \in DOMAIN standing[p][a]
      <4>1. a \in Agents
        BY <1>3, Locals DEF CutWindow
      <4>2. standing[p][a] \in Standings
        BY <4>1, Home, StandingAt
      <4> QED BY <4>1, <4>2 DEF Standings, StandingOf
    <3>2. p \in DOMAIN standing /\ a \in DOMAIN standing[p]
      BY <3>1, Home DEF MemoryType
    <3>3. standing' = [standing EXCEPT ![p][a] = s]
      BY <2>1, <3>1, <3>2
    <3> QED BY <3>3
  <2>3. /\ UNCHANGED <<up, registered, pending, results, database>> /\ pc[th] = "cut"
    BY <1>3 DEF CutWindow
  <2>4. call'[th].agent = a /\ pc'[th] \in {"log_escalated", "log_completed"}
    BY <1>3, CutLocals
  <2> QED BY <2>2, <2>3, <2>4, SyncUnsaved DEF Unsaved
<1> QED BY <1>1, <1>2, <1>3

\* The steps that write what they change: the queue of approvals, the saved
\* profile and the result.
LEMMA SyncWrites ==
    ASSUME NEW th, Alone(th), TypeOK, InSync(th),
           \/ \E t \in Tasks : ApproveTask(th, t) \/ RejectTask(th, t)
           \/ HoldAtGate(th) \/ SavePending(th)
           \/ SnapshotAgent(th) \/ CommitAgent(th) \/ RecordResult(th)
    PROVE  InSync(th)'
<1> USE DEF Alone, TypeOK, ThreadType
<1> DEFINE p == ProcOf[th]
           a == call[th].agent
<1>0. /\ p \in Procs /\ call[th] \in Calls /\ LocalsFit(pc[th], call[th])
      /\ (pc[th] # "idle" => up[p] /\ a \in Agents)
      /\ pc[th] \in WorkSteps \cup HoldSteps \cup {"record"} => call[th].task \in Tasks
  BY Home, Locals
<1>1. ASSUME NEW t \in Tasks, ApproveTask(th, t) \/ RejectTask(th, t) PROVE InSync(th)'
  <2>1. /\ TakePending(th, t) /\ pc[th] = "idle" /\ pc'[th] \in {"idle", "approved", "rejected"}
        /\ UNCHANGED <<up, registered, standing, results, dbAgents, dbResults>>
    BY <1>1 DEF ApproveTask, RejectTask, TakePending, Idle, Goto
  <2>2. \A u \in Tasks : pending'[p][u] = dbPending'[u]
    BY <1>0, <2>1 DEF TakePending, Idle, InSync, MemoryType, DatabaseType
  <2> QED BY <2>1, <2>2 DEF InSync, Unsaved
<1>2. CASE HoldAtGate(th)
  <2>1. /\ pc[th] = "gate" /\ pc'[th] = "save_pending"
        /\ call'[th].task = call[th].task /\ call'[th].agent = a
        /\ UNCHANGED <<up, registered, standing, results, database>>
    BY <1>0, <1>2 DEF HoldAtGate, Goto, Calls
  <2>2. \A u \in Tasks : pending'[p][u] = IF u = call[th].task THEN a ELSE pending[p][u]
    BY <1>0, <1>2 DEF HoldAtGate, MemoryType
  <2> QED BY <2>1, <2>2 DEF InSync, Unsaved
<1>3. CASE SavePending(th)
  <2>1. /\ pc[th] = "save_pending" /\ pc'[th] = "log_pending"
        /\ UNCHANGED <<up, registered, standing, pending, results, dbAgents, dbResults, call>>
        /\ dbPending' = [dbPending EXCEPT ![call[th].task] = a]
    BY <1>3 DEF SavePending, Goto
  <2> QED BY <1>0, <2>1 DEF InSync, Unsaved, DatabaseType, HoldSteps
<1>4. CASE SnapshotAgent(th)
  <2>1. /\ pc[th] = "snap" /\ pc'[th] = "commit" /\ call'[th].agent = a
        /\ call'[th].snap = standing[p][a]
        /\ UNCHANGED <<up, registered, standing, pending, results, database>>
    BY <1>0, <1>4 DEF SnapshotAgent, Goto, Calls
  <2> QED BY <2>1 DEF InSync, Unsaved
<1>5. CASE CommitAgent(th)
  <2>1. /\ pc[th] = "commit" /\ pc'[th] \in {"idle", "log_switch", "log_failed", "record"}
        /\ UNCHANGED <<up, registered, standing, pending, results, dbPending, dbResults>>
        /\ dbAgents' = [dbAgents EXCEPT ![a] = call[th].snap]
    BY <1>0, <1>5 DEF CommitAgent, Goto, Return
  <2>2. ~ Unsaved(th)'
    BY <1>0, <1>5 DEF CommitAgent, Goto, Return, Unsaved, Calls
  <2> QED BY <1>0, <2>1, <2>2 DEF InSync, Unsaved, DatabaseType, MemoryType
<1>6. CASE RecordResult(th)
  <2>1. PICK r : /\ results' = [results EXCEPT ![p][call[th].task] = r]
                 /\ dbResults' = [dbResults EXCEPT ![call[th].task] = r]
    BY <1>6 DEF RecordResult
  <2>2. /\ pc[th] = "record"
        /\ UNCHANGED <<up, registered, standing, pending, dbAgents, dbPending>>
        /\ \/ call[th].op = "feedback" /\ pc'[th] = "snap" /\ UNCHANGED call
           \/ call[th].op # "feedback" /\ pc'[th] = "idle"
    BY <1>6 DEF RecordResult, Goto, Return
  <2>3. \A u \in Tasks : results'[p][u] # None => dbResults'[u] = results'[p][u]
    BY <1>0, <2>1, <2>2 DEF InSync, MemoryType, DatabaseType
  <2> QED BY <2>2, <2>3 DEF InSync, Unsaved
<1> QED BY <1>1, <1>2, <1>3, <1>4, <1>5, <1>6

\* A process reads what is saved, and saves what it registers for the first time.
LEMMA SyncProcess ==
    ASSUME NEW th, Alone(th), TypeOK, InSync(th),
           \E p \in Procs : StartProcess(p) \/ EndProcess(p)
    PROVE  InSync(th)'
<1> USE DEF Alone, TypeOK, ThreadType
<1> DEFINE p == ProcOf[th]
<1>1. CASE StartProcess(p)
  <2>1. /\ pending'[p] = dbPending /\ UNCHANGED <<results, dbPending, dbResults, pc, call>>
        /\ pc[th] = "idle"
    BY <1>1, Home DEF StartProcess, MemoryType
  <2>2. registered'[p] \subseteq Agents
    BY <1>1 DEF StartProcess, MemoryType
  <2>3. \A a \in registered'[p] : dbAgents'[a] = standing'[p][a]
    BY <1>1, <2>2 DEF StartProcess, MemoryType
  <2> QED BY <2>1, <2>3 DEF InSync
<1>2. CASE EndProcess(p)
  <2>1. /\ ~ up'[p] /\ registered'[p] = {} /\ results'[p] = NoTask /\ pc'[th] = "idle"
    BY <1>2, Home DEF EndProcess, MemoryType
  <2> QED BY <2>1 DEF InSync, NoTask
<1> QED BY <1>1, <1>2

\* Memory and database stay in step.
LEMMA SyncNext ==
    ASSUME NEW th, Alone(th)
    PROVE  TypeOK /\ InSync(th) /\ [Next]_vars => InSync(th)'
<1> SUFFICES ASSUME TypeOK, InSync(th), [Next]_vars PROVE InSync(th)'
  OBVIOUS
<1>1. CASE UNCHANGED vars
  BY <1>1 DEF vars, InSync, Unsaved
<1>2. CASE \E p \in Procs : StartProcess(p) \/ EndProcess(p)
  BY <1>2, SyncProcess
<1>3. CASE Request(th)
  BY <1>3, SyncQuiet, SyncSwitchAndFeedback, SyncWrites DEF Request
<1>4. CASE Proceed(th)
  BY <1>4, SyncQuiet, SyncScoreAndAdjust, SyncWrites DEF Proceed
<1> QED BY <1>1, <1>2, <1>3, <1>4 DEF Next, Alone

LEMMA SyncInit ==
    ASSUME NEW th, Alone(th)
    PROVE  Init => InSync(th)
BY Home DEF Init, InSync, NoTask, Alone

\* InSync holds always.
LEMMA AlwaysInSync ==
    ASSUME NEW th, Alone(th)
    PROVE  Spec => []InSync(th)
<1>1. Init => InSync(th)
  BY SyncInit
<1>2. TypeOK /\ InSync(th) /\ [Next]_vars => InSync(th)'
  BY SyncNext
<1> QED BY <1>1, <1>2, TypeCorrect, PTL DEF Spec

\* A restart changes nothing: whenever no call is in progress, what the process
\* would read back (supervisor.py 51-53, 62-67) is what it holds in memory.
THEOREM RestartChangesNothing ==
    ASSUME NEW th, Alone(th)
    PROVE  Spec => []WrittenThrough
<1>1. TypeOK /\ InSync(th) => WrittenThrough
  <2> SUFFICES ASSUME TypeOK, InSync(th), AtRest(ProcOf[th])
               PROVE  LET p == ProcOf[th]
                      IN  /\ pending[p] = dbPending
                          /\ \A a \in registered[p] : dbAgents[a] = standing[p][a]
                          /\ \A t \in Tasks : results[p][t] # None => dbResults[t] = results[p][t]
    BY DEF WrittenThrough, Alone
  <2>1. up[ProcOf[th]] /\ pc[th] = "idle"
    BY DEF AtRest, ThreadsOf, Alone
  <2>2. pending[ProcOf[th]] = dbPending
    BY <2>1, Home DEF InSync, TypeOK, MemoryType, DatabaseType, Alone
  <2> QED BY <2>1, <2>2 DEF InSync, Unsaved
<1> QED BY <1>1, TypeCorrect, AlwaysInSync, PTL

-------------------------------------------------------------------------------
(* The kill switch.                                                        *)

\* The process has a worker for the agent of the call, unless all the call does
\* is to reject a task.
AgentKnown(th) ==
    \/ pc[th] \in {"idle", "rejected"}
    \/ pc[th] = "record" /\ call[th].op = "task" /\ call[th].status = "REJECTED"
    \/ call[th].agent \in registered[ProcOf[th]]

PausedIn(s) == s # None /\ s.paused

\* An acknowledged pause is in memory and in the database, and one on its way
\* there is in memory before, and in the database when, it is acknowledged.
SwitchedOff(th) ==
    LET p == ProcOf[th]  c == call[th]
    IN  /\ \A a \in killed : /\ PausedIn(dbAgents[a])
                             /\ a \in registered[p] => standing[p][a].paused
        /\ c.op = "pause" => standing[p][c.agent].paused
        /\ c.op = "pause" /\ pc[th] = "log_switch" => PausedIn(dbAgents[c.agent])

\* The operations of a call that are in progress keep the agent.
LEMMA AgentStaysKnown ==
    ASSUME NEW th, Alone(th), TypeOK, AgentKnown(th), Request(th) \/ Proceed(th)
    PROVE  AgentKnown(th)'
<1> USE DEF Alone, TypeOK, ThreadType
<1> DEFINE p == ProcOf[th]
<1>0. /\ p \in Procs /\ call[th] \in Calls /\ LocalsFit(pc[th], call[th])
  BY Home, Locals
<1>1. CASE Request(th)
  <2>1. UNCHANGED registered
    BY <1>1 DEF Request, PauseAgent, ResumeAgent, AssignTask, RouteTask, ApproveTask,
                RejectTask, RecordHumanFeedback
  <2>2. ASSUME NEW a \in Agents, PauseAgent(th, a) \/ ResumeAgent(th, a)
        PROVE  AgentKnown(th)'
    <3>1. PICK op : call' = [call EXCEPT ![th] = [NoCall EXCEPT !.op = op, !.agent = a]]
      BY <2>2 DEF PauseAgent, ResumeAgent
    <3>2. call'[th].agent = a
      BY <3>1 DEF NoCall
    <3> QED BY <2>1, <2>2, <3>2 DEF AgentKnown, PauseAgent, ResumeAgent
  <2>3. ASSUME NEW a \in Agents, NEW t \in Tasks, AssignTask(th, a, t)
        PROVE  AgentKnown(th)'
    <3>1. pc'[th] = "idle" \/ call' = [call EXCEPT ![th] = TaskCall(a, t)]
      BY <2>3 DEF AssignTask, Admit, Goto, Return
    <3>2. CASE call' = [call EXCEPT ![th] = TaskCall(a, t)]
      BY <2>1, <2>3, <3>2, TaskCallFields DEF AgentKnown, AssignTask
    <3> QED BY <3>1, <3>2 DEF AgentKnown
  <2>4. ASSUME NEW t \in Tasks, RouteTask(th, t) PROVE AgentKnown(th)'
    <3>1. \/ pc'[th] = "idle"
          \/ \E a \in Eligible(p, t) : call' = [call EXCEPT ![th] = TaskCall(a, t)]
      BY <2>4 DEF RouteTask, Idle
    <3>2. Eligible(p, t) \subseteq registered[p]
      BY DEF Eligible
    <3>3. UNCHANGED registered
      BY <2>1
    <3> QED BY <3>1, <3>2, <3>3, TaskCallFields DEF AgentKnown
  <2>5. ASSUME NEW t \in Tasks, ApproveTask(th, t) PROVE AgentKnown(th)'
    <3>1. \/ UNCHANGED pc /\ pc[th] = "idle"
          \/ \E a \in registered[p] : call' = [call EXCEPT ![th] = TaskCall(a, t)]
      BY <2>5 DEF ApproveTask, TakePending, Idle
    <3> QED BY <2>1, <3>1, TaskCallFields DEF AgentKnown
  <2>6. ASSUME NEW t \in Tasks, RejectTask(th, t) PROVE AgentKnown(th)'
    BY <2>6 DEF AgentKnown, RejectTask, Goto
  <2>7. ASSUME NEW t \in Tasks, NEW x \in Scores, RecordHumanFeedback(th, t, x)
        PROVE  AgentKnown(th)'
    <3>1. PICK r : /\ r.agent \in registered[p]
                   /\ call' = [call EXCEPT ![th] =
                        [NoCall EXCEPT !.op = "feedback", !.agent = r.agent,
                                       !.task = t, !.status = r.status, !.score = x]]
      BY <2>7 DEF RecordHumanFeedback
    <3>2. call'[th].agent = r.agent
      BY <3>1 DEF NoCall
    <3> QED BY <2>1, <3>1, <3>2 DEF AgentKnown
  <2> QED BY <1>1, <2>2, <2>3, <2>4, <2>5, <2>6, <2>7 DEF Request
<1>2. CASE Proceed(th)
  <2>1. UNCHANGED registered
    BY <1>2 DEF Proceed, AssignRouted, PassGate, HoldAtGate, SavePending, LogPending,
         LogApproved, StartApproved, LogRejected, WorkerReturns, WorkerRaises, LogFailed,
         Score, CheckerRaises, CutWindow, LogEscalated, LogCompleted, Review,
         AdjustAutonomy, LogAdjusted, LogFeedback, SnapshotAgent, CommitAgent,
         RecordResult, LogSwitch
  <2>2. \/ pc'[th] = "idle"
        \/ call'[th].agent = call[th].agent
    <3>1. CASE AssignRouted(th)
      <4>1. \/ pc'[th] = "idle"
            \/ call' = [call EXCEPT ![th] = TaskCall(call[th].agent, call[th].task)]
        BY <3>1 DEF AssignRouted, Admit, Return, Goto
      <4> QED BY <4>1, TaskCallFields
    <3>2. CASE \/ PassGate(th) \/ SavePending(th) \/ LogPending(th) \/ LogApproved(th)
               \/ StartApproved(th) \/ LogRejected(th) \/ WorkerReturns(th)
               \/ LogFailed(th) \/ LogEscalated(th) \/ LogCompleted(th)
               \/ LogFeedback(th) \/ AdjustAutonomy(th)
      BY <3>2 DEF PassGate, Begin, SavePending, LogPending, LogApproved, StartApproved,
           LogRejected, WorkerReturns, LogFailed, LogEscalated, LogCompleted, LogFeedback,
           AdjustAutonomy
    <3>3. CASE CheckerRaises(th) \/ LogSwitch(th) \/ CommitAgent(th) \/ RecordResult(th)
      BY <1>0, <3>3 DEF CheckerRaises, LogSwitch, CommitAgent, RecordResult, Return, Goto, Calls
    <3>4. CASE HoldAtGate(th) \/ WorkerRaises(th) \/ SnapshotAgent(th)
      BY <1>0, <3>4 DEF HoldAtGate, WorkerRaises, SnapshotAgent, Calls
    <3>5. CASE Review(th) \/ LogAdjusted(th) \/ CutWindow(th)
      BY <3>5, ReviewKeeps, AdjustedLocals, CutLocals
    <3>6. ASSUME NEW x \in Scores, Score(th, x) PROVE call'[th].agent = call[th].agent
      BY <1>0, <3>6 DEF Score, Calls
    <3> QED BY <1>2, <3>1, <3>2, <3>3, <3>4, <3>5, <3>6 DEF Proceed
  <2>3. pc[th] # "idle"
    BY <1>2, StepAt
  <2>4. CASE pc[th] = "rejected"
    <3>1. LogRejected(th)
      BY <1>2, <2>4, StepAt
    <3> QED BY <1>0, <2>4, <3>1 DEF LogRejected, Goto, LocalsFit, WorkSteps, AgentKnown
  <2>5. CASE pc[th] = "record" /\ call[th].op = "task"
    <3>1. RecordResult(th)
      BY <1>2, <2>5, StepAt
    <3> QED BY <2>5, <3>1 DEF RecordResult, Return, Goto, AgentKnown
  <2> QED BY <2>1, <2>2, <2>3, <2>4, <2>5 DEF AgentKnown
<1> QED BY <1>1, <1>2

\* The process knows the agents of its calls.
LEMMA AgentKnownNext ==
    ASSUME NEW th, Alone(th)
    PROVE  TypeOK /\ AgentKnown(th) /\ [Next]_vars => AgentKnown(th)'
<1> SUFFICES ASSUME TypeOK, AgentKnown(th), [Next]_vars PROVE AgentKnown(th)'
  OBVIOUS
<1>1. CASE UNCHANGED vars
  BY <1>1 DEF vars, AgentKnown
<1>2. ASSUME NEW p \in Procs, StartProcess(p) \/ EndProcess(p) PROVE AgentKnown(th)'
  BY <1>2 DEF AgentKnown, Alone, StartProcess, EndProcess, TypeOK, ThreadType
<1>3. CASE Request(th) \/ Proceed(th)
  BY <1>3, AgentStaysKnown
<1> QED BY <1>1, <1>2, <1>3 DEF Next, Alone

\* The steps that change neither the switch of an agent nor what is saved of it.
LEMMA SwitchKept ==
    ASSUME NEW th, SwitchedOff(th), call'[th].op # "pause",
           UNCHANGED <<registered, standing, dbAgents, killed>>
    PROVE  SwitchedOff(th)'
BY DEF SwitchedOff, PausedIn

\* The steps that change another field of a profile, in memory.
LEMMA SwitchUntouched ==
    ASSUME NEW th, TypeOK, SwitchedOff(th), ProcOf[th] \in Procs, call'[th].op # "pause",
           NEW a \in Agents, NEW s, s.paused = standing[ProcOf[th]][a].paused,
           standing' = [standing EXCEPT ![ProcOf[th]][a] = s],
           UNCHANGED <<registered, dbAgents, killed>>
    PROVE  SwitchedOff(th)'
<1>1. \A b \in Agents : standing'[ProcOf[th]][b].paused = standing[ProcOf[th]][b].paused
  BY DEF TypeOK, MemoryType
<1>2. killed \subseteq Agents
  BY DEF TypeOK, HistoryType
<1> QED BY <1>1, <1>2 DEF SwitchedOff, PausedIn

\* The requests.
LEMMA RequestSwitch ==
    ASSUME NEW th, Alone(th), TypeOK, SwitchedOff(th), Request(th)
    PROVE  SwitchedOff(th)'
<1> USE DEF Alone, TypeOK, ThreadType
<1> DEFINE p == ProcOf[th]
<1>0. p \in Procs
  BY Home
<1>1. ASSUME NEW a \in Agents, PauseAgent(th, a) PROVE SwitchedOff(th)'
  <2> DEFINE s == [standing[p][a] EXCEPT !.paused = TRUE]
  <2>1. /\ standing' = [standing EXCEPT ![p][a] = s]
        /\ UNCHANGED <<registered, dbAgents, killed>> /\ pc'[th] = "snap"
    BY <1>1 DEF PauseAgent, Goto
  <2>2. s.paused
    BY <1>0, StandingAt DEF Standings, StandingOf
  <2>3. call' = [call EXCEPT ![th] = [NoCall EXCEPT !.op = "pause", !.agent = a]]
    BY <1>1 DEF PauseAgent
  <2>4. call'[th].agent = a
    BY <2>3 DEF NoCall
  <2> HIDE DEF s
  <2>5. \A b \in Agents : standing'[p][b] = IF b = a THEN s ELSE standing[p][b]
    BY <1>0, <2>1 DEF MemoryType
  <2> QED BY <2>1, <2>2, <2>4, <2>5 DEF SwitchedOff, PausedIn, HistoryType
<1>2. ASSUME NEW a \in Agents, ResumeAgent(th, a) PROVE SwitchedOff(th)'
  <2>1. PICK s : standing' = [standing EXCEPT ![p][a] = s]
    BY <1>2 DEF ResumeAgent
  <2>2. call' = [call EXCEPT ![th] = [NoCall EXCEPT !.op = "resume", !.agent = a]]
    BY <1>2 DEF ResumeAgent
  <2>3. call'[th].op # "pause"
    BY <2>2 DEF NoCall
  <2>4. UNCHANGED <<registered, dbAgents>> /\ killed' = killed \ {a}
    BY <1>2 DEF ResumeAgent
  <2>5. \A b \in Agents : b # a => standing'[p][b] = standing[p][b]
    BY <1>0, <2>1 DEF MemoryType
  <2> QED BY <2>3, <2>4, <2>5 DEF SwitchedOff, PausedIn, HistoryType
<1>3. CASE \/ \E a \in Agents, t \in Tasks : AssignTask(th, a, t)
           \/ \E t \in Tasks : RouteTask(th, t) \/ ApproveTask(th, t)
  <2>1. UNCHANGED <<registered, standing, dbAgents, killed>>
    BY <1>3 DEF AssignTask, RouteTask, ApproveTask
  <2>2. \/ UNCHANGED call /\ pc[th] = "idle"
        \/ call' = [call EXCEPT ![th] = NoCall]
        \/ \E a, t : call' = [call EXCEPT ![th] = TaskCall(a, t)]
    <3>1. CASE \E a \in Agents, t \in Tasks : AssignTask(th, a, t)
      BY <3>1 DEF AssignTask, Admit, Return
    <3>2. CASE \E t \in Tasks : RouteTask(th, t)
      BY <3>2 DEF RouteTask, Idle
    <3>3. CASE \E t \in Tasks : ApproveTask(th, t)
      BY <3>3 DEF ApproveTask, TakePending, Idle
    <3> QED BY <1>3, <3>1, <3>2, <3>3
  <2>3. call'[th].op \in {"none", "task"}
    <3>1. CASE UNCHANGED call /\ pc[th] = "idle"
      BY <3>1, Locals DEF LocalsFit, NoCall
    <3>2. CASE call' = [call EXCEPT ![th] = NoCall]
      BY <3>2 DEF NoCall
    <3>3. CASE \E a, t : call' = [call EXCEPT ![th] = TaskCall(a, t)]
      BY <3>3, TaskCallFields
    <3> QED BY <2>2, <3>1, <3>2, <3>3
  <2> QED BY <2>1, <2>3, SwitchKept
<1>4. ASSUME NEW t \in Tasks, RejectTask(th, t) PROVE SwitchedOff(th)'
  <2>1. UNCHANGED <<registered, standing, dbAgents, killed>>
    BY <1>4 DEF RejectTask
  <2>2. call' = [call EXCEPT ![th] = [TaskCall(pending[p][t], t) EXCEPT !.status = "REJECTED"]]
    BY <1>4 DEF RejectTask
  <2>3. call'[th].op = "task"
    BY <2>2 DEF TaskCall, NoCall
  <2> QED BY <2>1, <2>3, SwitchKept
<1>5. ASSUME NEW t \in Tasks, NEW x \in Scores, RecordHumanFeedback(th, t, x)
      PROVE  SwitchedOff(th)'
  <2>1. PICK r, w : /\ r.agent \in registered[p]
                    /\ standing' = [standing EXCEPT ![p][r.agent].window = w]
                    /\ call' = [call EXCEPT ![th] =
                        [NoCall EXCEPT !.op = "feedback", !.agent = r.agent,
                                       !.task = t, !.status = r.status, !.score = x]]
    BY <1>5 DEF RecordHumanFeedback
  <2>2. PICK a \in Agents : a = r.agent
    BY <1>0, <2>1 DEF MemoryType
  <2> DEFINE s == [standing[p][a] EXCEPT !.window = w]
  <2>3. standing' = [standing EXCEPT ![p][a] = s]
    BY <2>1, <2>2
  <2>4. s.paused = standing[p][a].paused
    BY <1>0, StandingAt DEF Standings, StandingOf
  <2>5. call'[th].op = "feedback"
    BY <2>1 DEF NoCall
  <2>6. UNCHANGED <<registered, dbAgents, killed>>
    BY <1>5 DEF RecordHumanFeedback
  <2> HIDE DEF s
  <2> QED BY <1>0, <2>3, <2>4, <2>5, <2>6, SwitchUntouched
<1> QED BY <1>1, <1>2, <1>3, <1>4, <1>5 DEF Request

\* The calls in progress.
LEMMA ProceedSwitch ==
    ASSUME NEW th, Alone(th), TypeOK, InSync(th), AgentKnown(th), SwitchedOff(th), Proceed(th)
    PROVE  SwitchedOff(th)'
<1> USE DEF Alone, TypeOK, ThreadType
<1> DEFINE p == ProcOf[th]
           a == call[th].agent
<1>0. /\ p \in Procs /\ call[th] \in Calls /\ LocalsFit(pc[th], call[th]) /\ pc[th] # "idle"
      /\ a \in Agents
  BY Home, Locals, StepAt
<1>1. CASE CommitAgent(th)
  <2>1. /\ dbAgents' = [dbAgents EXCEPT ![a] = standing[p][a]] /\ pc[th] = "commit"
        /\ UNCHANGED <<registered, standing, killed>>
    BY <1>1 DEF CommitAgent, InSync
  <2>2. a \in registered[p]
    BY <2>1 DEF AgentKnown
  <2>3. dbAgents'[a] = standing[p][a] /\ standing[p][a] # None
    BY <1>0, <2>1, StandingAt, NoneAssumption DEF DatabaseType
  <2>4. \A b \in Agents : b # a => dbAgents'[b] = dbAgents[b]
    BY <2>1 DEF DatabaseType
  <2>5. \/ call'[th].op = "none"
        \/ call'[th].op = call[th].op /\ call'[th].agent = a
    BY <1>0, <1>1 DEF CommitAgent, Return, NoCall, Calls
  <2> QED BY <2>1, <2>2, <2>3, <2>4, <2>5 DEF SwitchedOff, PausedIn, HistoryType
<1>2. CASE LogSwitch(th)
  <2>1. /\ UNCHANGED <<registered, standing, dbAgents>> /\ call'[th].op = "none"
        /\ killed' = IF call[th].op = "pause" THEN killed \cup {a} ELSE killed
        /\ pc[th] = "log_switch"
    BY <1>2 DEF LogSwitch, Return, NoCall
  <2> QED BY <2>1 DEF SwitchedOff, PausedIn
<1>3. CASE SnapshotAgent(th)
  <2>1. /\ UNCHANGED <<registered, standing, dbAgents, killed>> /\ pc'[th] = "commit"
        /\ call'[th].op = call[th].op /\ call'[th].agent = a
    BY <1>0, <1>3 DEF SnapshotAgent, Goto, Calls
  <2> QED BY <2>1 DEF SwitchedOff, PausedIn
<1>4. CASE AdjustAutonomy(th)
  <2>1. PICK l : standing' = [standing EXCEPT ![p][a].level = l]
    BY <1>4 DEF AdjustAutonomy
  <2> DEFINE s == [standing[p][a] EXCEPT !.level = l]
  <2>2. standing' = [standing EXCEPT ![p][a] = s]
    BY <2>1
  <2>3. s.paused = standing[p][a].paused
    BY <1>0, StandingAt DEF Standings, StandingOf
  <2>4. call'[th].op = "task" /\ UNCHANGED <<registered, dbAgents, killed>>
    BY <1>0, <1>4 DEF AdjustAutonomy, LocalsFit, WorkSteps
  <2> HIDE DEF s
  <2> QED BY <1>0, <2>2, <2>3, <2>4, SwitchUntouched
<1>5. ASSUME NEW x \in Scores, Score(th, x) PROVE SwitchedOff(th)'
  <2>1. PICK w : standing' = [standing EXCEPT ![p][a].window = w]
    BY <1>5 DEF Score
  <2> DEFINE s == [standing[p][a] EXCEPT !.window = w]
  <2>2. standing' = [standing EXCEPT ![p][a] = s]
    BY <2>1
  <2>3. s.paused = standing[p][a].paused
    BY <1>0, StandingAt DEF Standings, StandingOf
  <2>4. call'[th].op = "task" /\ UNCHANGED <<registered, dbAgents, killed>>
    BY <1>0, <1>5 DEF Score, Calls, LocalsFit, WorkSteps
  <2> HIDE DEF s
  <2> QED BY <1>0, <2>2, <2>3, <2>4, SwitchUntouched
<1>8. CASE CutWindow(th)
  <2> DEFINE s == [standing[p][a] EXCEPT !.window = LatestScores(standing[p][a].window),
                                         !.count = standing[p][a].count + 1]
  <2>1. standing' = [standing EXCEPT ![p][a].window = LatestScores(@), ![p][a].count = @ + 1]
    BY <1>8 DEF CutWindow
  <2>2. standing' = [standing EXCEPT ![p][a] = s]
    BY <1>0, <2>1 DEF MemoryType, Standings, StandingOf
  <2>3. s.paused = standing[p][a].paused
    BY <1>0, StandingAt DEF Standings, StandingOf
  <2>4. call'[th].op = "task" /\ UNCHANGED <<registered, dbAgents, killed>>
    BY <1>0, <1>8, CutLocals DEF CutWindow, LocalsFit, WorkSteps
  <2> HIDE DEF s
  <2> QED BY <1>0, <2>2, <2>3, <2>4, SwitchUntouched
<1>6. CASE pc[th] \notin {"commit", "log_switch", "snap", "adjust", "score", "cut"}
  <2>1. UNCHANGED <<registered, standing, dbAgents, killed>>
    BY <1>6 DEF Proceed, AssignRouted, PassGate, HoldAtGate, SavePending, LogPending,
         LogApproved, StartApproved, LogRejected, WorkerReturns, WorkerRaises, LogFailed,
         Score, CheckerRaises, CutWindow, LogEscalated, LogCompleted, Review,
         AdjustAutonomy, LogAdjusted, LogFeedback, SnapshotAgent, CommitAgent,
         RecordResult, LogSwitch
  <2>2. call[th].op \in {"task", "held", "feedback"}
    BY <1>0, <1>6 DEF LocalsFit, Steps, WorkSteps, HoldSteps
  <2>3. call'[th].op \in {call[th].op, "none", "task", "held"}
    <3>1. CASE AssignRouted(th)
      BY <1>0, <3>1, TaskCallFields DEF AssignRouted, Admit, Return
    <3>4. CASE Review(th) \/ WorkerRaises(th) \/ HoldAtGate(th)
      BY <1>0, <3>4 DEF Review, WorkerRaises, HoldAtGate, Calls
    <3>5. CASE LogAdjusted(th)
      BY <3>5, AdjustedLocals
    <3>2. CASE \/ PassGate(th) \/ SavePending(th) \/ LogPending(th) \/ LogApproved(th)
               \/ StartApproved(th) \/ LogRejected(th) \/ WorkerReturns(th)
               \/ LogFailed(th) \/ LogEscalated(th) \/ LogCompleted(th)
               \/ LogFeedback(th)
      BY <3>2 DEF PassGate, Begin, SavePending, LogPending, LogApproved, StartApproved,
           LogRejected, WorkerReturns, LogFailed, LogEscalated, LogCompleted, LogFeedback
    <3>3. CASE RecordResult(th)
      BY <3>3 DEF RecordResult, Return, NoCall
    <3> QED BY <1>0, <1>6, <3>1, <3>2, <3>3, <3>4, <3>5, StepAt
            DEF Steps, WorkSteps, HoldSteps
  <2> QED BY <2>1, <2>2, <2>3, SwitchKept
<1>7. CASE CheckerRaises(th)
  BY <1>7, SwitchKept DEF CheckerRaises, Return, NoCall
<1> QED BY <1>1, <1>2, <1>3, <1>4, <1>5, <1>6, <1>7, <1>8, StepAt

\* A process ends, or starts and reads the switches as they were saved.
LEMMA ProcessSwitch ==
    ASSUME NEW th, Alone(th), TypeOK, SwitchedOff(th),
           \E p \in Procs : StartProcess(p) \/ EndProcess(p)
    PROVE  SwitchedOff(th)'
<1> USE DEF Alone, TypeOK, ThreadType
<1> DEFINE p == ProcOf[th]
<1>1. CASE StartProcess(p)
  <2>1. pc[th] = "idle" /\ UNCHANGED <<call, killed>>
    BY <1>1, Home DEF StartProcess
  <2>2. call'[th].op = "none"
    BY <2>1, Locals DEF LocalsFit, NoCall
  <2>3. /\ registered'[p] \subseteq Agents
        /\ \A a \in registered'[p] : standing'[p][a] = Loaded(a)
        /\ \A a \in Agents : dbAgents'[a] = IF a \in registered'[p]
                                            THEN Loaded(a) ELSE dbAgents[a]
    BY <1>1 DEF StartProcess, MemoryType
  <2>4. \A a \in killed : dbAgents[a] # None /\ Loaded(a) = dbAgents[a] /\ dbAgents[a].paused
    BY DEF SwitchedOff, PausedIn, Loaded
  <2> QED BY <2>1, <2>2, <2>3, <2>4 DEF SwitchedOff, PausedIn, HistoryType
<1>2. CASE EndProcess(p)
  <2>1. registered'[p] = {} /\ call'[th] = NoCall /\ UNCHANGED <<dbAgents, killed>>
    BY <1>2, Home DEF EndProcess, MemoryType
  <2> QED BY <2>1 DEF SwitchedOff, PausedIn, NoCall
<1> QED BY <1>1, <1>2

\* A pause that was acknowledged stays.
LEMMA SwitchNext ==
    ASSUME NEW th, Alone(th)
    PROVE  TypeOK /\ InSync(th) /\ AgentKnown(th) /\ SwitchedOff(th) /\ [Next]_vars
           => SwitchedOff(th)'
<1> SUFFICES ASSUME TypeOK, InSync(th), AgentKnown(th), SwitchedOff(th), [Next]_vars
             PROVE  SwitchedOff(th)'
  OBVIOUS
<1>1. CASE UNCHANGED vars
  BY <1>1 DEF vars, SwitchedOff, PausedIn
<1>2. CASE \E p \in Procs : StartProcess(p) \/ EndProcess(p)
  BY <1>2, ProcessSwitch
<1>3. CASE Request(th)
  BY <1>3, RequestSwitch
<1>4. CASE Proceed(th)
  BY <1>4, ProceedSwitch
<1> QED BY <1>1, <1>2, <1>3, <1>4 DEF Next, Alone

\* The agent of a call in progress has a worker, and its switch is where an
\* acknowledged pause left it.
LEMMA AlwaysSwitchedOff ==
    ASSUME NEW th, Alone(th)
    PROVE  Spec => [](AgentKnown(th) /\ SwitchedOff(th))
<1>1. Init => AgentKnown(th) /\ SwitchedOff(th)
  BY DEF Init, AgentKnown, SwitchedOff, NoCall, Alone
<1>2. TypeOK /\ AgentKnown(th) /\ [Next]_vars => AgentKnown(th)'
  BY AgentKnownNext
<1>3. TypeOK /\ InSync(th) /\ AgentKnown(th) /\ SwitchedOff(th) /\ [Next]_vars
      => SwitchedOff(th)'
  BY SwitchNext
<1> QED BY <1>1, <1>2, <1>3, TypeCorrect, AlwaysInSync, PTL DEF Spec

\* A pause that was acknowledged (supervisor.py 82-85) stays in memory and in the
\* database, across restarts and crashes, until somebody resumes the agent.
THEOREM PausesStay ==
    ASSUME NEW th, Alone(th)
    PROVE  Spec => []KillSwitchHolds
<1>1. TypeOK /\ SwitchedOff(th) => KillSwitchHolds
  BY DEF SwitchedOff, PausedIn, KillSwitchHolds, Alone
<1> QED BY <1>1, TypeCorrect, AlwaysSwitchedOff, PTL

-------------------------------------------------------------------------------
(* The control flow of a call, and the events its steps log.               *)

\* The step a call in progress moves on to, and what it keeps of its locals.
Flows(th) ==
    /\ call'[th].agent = call[th].agent /\ call'[th].task = call[th].task
    /\ IF pc'[th] = "save_pending" THEN call'[th].op = "held"
                                   ELSE call'[th].op = call[th].op
    /\ pc'[th] \notin {"idle", "routed", "approved", "rejected", "log_feedback"}
    /\ pc'[th] = "gate" => pc[th] = "routed"
    /\ pc'[th] = "save_pending" => pc[th] = "gate"
    /\ pc'[th] = "log_pending" => pc[th] = "save_pending"
    /\ pc'[th] = "start" => pc[th] = "approved"
    /\ pc'[th] = "run" => pc[th] \in {"gate", "start"}
    /\ pc'[th] = "score" => pc[th] = "run"
    /\ pc'[th] = "cut" => pc[th] = "score"
    /\ pc'[th] = "log_escalated" => pc[th] = "cut"
    /\ pc'[th] = "log_completed" => pc[th] \in {"cut", "log_escalated"}
    /\ pc'[th] = "review" => pc[th] = "log_completed"
    /\ pc'[th] = "adjust" => pc[th] = "review"
    /\ pc'[th] = "log_adjusted" => pc[th] = "adjust"
    /\ pc'[th] = "snap" => pc[th] \in {"run", "review", "log_adjusted", "record"}
    /\ pc'[th] = "commit" => pc[th] = "snap"
    /\ pc'[th] \in {"log_switch", "log_failed"} => pc[th] = "commit"
    /\ pc'[th] = "record" =>
            pc[th] \in {"commit", "log_pending", "rejected", "log_failed", "log_feedback"}

\* The locals a request for the switch starts with.
LEMMA SwitchCall ==
    ASSUME NEW th \in Threads, TypeOK, NEW a, PauseAgent(th, a) \/ ResumeAgent(th, a)
    PROVE  /\ call'[th].op \in {"pause", "resume"} /\ call'[th].agent = a
           /\ call'[th].task = None
<1>1. PICK op \in {"pause", "resume"} :
        call' = [call EXCEPT ![th] = [NoCall EXCEPT !.op = op, !.agent = a]]
  BY DEF PauseAgent, ResumeAgent
<1> QED BY <1>1 DEF NoCall, TypeOK, ThreadType

\* The result a human's verdict is about.
ResultFor(p, t) == IF results[p][t] # None THEN results[p][t] ELSE dbResults[t]

\* The locals a verdict starts with.
LEMMA FeedbackCall ==
    ASSUME NEW th \in Threads, TypeOK, NEW t, NEW x, RecordHumanFeedback(th, t, x)
    PROVE  LET r == ResultFor(ProcOf[th], t)
           IN  /\ call'[th].op = "feedback" /\ call'[th].task = t
               /\ call'[th].agent = r.agent /\ call'[th].status = r.status
               /\ r # None /\ r.agent \in registered[ProcOf[th]]
<1> DEFINE r == ResultFor(ProcOf[th], t)
<1>1. call' = [call EXCEPT ![th] = [NoCall EXCEPT !.op = "feedback", !.agent = r.agent,
                                        !.task = t, !.status = r.status, !.score = x]]
  BY DEF RecordHumanFeedback, ResultFor
<1>2. r # None /\ r.agent \in registered[ProcOf[th]]
  BY DEF RecordHumanFeedback, ResultFor
<1> HIDE DEF r
<1>3. call'[th] = [NoCall EXCEPT !.op = "feedback", !.agent = r.agent,
                                 !.task = t, !.status = r.status, !.score = x]
  BY <1>1 DEF TypeOK, ThreadType
<1> QED BY <1>2, <1>3 DEF NoCall, r

\* The locals a decision starts with.
LEMMA DecisionCall ==
    ASSUME NEW th \in Threads, TypeOK, NEW t, ApproveTask(th, t) \/ RejectTask(th, t)
    PROVE  \/ pc'[th] = "idle" /\ call'[th] = NoCall
           \/ /\ call'[th].op = "task" /\ call'[th].task = t
              /\ pc'[th] \in {"approved", "rejected"}
<1>1. DOMAIN pc = Threads /\ DOMAIN call = Threads /\ LocalsFit(pc[th], call[th])
  BY Locals DEF TypeOK, ThreadType
<1>2. CASE ApproveTask(th, t)
  BY <1>1, <1>2, TaskCallFields DEF ApproveTask, TakePending, Idle, Goto, LocalsFit
<1>3. CASE RejectTask(th, t)
  <2>1. PICK a : call' = [call EXCEPT ![th] = [TaskCall(a, t) EXCEPT !.status = "REJECTED"]]
    BY <1>3 DEF RejectTask
  <2>2. pc'[th] = "rejected"
    BY <1>1, <1>3 DEF RejectTask, Goto
  <2> QED BY <1>1, <2>1, <2>2 DEF TaskCall, NoCall
<1> QED BY <1>2, <1>3

\* A call in progress moves on, or ends.
LEMMA CallFlows ==
    ASSUME NEW th \in Threads, TypeOK, Proceed(th)
    PROVE  Flows(th) \/ (pc'[th] = "idle" /\ call'[th] = NoCall)
<1> DEFINE Ends == pc'[th] = "idle" /\ call'[th] = NoCall
           Kept == /\ call'[th].agent = call[th].agent /\ call'[th].task = call[th].task
                   /\ call'[th].op = call[th].op
<1>0. /\ call[th] \in Calls /\ LocalsFit(pc[th], call[th])
      /\ DOMAIN pc = Threads /\ DOMAIN call = Threads
  BY Locals DEF TypeOK, ThreadType
<1>1. CASE AssignRouted(th)
  <2>1. \/ Ends
        \/ pc'[th] = "gate" /\ call'[th] = TaskCall(call[th].agent, call[th].task)
    BY <1>0, <1>1 DEF AssignRouted, Admit, Return, Goto
  <2>2. pc[th] = "routed" /\ call[th].op = "task"
    BY <1>0, <1>1 DEF AssignRouted, LocalsFit, WorkSteps
  <2> QED BY <2>1, <2>2, TaskCallFields DEF Flows
<1>2. CASE \/ PassGate(th) \/ SavePending(th) \/ LogPending(th) \/ LogApproved(th)
           \/ StartApproved(th) \/ LogRejected(th) \/ WorkerReturns(th) \/ LogFailed(th)
           \/ LogEscalated(th) \/ LogCompleted(th) \/ AdjustAutonomy(th) \/ LogFeedback(th)
  <2>1. /\ UNCHANGED call
        /\ <<pc[th], pc'[th]>> \in
            {<<"gate", "run">>, <<"save_pending", "log_pending">>, <<"log_pending", "record">>,
             <<"approved", "start">>, <<"start", "run">>, <<"rejected", "record">>,
             <<"run", "score">>, <<"log_failed", "record">>,
             <<"log_escalated", "log_completed">>, <<"log_completed", "review">>,
             <<"adjust", "log_adjusted">>, <<"log_feedback", "record">>}
    BY <1>0, <1>2 DEF PassGate, Begin, SavePending, LogPending, LogApproved, StartApproved,
         LogRejected, WorkerReturns, LogFailed, LogEscalated, LogCompleted,
         AdjustAutonomy, LogFeedback, Goto
  <2>2. pc'[th] # "save_pending"
    BY <2>1
  <2> QED BY <2>1, <2>2 DEF Flows
<1>3. CASE HoldAtGate(th)
  <2>1. pc[th] = "gate" /\ pc'[th] = "save_pending"
    BY <1>0, <1>3 DEF HoldAtGate, Goto
  <2>2. /\ call'[th].agent = call[th].agent /\ call'[th].task = call[th].task
        /\ call'[th].op = "held"
    BY <1>0, <1>3 DEF HoldAtGate, Calls
  <2> QED BY <2>1, <2>2 DEF Flows
<1>4. CASE WorkerRaises(th) \/ SnapshotAgent(th) \/ Review(th) \/ LogAdjusted(th)
  <2>1. <<pc[th], pc'[th]>> \in {<<"run", "snap">>, <<"snap", "commit">>, <<"review", "adjust">>,
                                <<"review", "snap">>, <<"log_adjusted", "snap">>}
    BY <1>0, <1>4 DEF WorkerRaises, SnapshotAgent, Review, LogAdjusted, Goto
  <2>2. Kept
    <3>1. CASE WorkerRaises(th) \/ SnapshotAgent(th)
      BY <1>0, <3>1 DEF WorkerRaises, SnapshotAgent, Calls
    <3>2. CASE Review(th)
      BY <1>0, <3>2 DEF Review, Calls
    <3>3. CASE LogAdjusted(th)
      BY <3>3, AdjustedLocals DEF TypeOK
    <3> QED BY <1>4, <3>1, <3>2, <3>3
  <2> QED BY <2>1, <2>2 DEF Flows
<1>5. ASSUME NEW x \in Scores, Score(th, x) PROVE Flows(th)
  <2>1. Kept
    BY <1>0, <1>5 DEF Score, Calls
  <2>2. pc[th] = "score" /\ pc'[th] = "cut"
    BY <1>0, <1>5 DEF Score, Goto
  <2> QED BY <2>1, <2>2 DEF Flows
<1>9. CASE CutWindow(th)
  <2>1. Kept /\ pc'[th] \in {"log_escalated", "log_completed"}
    BY <1>9, CutLocals DEF TypeOK
  <2>2. pc[th] = "cut"
    BY <1>9 DEF CutWindow
  <2> QED BY <2>1, <2>2 DEF Flows
<1>6. CASE CommitAgent(th)
  <2>1. \/ Ends
        \/ pc[th] = "commit" /\ pc'[th] \in {"log_switch", "log_failed", "record"} /\ Kept
    BY <1>0, <1>6 DEF CommitAgent, Return, Goto, Calls
  <2> QED BY <2>1 DEF Flows
<1>7. CASE RecordResult(th)
  <2>1. \/ Ends
        \/ pc[th] = "record" /\ pc'[th] = "snap" /\ UNCHANGED call
    BY <1>0, <1>7 DEF RecordResult, Return, Goto
  <2> QED BY <2>1 DEF Flows
<1>8. CASE CheckerRaises(th) \/ LogSwitch(th)
  BY <1>0, <1>8 DEF CheckerRaises, LogSwitch, Return, Goto
<1> HIDE DEF Ends, Kept
<1> QED BY <1>1, <1>2, <1>3, <1>4, <1>5, <1>6, <1>7, <1>8, <1>9 DEF Proceed, Ends

\* What logging an event does to the trail.
LEMMA LogAt ==
    ASSUME TypeOK, NEW t, NEW e, Log(t, e), NEW u \in Tasks, NEW f \in TaskEvents
    PROVE  taskLog'[u][f] = IF u = t /\ f = e THEN taskLog[u][f] + 1 ELSE taskLog[u][f]
BY DEF TypeOK, AuditType, Log

\* The events of a human's decision are logged by the two steps that are for it.
LEMMA DecisionsLogged ==
    ASSUME NEW th \in Threads, TypeOK, Request(th) \/ Proceed(th), NEW t \in Tasks,
           NEW e \in {"TASK_APPROVED_BY_HUMAN", "TASK_REJECTED_BY_HUMAN"}
    PROVE  taskLog'[t][e] =
             IF /\ pc[th] = IF e = "TASK_APPROVED_BY_HUMAN" THEN "approved" ELSE "rejected"
                /\ call[th].task = t
             THEN taskLog[t][e] + 1 ELSE taskLog[t][e]
<1>0. e \in TaskEvents
  BY DEF TaskEvents
<1>1. CASE UNCHANGED taskLog /\ pc[th] \notin {"approved", "rejected"}
  BY <1>1
<1>2. CASE \E u, f : /\ Log(u, f)
                     /\ f \notin {"TASK_APPROVED_BY_HUMAN", "TASK_REJECTED_BY_HUMAN"}
                     /\ pc[th] \notin {"approved", "rejected"}
  BY <1>0, <1>2, LogAt
<1>3. CASE pc[th] = "approved" /\ Log(call[th].task, "TASK_APPROVED_BY_HUMAN")
  BY <1>0, <1>3, LogAt
<1>4. CASE pc[th] = "rejected" /\ Log(call[th].task, "TASK_REJECTED_BY_HUMAN")
  BY <1>0, <1>4, LogAt
<1>5. CASE Request(th)
  BY <1>1, <1>2, <1>5 DEF Request, PauseAgent, ResumeAgent, AssignTask, Admit, RouteTask,
       ApproveTask, RejectTask, TakePending, RecordHumanFeedback, Idle
<1>6. CASE Proceed(th)
  <2>1. CASE pc[th] \in {"approved", "rejected"}
    BY <1>3, <1>4, <1>6, <2>1, StepAt DEF LogApproved, LogRejected
  <2>2. CASE pc[th] \notin {"approved", "rejected"}
    <3>1. \/ UNCHANGED taskLog
          \/ \E u, f : Log(u, f) /\ f \notin {"TASK_APPROVED_BY_HUMAN", "TASK_REJECTED_BY_HUMAN"}
      <4>1. CASE AssignRouted(th)
        BY <4>1 DEF AssignRouted, Admit
      <4>2. CASE PassGate(th) \/ StartApproved(th)
        BY <4>2 DEF PassGate, StartApproved, Begin
      <4>4. CASE \/ LogPending(th) \/ LogFailed(th) \/ LogEscalated(th)
                 \/ LogCompleted(th) \/ LogFeedback(th)
        BY <4>4 DEF LogPending, LogFailed, LogEscalated, LogCompleted, LogFeedback
      <4>5. CASE (\E x \in Scores : Score(th, x)) \/ CutWindow(th) \/ LogAdjusted(th)
        BY <4>5 DEF Score, CutWindow, LogAdjusted
      <4>3. CASE \/ HoldAtGate(th) \/ SavePending(th) \/ WorkerReturns(th)
                 \/ WorkerRaises(th) \/ CheckerRaises(th) \/ Review(th)
                 \/ AdjustAutonomy(th) \/ SnapshotAgent(th) \/ CommitAgent(th)
                 \/ RecordResult(th) \/ LogSwitch(th)
        BY <4>3 DEF HoldAtGate, SavePending, WorkerReturns, WorkerRaises, CheckerRaises,
           Review, AdjustAutonomy, SnapshotAgent, CommitAgent, RecordResult, LogSwitch
      <4> QED BY <1>6, <2>2, <4>1, <4>2, <4>3, <4>4, <4>5 DEF Proceed, LogApproved, LogRejected
    <3> QED BY <1>1, <1>2, <2>2, <3>1
  <2> QED BY <2>1, <2>2
<1> QED BY <1>5, <1>6

-------------------------------------------------------------------------------
(* One decision.                                                           *)

Decisions(t) == taskLog[t]["TASK_APPROVED_BY_HUMAN"] + taskLog[t]["TASK_REJECTED_BY_HUMAN"]
Queued(th, t) == dbPending[t] # None \/ pending[ProcOf[th]][t] # None
WorksOn(th, t) == call[th].op = "task" /\ call[th].task = t

\* The steps of a call whose task no human has decided on, or is being decided on.
Undecided == {"routed", "gate", "save_pending", "approved", "rejected"}

\* Nobody has decided on a task that is new, that waits, or that is on its way to
\* the gate or to the log of a decision; and a task that waits is submitted and
\* not being worked on.
Decided(th) ==
    \A t \in Tasks :
        /\ Decisions(t) <= 1
        /\ t \notin issued => Decisions(t) = 0 /\ ~ Queued(th, t)
        /\ Queued(th, t) => Decisions(t) = 0
        /\ pc[th] \in Undecided /\ call[th].task = t => Decisions(t) = 0
        /\ call[th].op \in {"task", "held"} /\ call[th].task = t => t \in issued
        /\ WorksOn(th, t) => ~ Queued(th, t)

\* The requests.
LEMMA RequestDecided ==
    ASSUME NEW th, Alone(th), TypeOK, Decided(th), Request(th)
    PROVE  Decided(th)'
<1> USE DEF Alone
<1> DEFINE p == ProcOf[th]
<1>0. /\ p \in Procs /\ call[th] \in Calls /\ LocalsFit(pc[th], call[th]) /\ pc[th] = "idle"
      /\ DOMAIN pc = Threads /\ DOMAIN call = Threads
      /\ pending \in [Procs -> [Tasks -> Agents \cup {None}]]
      /\ dbPending \in [Tasks -> Agents \cup {None}]
  BY Home, Locals DEF TypeOK, ThreadType, MemoryType, DatabaseType, Request, PauseAgent,
       ResumeAgent, AssignTask, RouteTask, ApproveTask, RejectTask, TakePending,
       RecordHumanFeedback, Idle
<1>1. \A t \in Tasks : Decisions(t)' = Decisions(t)
  BY <1>0, DecisionsLogged DEF Decisions
<1>2. call[th] = NoCall
  BY <1>0 DEF LocalsFit
<1>3. CASE \/ \E a \in Agents : PauseAgent(th, a) \/ ResumeAgent(th, a)
           \/ \E t \in Tasks, x \in Scores : RecordHumanFeedback(th, t, x)
  <2>1. UNCHANGED <<pending, dbPending, issued>> /\ pc'[th] \in {"snap", "log_feedback"}
    BY <1>0, <1>3 DEF PauseAgent, ResumeAgent, RecordHumanFeedback, Goto
  <2>2. call'[th].op \in {"pause", "resume", "feedback"}
    BY <1>3, SwitchCall, FeedbackCall
  <2> QED BY <1>1, <2>1, <2>2 DEF Decided, Queued, WorksOn, Undecided
<1>4. ASSUME NEW t \in Tasks, RouteTask(th, t) \/ \E a \in Agents : AssignTask(th, a, t)
      PROVE  Decided(th)'
  <2>1. /\ t \notin issued /\ issued' = issued \cup {t} /\ UNCHANGED <<pending, dbPending>>
        /\ pc'[th] \in {"idle", "routed", "gate"}
        /\ call'[th] = NoCall \/ \E a : call'[th] = TaskCall(a, t)
    <3>1. CASE RouteTask(th, t)
      BY <1>0, <1>2, <3>1 DEF RouteTask, Goto
    <3>2. CASE \E a \in Agents : AssignTask(th, a, t)
      BY <1>0, <3>2 DEF AssignTask, Admit, Goto, Return
    <3> QED BY <1>4, <3>1, <3>2
  <2>2. /\ call'[th].op \in {"none", "task"}
        /\ call'[th].task = t \/ (call'[th].task = None /\ call'[th].op = "none")
    BY <2>1, TaskCallFields
  <2> QED BY <1>1, <2>1, <2>2, RosterAssumption DEF Decided, Queued, WorksOn, Undecided
<1>5. ASSUME NEW t \in Tasks, ApproveTask(th, t) \/ RejectTask(th, t)
      PROVE  Decided(th)'
  <2>1. /\ Queued(th, t) /\ UNCHANGED issued
        /\ \A u \in Tasks : /\ ~ Queued(th, t)'
                            /\ u # t => (Queued(th, u)' <=> Queued(th, u))
    BY <1>0, <1>5 DEF ApproveTask, RejectTask, TakePending, Queued
  <2>2. /\ call'[th].op \in {"none", "task"}
        /\ call'[th].task = t \/ (call'[th].task = None /\ call'[th].op = "none")
    BY <1>5, DecisionCall, TaskCallFields
  <2> QED BY <1>1, <2>1, <2>2, RosterAssumption DEF Decided, WorksOn, Undecided
<1> QED BY <1>3, <1>4, <1>5 DEF Request

\* The calls in progress.
LEMMA ProceedDecided ==
    ASSUME NEW th, Alone(th), TypeOK, Decided(th), Proceed(th)
    PROVE  Decided(th)'
<1> USE DEF Alone
<1> DEFINE p == ProcOf[th]
           t == call[th].task
<1>0. /\ p \in Procs /\ call[th] \in Calls /\ LocalsFit(pc[th], call[th]) /\ pc[th] # "idle"
      /\ DOMAIN pc = Threads /\ DOMAIN call = Threads
      /\ pending \in [Procs -> [Tasks -> Agents \cup {None}]]
      /\ dbPending \in [Tasks -> Agents \cup {None}]
      /\ pc[th] \in WorkSteps \cup HoldSteps => t \in Tasks
      /\ call[th].agent \in Agents
  BY Home, Locals, StepAt DEF TypeOK, ThreadType, MemoryType, DatabaseType
<1>1. Flows(th) \/ (pc'[th] = "idle" /\ call'[th] = NoCall)
  BY CallFlows
<1>2. UNCHANGED issued
  BY DEF Proceed, AssignRouted, PassGate, HoldAtGate, SavePending, LogPending,
         LogApproved, StartApproved, LogRejected, WorkerReturns, WorkerRaises, LogFailed,
         Score, CheckerRaises, CutWindow, LogEscalated, LogCompleted, Review,
         AdjustAutonomy, LogAdjusted, LogFeedback, SnapshotAgent, CommitAgent,
         RecordResult, LogSwitch
<1>3. \A u \in Tasks : Decisions(u)' = IF pc[th] \in {"approved", "rejected"} /\ u = t
                                      THEN Decisions(u) + 1 ELSE Decisions(u)
  <2>1. \A u \in Tasks, e \in TaskEvents : taskLog[u][e] \in Nat
    BY DEF TypeOK, AuditType
  <2> QED BY <2>1, DecisionsLogged DEF Decisions, TaskEvents
<1>4. CASE pc[th] \in {"approved", "rejected"}
  <2>1. UNCHANGED <<pending, dbPending, call>> /\ pc'[th] \in {"start", "record"}
    BY <1>0, <1>4, StepAt DEF LogApproved, LogRejected, Goto
  <2>2. WorksOn(th, t)
    BY <1>0, <1>4 DEF WorksOn, LocalsFit, WorkSteps
  <2> QED BY <1>0, <1>2, <1>3, <1>4, <2>1, <2>2 DEF Decided, Queued, WorksOn, Undecided, WorkSteps
<1>5. CASE pc[th] = "gate" /\ pc'[th] = "save_pending"
  <2>1. HoldAtGate(th)
    BY <1>0, <1>5, StepAt DEF PassGate, Begin, Goto
  <2>2. \A u \in Tasks : Queued(th, u)' <=> u = t \/ Queued(th, u)
    BY <1>0, <2>1, RosterAssumption DEF HoldAtGate, Queued
  <2>3. WorksOn(th, t) /\ call'[th].op = "held" /\ call'[th].task = t
    BY <1>0, <1>1, <1>5, NoCallType DEF Flows, WorksOn, LocalsFit, WorkSteps
  <2> QED BY <1>2, <1>3, <1>5, <2>2, <2>3 DEF Decided, WorksOn, Undecided
<1>6. CASE pc[th] = "save_pending"
  <2>1. UNCHANGED <<pending, call>> /\ dbPending' = [dbPending EXCEPT ![t] = call[th].agent]
    BY <1>6, StepAt DEF SavePending
  <2>2. \A u \in Tasks : Queued(th, u)' => u = t \/ Queued(th, u)
    BY <1>0, <2>1 DEF Queued
  <2>3. call[th].op = "held" /\ pc'[th] = "log_pending"
    BY <1>0, <1>6, StepAt DEF LocalsFit, HoldSteps, SavePending, Goto
  <2> QED BY <1>2, <1>3, <1>6, <2>1, <2>2, <2>3 DEF Decided, WorksOn, Undecided
<1>7. CASE pc[th] \notin {"approved", "rejected", "save_pending"} /\ pc'[th] # "save_pending"
  <2>1. UNCHANGED <<pending, dbPending>>
    BY <1>0, <1>7 DEF Proceed, AssignRouted, PassGate, HoldAtGate, SavePending, LogPending,
         LogApproved, StartApproved, LogRejected, WorkerReturns, WorkerRaises, LogFailed,
         Score, CheckerRaises, CutWindow, LogEscalated, LogCompleted, Review,
         AdjustAutonomy, LogAdjusted, LogFeedback, SnapshotAgent, CommitAgent,
         RecordResult, LogSwitch, Goto
  <2>2. /\ call'[th].op \in {call[th].op, "none"}
        /\ call'[th].op # "none" => call'[th].task = t
        /\ pc'[th] \in Undecided => pc[th] \in Undecided /\ call'[th].task = t
    BY <1>1, <1>7, TaskCallFields DEF Flows, Undecided
  <2> QED BY <1>2, <1>3, <1>7, <2>1, <2>2 DEF Decided, Queued, WorksOn
<1> QED BY <1>1, <1>4, <1>5, <1>6, <1>7 DEF Flows

\* A process ends, or starts and reads the tasks that wait.
LEMMA ProcessDecided ==
    ASSUME NEW th, Alone(th), TypeOK, Decided(th),
           \E p \in Procs : StartProcess(p) \/ EndProcess(p)
    PROVE  Decided(th)'
<1> USE DEF Alone
<1> DEFINE p == ProcOf[th]
<1>0. /\ pending \in [Procs -> [Tasks -> Agents \cup {None}]] /\ p \in Procs
      /\ pc[th] # "idle" => up[p]
  BY Home, Locals DEF TypeOK, MemoryType, ThreadType
<1>1. UNCHANGED <<taskLog, issued, dbPending>>
  BY DEF StartProcess, EndProcess
<1>2. \A t \in Tasks : Queued(th, t)' => Queued(th, t)
  BY <1>0, <1>1 DEF StartProcess, EndProcess, Queued, NoTask
<1>3. pc'[th] = "idle" /\ call'[th] \in {call[th], NoCall}
  BY <1>0 DEF StartProcess, EndProcess
<1> QED BY <1>1, <1>2, <1>3, TaskCallFields DEF Decided, Decisions, WorksOn, Undecided

\* The decisions on a task stay one.
LEMMA DecidedNext ==
    ASSUME NEW th, Alone(th)
    PROVE  TypeOK /\ Decided(th) /\ [Next]_vars => Decided(th)'
<1> SUFFICES ASSUME TypeOK, Decided(th), [Next]_vars PROVE Decided(th)'
  OBVIOUS
<1>1. CASE UNCHANGED vars
  BY <1>1 DEF vars, Decided, Decisions, Queued, WorksOn
<1>2. CASE \E p \in Procs : StartProcess(p) \/ EndProcess(p)
  BY <1>2, ProcessDecided
<1>3. CASE Request(th)
  BY <1>3, RequestDecided
<1>4. CASE Proceed(th)
  BY <1>4, ProceedDecided
<1> QED BY <1>1, <1>2, <1>3, <1>4 DEF Next, Alone

\* Decided holds always.
LEMMA AlwaysDecided ==
    ASSUME NEW th, Alone(th)
    PROVE  Spec => []Decided(th)
<1>1. Init => Decided(th)
  BY Home, TaskCallFields DEF Init, Alone, Decided, Decisions, Queued, WorksOn, Undecided,
       NoTask, TaskEvents, NoCall
<1>2. TypeOK /\ Decided(th) /\ [Next]_vars => Decided(th)'
  BY DecidedNext
<1> QED BY <1>1, <1>2, TypeCorrect, PTL DEF Spec

\* A human decides on a task at most once: approve_task and reject_task pop it
\* from memory and from the table (supervisor.py 178-180, 188-190), and no
\* restart brings it back.
THEOREM OneDecision ==
    ASSUME NEW th, Alone(th)
    PROVE  Spec => []DecidedOnce
<1>1. Decided(th) => DecidedOnce
  BY DEF Decided, Decisions, DecidedOnce
<1> QED BY <1>1, AlwaysDecided, PTL

-------------------------------------------------------------------------------
(* Final outcomes.                                                         *)

\* A task that may still get an outcome.
Open(th, t) ==
    \/ t \notin issued
    \/ Queued(th, t)
    \/ call[th].op \in {"task", "held"} /\ call[th].task = t

\* A task that may still get an outcome has none, and a verdict in progress is
\* about the outcome that is recorded.
Outstanding(th) ==
    /\ \A t \in Tasks :
        Open(th, t) /\ dbResults[t] # None => dbResults[t].status = "PENDING_APPROVAL"
    /\ call[th].op = "feedback" =>
        /\ dbResults[call[th].task] # None
        /\ dbResults[call[th].task].status = call[th].status

\* A task that got its outcome stays closed.
LEMMA StaysClosed ==
    ASSUME NEW th, Alone(th), TypeOK, [Next]_vars, NEW t \in Tasks, Open(th, t)'
    PROVE  Open(th, t)
<1> USE DEF Alone
<1> DEFINE p == ProcOf[th]
<1>0. /\ p \in Procs /\ DOMAIN pc = Threads /\ DOMAIN call = Threads
      /\ LocalsFit(pc[th], call[th]) /\ (pc[th] # "idle" => up[p])
      /\ pending \in [Procs -> [Tasks -> Agents \cup {None}]]
      /\ dbPending \in [Tasks -> Agents \cup {None}]
      /\ pc[th] \in WorkSteps \cup HoldSteps => call[th].task \in Tasks
  BY Home, Locals DEF TypeOK, ThreadType, MemoryType, DatabaseType
<1>1. CASE UNCHANGED vars
  BY <1>1 DEF vars, Open, Queued
<1>2. CASE StartProcess(p)
  BY <1>0, <1>2 DEF StartProcess, Open, Queued
<1>3. CASE EndProcess(p)
  BY <1>0, <1>3, TaskCallFields DEF EndProcess, Open, Queued, NoTask
<1>4. CASE Request(th)
  <2>1. CASE \E a \in Agents : PauseAgent(th, a) \/ ResumeAgent(th, a)
    BY <2>1, SwitchCall DEF PauseAgent, ResumeAgent, Open, Queued
  <2>2. CASE \E u \in Tasks, x \in Scores : RecordHumanFeedback(th, u, x)
    BY <2>2, FeedbackCall DEF RecordHumanFeedback, Open, Queued
  <2>3. ASSUME NEW u \in Tasks, RouteTask(th, u) \/ \E a \in Agents : AssignTask(th, a, u)
        PROVE  Open(th, t)
    <3>1. /\ u \notin issued /\ issued' = issued \cup {u} /\ UNCHANGED <<pending, dbPending>>
          /\ \/ UNCHANGED call
             \/ call'[th] = NoCall \/ \E a : call'[th] = TaskCall(a, u)
      <4>1. CASE RouteTask(th, u)
        BY <1>0, <4>1 DEF RouteTask
      <4>2. CASE \E a \in Agents : AssignTask(th, a, u)
        BY <1>0, <4>2 DEF AssignTask, Admit, Return
      <4> QED BY <2>3, <4>1, <4>2
    <3> QED BY <3>1, TaskCallFields DEF Open, Queued
  <2>4. ASSUME NEW u \in Tasks, ApproveTask(th, u) \/ RejectTask(th, u)
        PROVE  Open(th, t)
    <3>1. /\ Queued(th, u) /\ UNCHANGED issued
          /\ \A v \in Tasks : v # u => (Queued(th, v)' <=> Queued(th, v))
      BY <1>0, <2>4 DEF ApproveTask, RejectTask, TakePending, Queued
    <3>2. call'[th].op \in {"task", "held"} => call'[th].task = u
      BY <2>4, DecisionCall, TaskCallFields
    <3> QED BY <3>1, <3>2 DEF Open
  <2> QED BY <1>4, <2>1, <2>2, <2>3, <2>4 DEF Request
<1>5. CASE Proceed(th)
  <2>1. Flows(th) \/ (pc'[th] = "idle" /\ call'[th] = NoCall)
    BY <1>5, CallFlows
  <2>2. UNCHANGED issued
    BY <1>5 DEF Proceed, AssignRouted, PassGate, HoldAtGate, SavePending, LogPending,
         LogApproved, StartApproved, LogRejected, WorkerReturns, WorkerRaises, LogFailed,
         Score, CheckerRaises, CutWindow, LogEscalated, LogCompleted, Review,
         AdjustAutonomy, LogAdjusted, LogFeedback, SnapshotAgent, CommitAgent,
         RecordResult, LogSwitch
  <2>3. Queued(th, t)' => Open(th, t)
    <3>1. CASE HoldAtGate(th) \/ SavePending(th)
      <4>1. call[th].op \in {"task", "held"}
        BY <1>0, <3>1 DEF HoldAtGate, SavePending, LocalsFit, WorkSteps, HoldSteps
      <4>2. CASE t = call[th].task
        BY <4>1, <4>2 DEF Open
      <4>3. CASE t # call[th].task
        BY <1>0, <3>1, <4>3 DEF HoldAtGate, SavePending, Open, Queued
      <4> QED BY <4>2, <4>3
    <3>2. CASE ~ (HoldAtGate(th) \/ SavePending(th))
      <4>1. UNCHANGED <<pending, dbPending>>
        BY <1>5, <3>2 DEF Proceed, AssignRouted, PassGate, LogPending,
           LogApproved, StartApproved, LogRejected, WorkerReturns, WorkerRaises, LogFailed,
           Score, CheckerRaises, CutWindow, LogEscalated, LogCompleted, Review,
           AdjustAutonomy, LogAdjusted, LogFeedback, SnapshotAgent, CommitAgent,
           RecordResult, LogSwitch
      <4> QED BY <4>1 DEF Open, Queued
    <3> QED BY <3>1, <3>2
  <2>4. call'[th].op \in {"task", "held"} /\ call'[th].task = t => Open(th, t)
    <3>1. CASE pc'[th] = "save_pending"
      BY <1>0, <2>1, <3>1, TaskCallFields DEF Flows, LocalsFit, WorkSteps, Open
    <3>2. CASE pc'[th] # "save_pending"
      BY <2>1, <3>2, TaskCallFields DEF Flows, Open
    <3> QED BY <3>1, <3>2
  <2> QED BY <2>2, <2>3, <2>4 DEF Open
<1> QED BY <1>1, <1>2, <1>3, <1>4, <1>5 DEF Next

\* Only the step that stores a result touches the results (supervisor.py 243-244,
\* and the same two lines where a call is held, refused or judged).
LEMMA OnlyRecordResult ==
    ASSUME NEW th, Alone(th), [Next]_vars
    PROVE  UNCHANGED dbResults \/ RecordResult(th)
<1>1. CASE UNCHANGED vars
  BY <1>1 DEF vars
<1>2. CASE \E p \in Procs : StartProcess(p) \/ EndProcess(p)
  BY <1>2 DEF StartProcess, EndProcess
<1>3. CASE Request(th)
  BY <1>3 DEF Request, PauseAgent, ResumeAgent, AssignTask, RouteTask, ApproveTask,
              RejectTask, RecordHumanFeedback
<1>4. CASE Proceed(th)
  BY <1>4 DEF Proceed, AssignRouted, PassGate, HoldAtGate, SavePending, LogPending,
         LogApproved, StartApproved, LogRejected, WorkerReturns, WorkerRaises, LogFailed,
         Score, CheckerRaises, CutWindow, LogEscalated, LogCompleted, Review,
         AdjustAutonomy, LogAdjusted, LogFeedback, SnapshotAgent, CommitAgent,
         LogSwitch
<1> QED BY <1>1, <1>2, <1>3, <1>4 DEF Next, Alone

\* The result that is stored.
LEMMA ResultStored ==
    ASSUME NEW th \in Threads, TypeOK, RecordResult(th)
    PROVE  /\ pc[th] = "record" /\ call[th].task \in Tasks
           /\ \A t \in Tasks : t # call[th].task => dbResults'[t] = dbResults[t]
           /\ dbResults'[call[th].task] # None
           /\ dbResults'[call[th].task].agent = call[th].agent
           /\ dbResults'[call[th].task].status = call[th].status
           /\ IF call[th].op = "feedback" THEN UNCHANGED call ELSE call'[th] = NoCall
<1> DEFINE r == [agent |-> call[th].agent, status |-> call[th].status,
                 score |-> call[th].score]
<1>1. /\ pc[th] = "record" /\ dbResults' = [dbResults EXCEPT ![call[th].task] = r]
      /\ IF call[th].op = "feedback" THEN UNCHANGED call ELSE Return(th)
  BY DEF RecordResult
<1>2. /\ call[th].task \in Tasks /\ call[th] \in Calls /\ LocalsFit(pc[th], call[th])
      /\ DOMAIN dbResults = Tasks /\ DOMAIN call = Threads /\ call[th].agent \in Agents
  BY <1>1, Locals DEF TypeOK, ThreadType, DatabaseType
<1>3. r \in Result
  BY <1>1, <1>2 DEF LocalsFit, Calls, Result, Outcomes, Statuses
<1>4. r # None /\ r.agent = call[th].agent /\ r.status = call[th].status
  BY <1>3, NoneAssumption
<1> HIDE DEF r
<1> QED BY <1>1, <1>2, <1>4 DEF Return

\* A task that may still get an outcome has none.
LEMMA OutstandingNext ==
    ASSUME NEW th, Alone(th)
    PROVE  TypeOK /\ InSync(th) /\ Decided(th) /\ Outstanding(th) /\ [Next]_vars
           => Outstanding(th)'
<1> USE DEF Alone
<1> SUFFICES ASSUME TypeOK, InSync(th), Decided(th), Outstanding(th), [Next]_vars
             PROVE  Outstanding(th)'
  OBVIOUS
<1>0. ProcOf[th] \in Procs /\ LocalsFit(pc[th], call[th])
  BY Home, Locals DEF TypeOK, ThreadType
<1>1. CASE RecordResult(th)
  <2>0. PICK u \in Tasks : u = call[th].task
    BY <1>1, ResultStored
  <2>1. UNCHANGED <<pending, dbPending, issued>>
    BY <1>1 DEF RecordResult
  <2>2. pc[th] = "record" /\ call[th].op \in {"task", "held", "feedback"}
    BY <1>0, <1>1, ResultStored DEF LocalsFit
  <2>3. ~ (Open(th, u)' /\ call[th].op = "task")
    <3>1. call[th].op = "task" => call'[th].op = "none"
      BY <1>1, ResultStored, TaskCallFields
    <3>2. call[th].op = "task" => u \in issued /\ ~ Queued(th, u)
      BY <2>0 DEF Decided, WorksOn
    <3> QED BY <2>1, <3>1, <3>2 DEF Open, Queued
  <2>4. Open(th, u)' => call[th].status = "PENDING_APPROVAL"
    <3>1. CASE call[th].op = "held"
      BY <1>0, <3>1 DEF LocalsFit
    <3>2. CASE call[th].op = "feedback"
      BY <2>0, <3>2, StaysClosed DEF Outstanding
    <3> QED BY <2>2, <2>3, <3>1, <3>2
  <2>5. call'[th].op = "feedback" => call'[th] = call[th]
    BY <1>1, ResultStored, TaskCallFields
  <2>6. \A t \in Tasks : Open(th, t)' /\ dbResults'[t] # None
                         => dbResults'[t].status = "PENDING_APPROVAL"
    BY <1>1, <2>0, <2>4, ResultStored, StaysClosed DEF Outstanding
  <2> QED BY <1>1, <2>5, <2>6, ResultStored DEF Outstanding
<1>2. CASE UNCHANGED dbResults
  <2>1. \A t \in Tasks : Open(th, t)' => Open(th, t)
    BY StaysClosed
  <2>2. call'[th].op = "feedback" => /\ dbResults[call'[th].task] # None
                                     /\ dbResults[call'[th].task].status = call'[th].status
    <3>1. ASSUME NEW t \in Tasks, NEW x \in Scores, RecordHumanFeedback(th, t, x)
          PROVE  /\ dbResults[call'[th].task] # None
                 /\ dbResults[call'[th].task].status = call'[th].status
      <4>1. ResultFor(ProcOf[th], t) # None => ResultFor(ProcOf[th], t) = dbResults[t]
        BY DEF ResultFor, InSync
      <4> QED BY <3>1, <4>1, FeedbackCall
    <3>2. CASE UNCHANGED vars
      BY <3>2 DEF vars, Outstanding
    <3>3. CASE \E p \in Procs : StartProcess(p) \/ EndProcess(p)
      BY <3>3, TaskCallFields DEF StartProcess, EndProcess, Outstanding
    <3>4. CASE \E a \in Agents : PauseAgent(th, a) \/ ResumeAgent(th, a)
      BY <3>4, SwitchCall
    <3>5. CASE \E t \in Tasks : ApproveTask(th, t) \/ RejectTask(th, t)
      BY <3>5, DecisionCall, TaskCallFields
    <3>6. CASE \/ \E t \in Tasks : RouteTask(th, t)
               \/ \E a \in Agents, t \in Tasks : AssignTask(th, a, t)
      <4>1. \/ UNCHANGED call
            \/ call'[th] = NoCall \/ \E a, t : call'[th] = TaskCall(a, t)
        <5>1. CASE \E t \in Tasks : RouteTask(th, t)
          BY <5>1 DEF RouteTask, TypeOK, ThreadType
        <5>2. CASE \E a \in Agents, t \in Tasks : AssignTask(th, a, t)
          BY <5>2 DEF AssignTask, Admit, Return, TypeOK, ThreadType
        <5> QED BY <3>6, <5>1, <5>2
      <4> QED BY <4>1, TaskCallFields DEF Outstanding
    <3>7. CASE Proceed(th)
      <4>1. call'[th].op = "feedback" => /\ call'[th].task = call[th].task
                                         /\ call[th].op = "feedback"
        BY <3>7, CallFlows, TaskCallFields DEF Flows
      <4>2. call[th].op = "feedback" => \/ RecordResult(th) \/ SnapshotAgent(th)
                                        \/ CommitAgent(th) \/ LogFeedback(th)
        BY <1>0, <3>7, StepAt DEF LocalsFit, WorkSteps, HoldSteps, TypeOK, ThreadType, Steps
      <4>3. call'[th].op = "feedback" => call'[th].status = call[th].status
        <5>1. CASE SnapshotAgent(th)
          BY <5>1, Locals DEF SnapshotAgent, TypeOK, ThreadType, Calls
        <5>2. CASE CommitAgent(th)
          BY <1>0, <5>2, <4>1, TaskCallFields DEF CommitAgent, Return, TypeOK, ThreadType
        <5>3. CASE RecordResult(th)
          BY <5>3, ResultStored, TaskCallFields
        <5>4. CASE LogFeedback(th)
          BY <5>4 DEF LogFeedback
        <5> QED BY <4>1, <4>2, <5>1, <5>2, <5>3, <5>4
      <4> QED BY <4>1, <4>3 DEF Outstanding
    <3> QED BY <3>1, <3>2, <3>3, <3>4, <3>5, <3>6, <3>7 DEF Next, Request
  <2> QED BY <1>2, <2>1, <2>2 DEF Outstanding
<1> QED BY <1>1, <1>2, OnlyRecordResult

\* Outstanding holds always.
LEMMA AlwaysOutstanding ==
    ASSUME NEW th, Alone(th)
    PROVE  Spec => []Outstanding(th)
<1>1. Init => Outstanding(th)
  BY TaskCallFields DEF Init, Alone, Outstanding, NoTask
<1>2. TypeOK /\ InSync(th) /\ Decided(th) /\ Outstanding(th) /\ [Next]_vars
      => Outstanding(th)'
  BY OutstandingNext
<1> QED BY <1>1, <1>2, TypeCorrect, AlwaysInSync, AlwaysDecided, PTL DEF Spec

\* What the table of results holds of a task that has an outcome is its last
\* (state_store.py 166-181): no crash, restart or verdict replaces its status.
THEOREM OutcomesAreFinal ==
    ASSUME NEW th, Alone(th)
    PROVE  Spec => OutcomeFinal
<1> DEFINE Kept == \A t \in Tasks :
        dbResults[t] # None /\ dbResults[t].status \in Outcomes =>
            dbResults'[t] # None /\ dbResults'[t].status = dbResults[t].status
<1>1. TypeOK /\ Decided(th) /\ Outstanding(th) /\ [Next]_vars => [Kept]_vars
  <2> SUFFICES ASSUME TypeOK, Decided(th), Outstanding(th), [Next]_vars,
                      NEW t \in Tasks, dbResults[t] # None, dbResults[t].status \in Outcomes
               PROVE  dbResults'[t] # None /\ dbResults'[t].status = dbResults[t].status
    OBVIOUS
  <2>1. CASE UNCHANGED dbResults
    BY <2>1
  <2>2. CASE RecordResult(th)
    <3>0. th \in Threads /\ LocalsFit(pc[th], call[th]) /\ pc[th] = "record"
      BY <2>2, Locals, ResultStored DEF Alone, TypeOK, ThreadType
    <3>1. ~ Open(th, t)
      BY DEF Outstanding, Outcomes
    <3>2. call[th].task = t => call[th].op = "feedback"
      BY <3>0, <3>1 DEF Open, LocalsFit
    <3> QED BY <2>2, <3>0, <3>2, ResultStored DEF Outstanding
  <2> QED BY <2>1, <2>2, OnlyRecordResult
<1>2. OutcomeFinal <=> [][Kept]_vars
  BY DEF OutcomeFinal
<1> HIDE DEF Kept
<1> QED BY <1>1, <1>2, TypeCorrect, AlwaysDecided, AlwaysOutstanding, PTL DEF Spec

-------------------------------------------------------------------------------
(* What routing and the gate rely on.                                      *)

RoutingEvents == {"TASK_ROUTED", "TASK_REJECTED_PAUSED", "TASK_REJECTED_WIP_LIMIT"}

\* Nobody has routed or refused a task that is new, a routed one is not refused,
\* and what a call has checked on its way to execution still holds: nothing comes
\* between the checks and the execution.
Admitted(th) ==
    LET p == ProcOf[th]  c == call[th]
    IN  /\ \A t \in Tasks :
            /\ t \notin issued => \A e \in RoutingEvents : taskLog[t][e] = 0
            /\ taskLog[t]["TASK_ROUTED"] > 0 =>
                /\ taskLog[t]["TASK_REJECTED_PAUSED"] = 0
                /\ taskLog[t]["TASK_REJECTED_WIP_LIMIT"] = 0
        /\ pc[th] = "routed" => HasSlot(p, c.agent)
        /\ pc[th] \in {"routed", "gate"} => ~ standing[p][c.agent].paused
        /\ pc[th] = "start" => taskLog[c.task]["TASK_APPROVED_BY_HUMAN"] > 0

\* The events of routing are logged by the steps that submit a task.
LEMMA RoutingLogged ==
    ASSUME NEW th \in Threads, TypeOK, NEW t \in Tasks, NEW e \in RoutingEvents,
           \/ \E a \in Agents : PauseAgent(th, a) \/ ResumeAgent(th, a)
           \/ \E u \in Tasks : ApproveTask(th, u) \/ RejectTask(th, u)
           \/ \E u \in Tasks, x \in Scores : RecordHumanFeedback(th, u, x)
           \/ Proceed(th) /\ pc[th] # "routed"
    PROVE  taskLog'[t][e] = taskLog[t][e]
<1>0. e \in TaskEvents
  BY DEF RoutingEvents, TaskEvents
<1>1. CASE UNCHANGED taskLog
  BY <1>1
<1>2. CASE \E u, f : Log(u, f) /\ f \notin RoutingEvents
  BY <1>0, <1>2, LogAt
<1>3. CASE \/ \E a \in Agents : PauseAgent(th, a) \/ ResumeAgent(th, a)
           \/ \E u \in Tasks : ApproveTask(th, u) \/ RejectTask(th, u)
           \/ \E u \in Tasks, x \in Scores : RecordHumanFeedback(th, u, x)
  BY <1>1, <1>3 DEF PauseAgent, ResumeAgent, ApproveTask, RejectTask, RecordHumanFeedback
<1>5. CASE Proceed(th) /\ pc[th] # "routed"
  <2>1. CASE PassGate(th) \/ StartApproved(th)
    BY <1>2, <2>1 DEF PassGate, StartApproved, Begin, RoutingEvents
  <2>2. CASE \/ LogPending(th) \/ LogApproved(th) \/ LogRejected(th) \/ LogFailed(th)
             \/ LogEscalated(th) \/ LogCompleted(th) \/ LogFeedback(th)
    BY <1>2, <2>2 DEF LogPending, LogApproved, LogRejected, LogFailed, LogEscalated,
         LogCompleted, LogFeedback, RoutingEvents
  <2>3. CASE (\E x \in Scores : Score(th, x)) \/ CutWindow(th) \/ LogAdjusted(th)
    BY <1>1, <2>3 DEF Score, CutWindow, LogAdjusted
  <2>4. CASE \/ HoldAtGate(th) \/ SavePending(th) \/ WorkerReturns(th) \/ WorkerRaises(th)
             \/ CheckerRaises(th) \/ Review(th) \/ AdjustAutonomy(th) \/ SnapshotAgent(th)
             \/ CommitAgent(th) \/ RecordResult(th) \/ LogSwitch(th)
    BY <1>1, <2>4 DEF HoldAtGate, SavePending, WorkerReturns, WorkerRaises, CheckerRaises,
         Review, AdjustAutonomy, SnapshotAgent, CommitAgent, RecordResult, LogSwitch
  <2> QED BY <1>5, <2>1, <2>2, <2>3, <2>4 DEF Proceed, AssignRouted
<1> QED BY <1>3, <1>5

\* The steps that submit a task, or route one to an agent that will take it.
LEMMA SubmissionsAdmitted ==
    ASSUME NEW th, Alone(th), TypeOK, Admitted(th),
           \/ \E a \in Agents, t \in Tasks : AssignTask(th, a, t)
           \/ \E t \in Tasks : RouteTask(th, t)
           \/ AssignRouted(th)
    PROVE  Admitted(th)'
<1> USE DEF Alone
<1> DEFINE p == ProcOf[th]
<1>0. /\ p \in Procs /\ LocalsFit(pc[th], call[th])
      /\ DOMAIN pc = Threads /\ DOMAIN call = Threads
      /\ \A t \in Tasks, e \in TaskEvents : taskLog[t][e] \in Nat
      /\ pc[th] = "routed" => call[th].task \in Tasks
  BY Home, Locals DEF TypeOK, ThreadType, AuditType, WorkSteps
<1>1. UNCHANGED <<registered, standing, active>>
  BY DEF AssignTask, RouteTask, AssignRouted
<1>2. RoutingEvents \subseteq TaskEvents /\ "TASK_ASSIGNED" \in TaskEvents \ RoutingEvents
  BY DEF RoutingEvents, TaskEvents
<1>3. ASSUME NEW t \in Tasks, NEW a \in Agents, AssignTask(th, a, t) PROVE Admitted(th)'
  <2>1. t \notin issued /\ issued' = issued \cup {t} /\ Admit(th, a, t)
    BY <1>3 DEF AssignTask
  <2>2. \A u \in Tasks, e \in RoutingEvents :
            u # t \/ e = "TASK_ROUTED" => taskLog'[u][e] = taskLog[u][e]
    BY <1>2, <2>1, LogAt DEF Admit, RoutingEvents
  <2>3. \/ pc'[th] = "idle"
        \/ /\ pc'[th] = "gate" /\ call'[th] = TaskCall(a, t)
           /\ ~ standing[p][a].paused
    BY <1>0, <2>1 DEF Admit, Goto, Return
  <2>4. pc'[th] = "gate" => ~ standing'[p][call'[th].agent].paused
    BY <1>1, <2>3, TaskCallFields
  <2> QED BY <2>1, <2>2, <2>3, <2>4 DEF Admitted, RoutingEvents
<1>4. ASSUME NEW t \in Tasks, RouteTask(th, t) PROVE Admitted(th)'
  <2>1. t \notin issued /\ issued' = issued \cup {t}
    BY <1>4 DEF RouteTask
  <2>2. \A u \in Tasks, e \in RoutingEvents :
            u # t \/ e # "TASK_ROUTED" => taskLog'[u][e] = taskLog[u][e]
    BY <1>2, <1>4, LogAt DEF RouteTask
  <2>3. \/ pc'[th] = "idle"
        \/ \E a \in Eligible(p, t) : pc'[th] = "routed" /\ call'[th] = TaskCall(a, t)
    BY <1>0, <1>4 DEF RouteTask, Goto, Idle
  <2>4. CASE pc'[th] = "idle"
    BY <2>1, <2>2, <2>4 DEF Admitted, RoutingEvents
  <2>5. ASSUME NEW a \in Eligible(p, t), pc'[th] = "routed", call'[th] = TaskCall(a, t)
        PROVE  Admitted(th)'
    <3>1. call'[th].agent = a
      BY <2>5, TaskCallFields
    <3>2. HasSlot(p, a)' /\ ~ standing'[p][a].paused
      BY <1>1, <2>5 DEF Eligible, HasSlot, Wip
    <3>3. HasSlot(p, call[th].agent)'
      BY <3>1, <3>2 DEF HasSlot, Wip
    <3> QED BY <2>1, <2>2, <2>5, <3>1, <3>2, <3>3 DEF Admitted, RoutingEvents
  <2> QED BY <2>3, <2>4, <2>5
<1>5. CASE AssignRouted(th)
  <2>1. /\ pc[th] = "routed" /\ UNCHANGED issued
        /\ HasSlot(p, call[th].agent) /\ ~ standing[p][call[th].agent].paused
        /\ Admit(th, call[th].agent, call[th].task)
    BY <1>5 DEF AssignRouted, Admitted
  <2>2. \A u \in Tasks, e \in RoutingEvents : taskLog'[u][e] = taskLog[u][e]
    BY <1>2, <2>1, LogAt DEF Admit
  <2>3. \/ pc'[th] = "idle"
        \/ pc'[th] = "gate" /\ call'[th] = TaskCall(call[th].agent, call[th].task)
    BY <1>0, <2>1 DEF Admit, Goto, Return
  <2>4. pc'[th] = "gate" => ~ standing'[p][call'[th].agent].paused
    BY <1>1, <2>1, <2>3, TaskCallFields
  <2> QED BY <2>1, <2>2, <2>3, <2>4 DEF Admitted, RoutingEvents
<1> QED BY <1>3, <1>4, <1>5

\* What a call has checked still holds when it acts on it.
LEMMA AdmittedNext ==
    ASSUME NEW th, Alone(th)
    PROVE  TypeOK /\ Admitted(th) /\ [Next]_vars => Admitted(th)'
<1> USE DEF Alone
<1> SUFFICES ASSUME TypeOK, Admitted(th), [Next]_vars PROVE Admitted(th)'
  OBVIOUS
<1>0. /\ LocalsFit(pc[th], call[th]) /\ DOMAIN pc = Threads
      /\ \A t \in Tasks, e \in TaskEvents : taskLog[t][e] \in Nat
      /\ pc[th] = "approved" => call[th].task \in Tasks
      /\ RoutingEvents \subseteq TaskEvents /\ "TASK_APPROVED_BY_HUMAN" \in TaskEvents
  BY Locals DEF TypeOK, ThreadType, AuditType, WorkSteps, RoutingEvents, TaskEvents
<1>1. CASE UNCHANGED vars
  BY <1>1 DEF vars, Admitted, HasSlot, Wip
<1>2. CASE \E p \in Procs : StartProcess(p) \/ EndProcess(p)
  <2>1. pc'[th] = "idle" /\ UNCHANGED <<taskLog, issued>>
    BY <1>2, Locals DEF StartProcess, EndProcess, TypeOK, ThreadType
  <2> QED BY <2>1 DEF Admitted, RoutingEvents
<1>3. CASE \/ \E a \in Agents, t \in Tasks : AssignTask(th, a, t)
           \/ \E t \in Tasks : RouteTask(th, t)
           \/ AssignRouted(th)
  BY <1>3, SubmissionsAdmitted
<1>4. CASE \/ \E a \in Agents : PauseAgent(th, a) \/ ResumeAgent(th, a)
           \/ \E t \in Tasks : ApproveTask(th, t) \/ RejectTask(th, t)
           \/ \E t \in Tasks, x \in Scores : RecordHumanFeedback(th, t, x)
           \/ Proceed(th) /\ pc[th] # "routed"
  <2>1. \A t \in Tasks, e \in RoutingEvents : taskLog'[t][e] = taskLog[t][e]
    BY <1>4, RoutingLogged
  <2>2. UNCHANGED issued
    BY <1>4 DEF PauseAgent, ResumeAgent, ApproveTask, RejectTask, RecordHumanFeedback,
         Proceed, AssignRouted, PassGate, HoldAtGate, SavePending, LogPending,
         LogApproved, StartApproved, LogRejected, WorkerReturns, WorkerRaises, LogFailed,
         Score, CheckerRaises, CutWindow, LogEscalated, LogCompleted, Review,
         AdjustAutonomy, LogAdjusted, LogFeedback, SnapshotAgent, CommitAgent,
         RecordResult, LogSwitch
  <2>3. pc'[th] \notin {"routed", "gate"} /\ (pc'[th] = "start" => LogApproved(th))
    <3>1. CASE Proceed(th) /\ pc[th] # "routed"
      BY <3>1, CallFlows, StepAt DEF Flows
    <3>2. CASE \E t \in Tasks : ApproveTask(th, t) \/ RejectTask(th, t)
      BY <3>2, DecisionCall
    <3>3. CASE \/ \E a \in Agents : PauseAgent(th, a) \/ ResumeAgent(th, a)
               \/ \E t \in Tasks, x \in Scores : RecordHumanFeedback(th, t, x)
      BY <1>0, <3>3 DEF PauseAgent, ResumeAgent, RecordHumanFeedback, Goto
    <3> QED BY <1>4, <3>1, <3>2, <3>3
  <2>4. LogApproved(th) => taskLog'[call'[th].task]["TASK_APPROVED_BY_HUMAN"] > 0
    BY <1>0, LogAt DEF LogApproved
  <2> QED BY <2>1, <2>2, <2>3, <2>4 DEF Admitted, RoutingEvents
<1>5. CASE Request(th)
  BY <1>3, <1>4, <1>5 DEF Request
<1>6. CASE Proceed(th)
  BY <1>3, <1>4, <1>6, StepAt
<1> QED BY <1>1, <1>2, <1>5, <1>6 DEF Next

\* Admitted holds always.
LEMMA AlwaysAdmitted ==
    ASSUME NEW th, Alone(th)
    PROVE  Spec => []Admitted(th)
<1>1. Init => Admitted(th)
  BY DEF Init, Alone, Admitted, RoutingEvents, TaskEvents
<1>2. TypeOK /\ Admitted(th) /\ [Next]_vars => Admitted(th)'
  BY AdmittedNext
<1> QED BY <1>1, <1>2, TypeCorrect, PTL DEF Spec

\* route_task picks an agent (router.py 39-44) that assign_task, which checks
\* again (supervisor.py 144-157), does not refuse.
THEOREM RoutedIsTaken ==
    ASSUME NEW th, Alone(th)
    PROVE  Spec => []RoutedIsAdmitted
<1>1. Admitted(th) => RoutedIsAdmitted
  BY DEF Admitted, RoutedIsAdmitted
<1> QED BY <1>1, AlwaysAdmitted, PTL

-------------------------------------------------------------------------------
(* The kill switch and the approvals.                                      *)

\* The steps that take a slot.
LEMMA SlotTaken ==
    ASSUME NEW th, Alone(th), TypeOK, SlotsExact, [Next]_vars,
           NEW p \in Procs, NEW a \in Agents, NEW t \in Tasks,
           active'[p][a][t] > active[p][a][t]
    PROVE  /\ PassGate(th) \/ StartApproved(th)
           /\ p = ProcOf[th] /\ a = call[th].agent /\ t = call[th].task
<1> USE DEF Alone
<1>0. /\ active \in [Procs -> [Agents -> [Tasks -> Int]]]
      /\ active[p][a][t] \in Int /\ active[p][a][t] >= 0
  BY DEF TypeOK, MemoryType, SlotsExact
<1>1. CASE UNCHANGED active
  BY <1>0, <1>1
<1>2. CASE \E q \in Procs : EndProcess(q)
  BY <1>0, <1>2 DEF EndProcess, NothingActive
<1>3. CASE FreeSlot(th)
  BY <1>0, <1>3 DEF FreeSlot
<1>4. CASE (PassGate(th) \/ StartApproved(th)) /\ Begin(th)
  BY <1>0, <1>4 DEF Begin
<1>5. CASE UNCHANGED vars \/ \E q \in Procs : StartProcess(q)
  BY <1>1, <1>5 DEF vars, StartProcess
<1>6. CASE Request(th)
  BY <1>1, <1>6 DEF Request, PauseAgent, ResumeAgent, AssignTask, RouteTask, ApproveTask,
                    RejectTask, RecordHumanFeedback
<1>7. CASE Proceed(th)
  <2>1. CASE PassGate(th) \/ StartApproved(th)
    BY <1>4, <2>1 DEF PassGate, StartApproved
  <2>2. CASE WorkerReturns(th) \/ WorkerRaises(th)
    BY <1>3, <2>2 DEF WorkerReturns, WorkerRaises
  <2>3. CASE ~ (PassGate(th) \/ StartApproved(th) \/ WorkerReturns(th) \/ WorkerRaises(th))
    BY <1>1, <1>7, <2>3 DEF Proceed, AssignRouted, HoldAtGate, SavePending, LogPending,
         LogApproved, LogRejected, LogFailed, Score, CheckerRaises, CutWindow,
         LogEscalated, LogCompleted, Review, AdjustAutonomy, LogAdjusted, LogFeedback,
         SnapshotAgent, CommitAgent, RecordResult, LogSwitch
  <2> QED BY <2>1, <2>2, <2>3
<1> QED BY <1>2, <1>5, <1>6, <1>7 DEF Next

\* The only work a paused agent starts is a task a human approved: approve_task
\* does not look at the switch (supervisor.py 175-183), assign_task does (144).
THEOREM PausedAgentsWait ==
    ASSUME NEW th, Alone(th)
    PROVE  Spec => PausedNeedsApproval
<1> DEFINE Signed == \A p \in Procs, a \in killed, t \in Tasks :
        active'[p][a][t] > active[p][a][t] => taskLog[t]["TASK_APPROVED_BY_HUMAN"] > 0
<1>1. /\ TypeOK /\ SlotsExact /\ AgentKnown(th) /\ SwitchedOff(th) /\ Admitted(th)
      /\ [Next]_vars
      => [Signed]_vars
  <2> SUFFICES ASSUME TypeOK, SlotsExact, AgentKnown(th), SwitchedOff(th), Admitted(th),
                      [Next]_vars, NEW p \in Procs, NEW a \in killed, NEW t \in Tasks,
                      active'[p][a][t] > active[p][a][t]
               PROVE  taskLog[t]["TASK_APPROVED_BY_HUMAN"] > 0
    OBVIOUS
  <2>1. a \in Agents
    BY DEF TypeOK, HistoryType
  <2>2. /\ PassGate(th) \/ StartApproved(th)
        /\ p = ProcOf[th] /\ a = call[th].agent /\ t = call[th].task
    BY <2>1, SlotTaken
  <2>3. ~ PassGate(th)
    BY <2>2 DEF PassGate, AgentKnown, SwitchedOff, Admitted
  <2> QED BY <2>2, <2>3 DEF StartApproved, Admitted
<1>2. PausedNeedsApproval <=> [][Signed]_vars
  BY DEF PausedNeedsApproval
<1> HIDE DEF Signed
<1> QED BY <1>1, <1>2, TypeCorrect, SlotsAreExact, AlwaysSwitchedOff, AlwaysAdmitted,
           PTL DEF Spec

-------------------------------------------------------------------------------
(* What a step does to the profiles, in memory and saved.                  *)

\* The level an adjustment writes.
NextLevel(c) == IF c.verdict = "PROMOTED" THEN c.level + 1 ELSE c.level - 1

\* A request or a step of a call counts a task, moves a level, or saves a profile,
\* of the agent of the call.
ProfileStep(th) ==
    LET p == ProcOf[th]  c == call[th]
    IN  /\ UNCHANGED registered
        /\ \A b \in Agents :
            /\ standing'[p][b].count =
                 IF pc[th] = "cut" /\ b = c.agent
                 THEN standing[p][b].count + 1 ELSE standing[p][b].count
            /\ standing'[p][b].level =
                 IF pc[th] = "adjust" /\ b = c.agent
                 THEN NextLevel(c) ELSE standing[p][b].level
            /\ dbAgents'[b] = IF pc[th] = "commit" /\ b = c.agent
                              THEN c.snap ELSE dbAgents[b]
            /\ \A v \in AgentEvents :
                 agentLog'[b][v] = IF pc[th] = "log_adjusted" /\ b = c.agent /\ v = c.verdict
                                   THEN agentLog[b][v] + 1 ELSE agentLog[b][v]

\* A step that touches neither.
LEMMA ProfilesKept ==
    ASSUME NEW th, UNCHANGED <<registered, standing, dbAgents, agentLog>>,
           pc[th] \notin {"cut", "adjust", "log_adjusted", "commit"}
    PROVE  ProfileStep(th)
BY DEF ProfileStep

\* A step that changes, in memory, neither the count nor the level of a profile.
LEMMA CountAndLevelKept ==
    ASSUME NEW th \in Threads, TypeOK, NEW a \in Agents, NEW s,
           standing' = [standing EXCEPT ![ProcOf[th]][a] = s],
           s.count = standing[ProcOf[th]][a].count, s.level = standing[ProcOf[th]][a].level,
           UNCHANGED <<registered, dbAgents, agentLog>>,
           pc[th] \notin {"cut", "adjust", "log_adjusted", "commit"}
    PROVE  ProfileStep(th)
<1>1. \A b \in Agents : standing'[ProcOf[th]][b] = IF b = a THEN s ELSE standing[ProcOf[th]][b]
  BY Home DEF TypeOK, MemoryType
<1> QED BY <1>1 DEF ProfileStep

\* What a request does to the profiles.
LEMMA RequestProfiles ==
    ASSUME NEW th \in Threads, TypeOK, Request(th)
    PROVE  ProfileStep(th)
<1> DEFINE p == ProcOf[th]
<1>0. p \in Procs /\ DOMAIN pc = Threads /\ registered[p] \subseteq Agents
  BY Home DEF TypeOK, ThreadType, MemoryType
<1>1. ASSUME NEW a \in Agents, PauseAgent(th, a) \/ ResumeAgent(th, a) PROVE ProfileStep(th)
  <2>1. PICK b \in BOOLEAN : standing' = [standing EXCEPT ![p][a].paused = b]
    BY <1>1 DEF PauseAgent, ResumeAgent
  <2> DEFINE s == [standing[p][a] EXCEPT !.paused = b]
  <2>2. standing' = [standing EXCEPT ![p][a] = s]
    BY <2>1
  <2>3. s.count = standing[p][a].count /\ s.level = standing[p][a].level
    BY StandingAt DEF TypeOK, Standings, StandingOf
  <2>4. pc[th] = "idle" /\ UNCHANGED <<registered, dbAgents, agentLog>>
    BY <1>1 DEF PauseAgent, ResumeAgent, Idle
  <2> HIDE DEF s
  <2> QED BY <2>2, <2>3, <2>4, CountAndLevelKept
<1>2. ASSUME NEW t \in Tasks, NEW x \in Scores, RecordHumanFeedback(th, t, x)
      PROVE  ProfileStep(th)
  <2>1. PICK r, w : /\ r.agent \in registered[p]
                    /\ standing' = [standing EXCEPT ![p][r.agent].window = w]
    BY <1>2 DEF RecordHumanFeedback
  <2>2. PICK a \in Agents : a = r.agent
    BY <1>0, <2>1
  <2> DEFINE s == [standing[p][a] EXCEPT !.window = w]
  <2>3. standing' = [standing EXCEPT ![p][a] = s]
    BY <2>1, <2>2
  <2>4. s.count = standing[p][a].count /\ s.level = standing[p][a].level
    BY StandingAt DEF TypeOK, Standings, StandingOf
  <2>5. pc[th] = "idle" /\ UNCHANGED <<registered, dbAgents, agentLog>>
    BY <1>2 DEF RecordHumanFeedback, Idle
  <2> HIDE DEF s
  <2> QED BY <2>3, <2>4, <2>5, CountAndLevelKept
<1>3. CASE \/ \E a \in Agents, t \in Tasks : AssignTask(th, a, t)
           \/ \E t \in Tasks : RouteTask(th, t)
  <2>1. UNCHANGED <<registered, standing, dbAgents, agentLog>> /\ pc[th] = "idle"
    BY <1>3 DEF AssignTask, RouteTask, Idle
  <2> QED BY <2>1, ProfilesKept
<1>4. CASE \E t \in Tasks : ApproveTask(th, t) \/ RejectTask(th, t)
  <2>1. UNCHANGED <<registered, standing, dbAgents, agentLog>> /\ pc[th] = "idle"
    BY <1>4 DEF ApproveTask, RejectTask, TakePending, Idle
  <2> QED BY <2>1, ProfilesKept
<1> QED BY <1>1, <1>2, <1>3, <1>4 DEF Request

\* What a step of a call does to the profiles.
LEMMA ProceedProfiles ==
    ASSUME NEW th \in Threads, TypeOK, Proceed(th)
    PROVE  ProfileStep(th)
<1> PICK p \in Procs, a \in {call[th].agent} : p = ProcOf[th]
  BY Home
<1>0. /\ a \in Agents /\ LocalsFit(pc[th], call[th]) /\ DOMAIN pc = Threads
      /\ standing \in [Procs -> [Agents -> Standings]]
      /\ agentLog \in [Agents -> [AgentEvents -> Nat]]
      /\ DOMAIN dbAgents = Agents
  BY Locals, StepAt DEF TypeOK, ThreadType, MemoryType, AuditType, DatabaseType
<1>6. ASSUME NEW x \in Scores, Score(th, x) PROVE ProfileStep(th)
  <2>1. PICK w : standing' = [standing EXCEPT ![p][a].window = w]
    BY <1>6 DEF Score
  <2> DEFINE s == [standing[p][a] EXCEPT !.window = w]
  <2>2. standing' = [standing EXCEPT ![p][a] = s]
    BY <2>1
  <2>3. s.count = standing[p][a].count /\ s.level = standing[p][a].level
    BY <1>0 DEF Standings, StandingOf
  <2>4. pc[th] = "score" /\ UNCHANGED <<registered, dbAgents, agentLog>>
    BY <1>6 DEF Score
  <2> HIDE DEF s
  <2> QED BY <1>0, <2>2, <2>3, <2>4, CountAndLevelKept
<1>1. CASE CutWindow(th)
  <2> DEFINE s == [standing[p][a] EXCEPT !.window = LatestScores(standing[p][a].window),
                                         !.count = standing[p][a].count + 1]
  <2>1. standing' = [standing EXCEPT ![p][a].window = LatestScores(@), ![p][a].count = @ + 1]
    BY <1>1 DEF CutWindow
  <2>2. standing' = [standing EXCEPT ![p][a] = s]
    BY <1>0, <2>1 DEF Standings, StandingOf
  <2>3. s.count = standing[p][a].count + 1 /\ s.level = standing[p][a].level
    BY <1>0 DEF Standings, StandingOf
  <2>4. pc[th] = "cut" /\ UNCHANGED <<registered, dbAgents, agentLog>>
    BY <1>1 DEF CutWindow
  <2> HIDE DEF s
  <2>5. \A b \in Agents : standing'[p][b] = IF b = a THEN s ELSE standing[p][b]
    BY <1>0, <2>2
  <2> QED BY <2>3, <2>4, <2>5 DEF ProfileStep
<1>2. CASE AdjustAutonomy(th)
  <2>1. /\ standing' = [standing EXCEPT ![p][a].level = NextLevel(call[th])]
        /\ pc[th] = "adjust" /\ UNCHANGED <<registered, dbAgents, agentLog>>
    BY <1>0, <1>2 DEF AdjustAutonomy, NextLevel
  <2> DEFINE s == [standing[p][a] EXCEPT !.level = NextLevel(call[th])]
  <2>2. standing' = [standing EXCEPT ![p][a] = s]
    BY <2>1
  <2>3. s.count = standing[p][a].count /\ s.level = NextLevel(call[th])
    BY <1>0 DEF Standings, StandingOf
  <2> HIDE DEF s
  <2>4. \A b \in Agents : standing'[p][b] = IF b = a THEN s ELSE standing[p][b]
    BY <1>0, <2>2
  <2> QED BY <2>1, <2>3, <2>4 DEF ProfileStep
<1>7. CASE LogAdjusted(th)
  <2>1. /\ agentLog' = [agentLog EXCEPT ![a][call[th].verdict] = @ + 1]
        /\ pc[th] = "log_adjusted" /\ UNCHANGED <<registered, standing, dbAgents>>
    BY <1>7 DEF LogAdjusted
  <2>2. \A b \in Agents, v \in AgentEvents :
            agentLog'[b][v] = IF b = a /\ v = call[th].verdict
                              THEN agentLog[b][v] + 1 ELSE agentLog[b][v]
    BY <1>0, <2>1
  <2> QED BY <2>1, <2>2 DEF ProfileStep
<1>3. CASE CommitAgent(th)
  <2>1. /\ UNCHANGED <<registered, standing, agentLog>> /\ pc[th] = "commit"
        /\ dbAgents' = [dbAgents EXCEPT ![a] = call[th].snap]
    BY <1>3 DEF CommitAgent
  <2> QED BY <1>0, <2>1 DEF ProfileStep
<1>4. CASE pc[th] \notin {"score", "cut", "adjust", "log_adjusted", "commit"}
  <2>1. UNCHANGED <<registered, standing, dbAgents, agentLog>>
    BY <1>4 DEF Proceed, AssignRouted, PassGate, HoldAtGate, SavePending, LogPending,
         LogApproved, StartApproved, LogRejected, WorkerReturns, WorkerRaises, LogFailed,
         Score, CheckerRaises, CutWindow, LogEscalated, LogCompleted, Review,
         AdjustAutonomy, LogAdjusted, LogFeedback, SnapshotAgent, CommitAgent,
         RecordResult, LogSwitch
  <2> QED BY <1>4, <2>1, ProfilesKept
<1>5. CASE CheckerRaises(th)
  <2>1. UNCHANGED <<registered, standing, dbAgents, agentLog>> /\ pc[th] = "score"
    BY <1>5 DEF CheckerRaises
  <2> QED BY <2>1, ProfilesKept
<1> QED BY <1>1, <1>2, <1>3, <1>4, <1>5, <1>6, <1>7, StepAt

-------------------------------------------------------------------------------
(* One rung per cycle.                                                     *)

\* A profile has moved by a rung since it was saved, at the end of a cycle.
OneRung(s, d) ==
    /\ s.level - d.level \in {-1, 1}
    /\ s.count = d.count + 1
    /\ s.count % EvaluationWindow = 0

\* How far the profile a call works on is from what is saved of it.
Cadence(th) ==
    LET p == ProcOf[th]  c == call[th]
        s == standing[p][c.agent]  d == dbAgents[c.agent]
    IN  /\ \A a \in registered[p] : dbAgents[a] # None
        /\ pc[th] = "cut" => s.level = d.level /\ s.count = d.count
        /\ pc[th] \in {"log_escalated", "log_completed", "review", "adjust"} =>
                s.level = d.level /\ s.count = d.count + 1
        /\ pc[th] = "adjust" => c.level = s.level /\ s.count % EvaluationWindow = 0
        /\ pc[th] = "log_adjusted" =>
                /\ c.level = d.level /\ s.level = NextLevel(c)
                /\ s.count = d.count + 1 /\ s.count % EvaluationWindow = 0
        /\ pc[th] \in {"snap", "commit"} => s.level = d.level \/ OneRung(s, d)
        /\ pc[th] \in {"log_feedback", "record"} /\ c.op = "feedback" => s.level = d.level

\* The step a request begins with.
LEMMA RequestSteps ==
    ASSUME NEW th \in Threads, TypeOK, Request(th)
    PROVE  /\ pc[th] = "idle"
           /\ pc'[th] \in {"idle", "snap", "routed", "gate", "approved", "rejected",
                          "log_feedback"}
<1>1. DOMAIN pc = Threads
  BY DEF TypeOK, ThreadType
<1>2. CASE \E a \in Agents, t \in Tasks : AssignTask(th, a, t)
  BY <1>1, <1>2 DEF AssignTask, Admit, Return, Goto, Idle
<1>3. CASE \E t \in Tasks : RouteTask(th, t)
  BY <1>1, <1>3 DEF RouteTask, Goto, Idle
<1>4. CASE \E t \in Tasks : ApproveTask(th, t) \/ RejectTask(th, t)
  BY <1>1, <1>4 DEF ApproveTask, RejectTask, TakePending, Goto, Idle
<1>5. CASE \E a \in Agents : PauseAgent(th, a) \/ ResumeAgent(th, a)
  BY <1>1, <1>5 DEF PauseAgent, ResumeAgent, Goto, Idle
<1>6. CASE \E t \in Tasks, x \in Scores : RecordHumanFeedback(th, t, x)
  BY <1>1, <1>6 DEF RecordHumanFeedback, Goto, Idle
<1> QED BY <1>2, <1>3, <1>4, <1>5, <1>6 DEF Request

\* What a review that decides has read.
LEMMA ReviewReads ==
    ASSUME NEW th \in Threads, TypeOK, Review(th), pc'[th] = "adjust"
    PROVE  LET s == standing[ProcOf[th]][call[th].agent]
           IN  /\ call'[th].level = s.level /\ s.count # 0
               /\ s.count % EvaluationWindow = 0
<1>1. DOMAIN pc = Threads /\ call \in [Threads -> Calls]
  BY DEF TypeOK, ThreadType
<1>2. PICK s \in {standing[ProcOf[th]][call[th].agent]}, v \in AgentEvents :
        call' = [call EXCEPT ![th].level = s.level, ![th].verdict = v] /\ DueForReview(s)
  BY <1>1 DEF Review, Goto, Promotes, Demotes, AgentEvents
<1>3. call'[th].level = s.level
  BY <1>1, <1>2 DEF Calls
<1> QED BY <1>2, <1>3 DEF DueForReview

\* The requests.
LEMMA RequestCadence ==
    ASSUME NEW th, Alone(th), TypeOK, InSync(th), AgentKnown(th), Cadence(th), Request(th)
    PROVE  Cadence(th)'
<1> USE DEF Alone
<1>1. AgentKnown(th)' /\ ProfileStep(th)
  BY AgentStaysKnown, RequestProfiles
<1>2. /\ pc[th] = "idle"
      /\ pc'[th] \in {"idle", "snap", "routed", "gate", "approved", "rejected",
                     "log_feedback"}
  BY RequestSteps
<1>3. \A b \in registered[ProcOf[th]] : dbAgents[b] = standing[ProcOf[th]][b] /\ b \in Agents
  BY <1>2, Home DEF InSync, Unsaved, TypeOK, MemoryType
<1>4. \A b \in registered[ProcOf[th]] :
        /\ standing'[ProcOf[th]][b].level = dbAgents'[b].level /\ dbAgents'[b] = dbAgents[b]
  BY <1>1, <1>2, <1>3 DEF ProfileStep
<1>5. registered' = registered
  BY <1>1 DEF ProfileStep
<1>6. pc'[th] \in {"snap", "log_feedback"} => call'[th].agent \in registered[ProcOf[th]]
  BY <1>1, <1>5 DEF AgentKnown
<1> QED BY <1>2, <1>4, <1>5, <1>6 DEF Cadence

\* The calls in progress.
LEMMA ProceedCadence ==
    ASSUME NEW th, Alone(th), TypeOK, InSync(th), AgentKnown(th), Cadence(th), Proceed(th)
    PROVE  Cadence(th)'
<1> USE DEF Alone
<1> PICK p \in Procs, a \in {call[th].agent} : p = ProcOf[th]
  BY Home
<1>0. /\ a \in Agents /\ LocalsFit(pc[th], call[th]) /\ DOMAIN pc = Threads
      /\ standing[p][a] \in Standings /\ dbAgents[a] \in Standings \cup {None}
      /\ registered[p] \subseteq Agents /\ None \notin Standings
  BY Locals, StepAt, StandingAt, NoneAssumption DEF TypeOK, ThreadType, MemoryType, DatabaseType
<1>1. ProfileStep(th)
  BY ProceedProfiles
<1>2. \A b \in registered'[p] : dbAgents'[b] # None
  BY <1>0, <1>1 DEF ProfileStep, Cadence, LocalsFit
<1>3. CASE pc'[th] = "idle"
  BY <1>2, <1>3 DEF Cadence
<1>4. CASE Flows(th)
  <2>1. call'[th].agent = a
    BY <1>4 DEF Flows
  <2>2. pc[th] \notin {"cut", "adjust", "commit"} =>
            /\ standing'[p][a].level = standing[p][a].level
            /\ standing'[p][a].count = standing[p][a].count
            /\ dbAgents'[a] = dbAgents[a]
    BY <1>0, <1>1 DEF ProfileStep
  <2>3. pc[th] \in {"run", "score"} => dbAgents[a] = standing[p][a]
    BY DEF InSync, Unsaved, AgentKnown
  <2>10. CASE pc'[th] = "cut"
    <3>1. pc[th] = "score"
      BY <1>4, <2>10 DEF Flows
    <3> QED BY <1>2, <2>1, <2>2, <2>3, <2>10, <3>1 DEF Cadence
  <2>4. CASE pc'[th] \in {"log_escalated", "log_completed"}
    <3>1. CASE pc[th] = "cut"
      <4>1. /\ dbAgents'[a] = dbAgents[a]
            /\ standing'[p][a].level = standing[p][a].level
            /\ standing'[p][a].count = standing[p][a].count + 1
        BY <1>0, <1>1, <3>1 DEF ProfileStep
      <4> QED BY <1>2, <2>1, <2>4, <3>1, <4>1 DEF Cadence
    <3>2. CASE pc[th] = "log_escalated"
      BY <1>2, <2>1, <2>2, <2>4, <3>2 DEF Cadence
    <3> QED BY <1>4, <2>4, <3>1, <3>2 DEF Flows
  <2>5. CASE pc'[th] = "review"
    <3>1. pc[th] = "log_completed"
      BY <1>4, <2>5 DEF Flows
    <3> QED BY <1>2, <2>1, <2>2, <2>5, <3>1 DEF Cadence
  <2>6. CASE pc'[th] = "adjust"
    <3>1. pc[th] = "review" /\ Review(th)
      BY <1>4, <2>6, StepAt DEF Flows
    <3>2. UNCHANGED standing
      BY <3>1 DEF Review
    <3> QED BY <1>2, <2>1, <2>2, <2>6, <3>1, <3>2, ReviewReads DEF Cadence
  <2>11. CASE pc'[th] = "log_adjusted"
    <3>1. pc[th] = "adjust" /\ AdjustAutonomy(th)
      BY <1>4, <2>11, StepAt DEF Flows
    <3>2. /\ standing'[p][a].level = NextLevel(call[th])
          /\ standing'[p][a].count = standing[p][a].count
          /\ dbAgents'[a] = dbAgents[a]
      BY <1>0, <1>1, <3>1 DEF ProfileStep
    <3>3. UNCHANGED call
      BY <3>1 DEF AdjustAutonomy
    <3> QED BY <1>2, <2>11, <3>1, <3>2, <3>3 DEF Cadence, NextLevel
  <2>7. CASE pc'[th] = "snap"
    <3>1. pc[th] \in {"run", "review", "log_adjusted", "record"}
      BY <1>4, <2>7 DEF Flows
    <3>2. CASE pc[th] \in {"run", "review"}
      BY <1>2, <2>1, <2>2, <2>3, <2>7, <3>2 DEF Cadence
    <3>3. CASE pc[th] = "record"
      <4>1. call[th].op = "feedback"
        BY <1>0, <2>7, <3>3, StepAt DEF RecordResult, Return, Goto
      <4> QED BY <1>2, <2>1, <2>2, <2>7, <3>3, <4>1 DEF Cadence
    <3>4. CASE pc[th] = "log_adjusted"
      <4>1. /\ standing'[p][a].level = NextLevel(call[th])
            /\ standing'[p][a].count = standing[p][a].count
            /\ dbAgents'[a] = dbAgents[a]
        BY <2>2, <3>4 DEF Cadence
      <4>2. /\ call[th].level = dbAgents[a].level
            /\ standing[p][a].count = dbAgents[a].count + 1
            /\ standing[p][a].count % EvaluationWindow = 0
        BY <3>4 DEF Cadence
      <4>3. call[th].level \in Int
        BY <1>0, Locals DEF TypeOK, Calls, Levels
      <4>4. OneRung(standing'[p][a], dbAgents'[a])
        BY <4>1, <4>2, <4>3 DEF OneRung, NextLevel
      <4> QED BY <1>2, <2>1, <2>7, <4>4 DEF Cadence, OneRung
    <3> QED BY <3>1, <3>2, <3>3, <3>4
  <2>8. CASE pc'[th] = "commit"
    <3>1. pc[th] = "snap"
      BY <1>4, <2>8 DEF Flows
    <3> QED BY <1>2, <2>1, <2>2, <2>8, <3>1 DEF Cadence, OneRung
  <2>9. CASE pc'[th] = "record" /\ call'[th].op = "feedback"
    <3>1. /\ call[th].op = "feedback"
          /\ pc[th] \in {"commit", "log_pending", "rejected", "log_failed", "log_feedback"}
      BY <1>4, <2>9 DEF Flows
    <3>2. pc[th] \in {"commit", "log_feedback"}
      BY <1>0, <3>1 DEF LocalsFit, WorkSteps, HoldSteps
    <3>3. pc[th] # "commit"
      BY <1>0, <2>9, <3>1, StepAt DEF CommitAgent, Return, Goto
    <3> QED BY <1>2, <2>1, <2>2, <2>9, <3>1, <3>2, <3>3 DEF Cadence
  <2>12. pc'[th] # "log_feedback"
    BY <1>4 DEF Flows
  <2> QED BY <1>2, <2>4, <2>5, <2>6, <2>7, <2>8, <2>9, <2>10, <2>11, <2>12 DEF Cadence
<1> QED BY <1>3, <1>4, CallFlows

\* A process that starts saves the profile of an agent nobody saved before.
LEMMA ProcessCadence ==
    ASSUME NEW th, Alone(th), TypeOK, Cadence(th),
           \E p \in Procs : StartProcess(p) \/ EndProcess(p)
    PROVE  Cadence(th)'
<1> USE DEF Alone
<1> DEFINE p == ProcOf[th]
<1>1. pc'[th] = "idle"
  BY Locals DEF StartProcess, EndProcess, TypeOK, ThreadType
<1>2. \A a \in registered'[p] : dbAgents'[a] # None
  <2>1. CASE StartProcess(p)
    <3>1. \A a \in Agents : FirstProfile(a) # None
      <4>1. \A a \in Agents : FirstProfile(a) \in Standings
        BY RosterAssumption DEF FirstProfile, Standings, StandingOf
      <4> QED BY <4>1, NoneAssumption
    <3>2. \A a \in registered'[p] : a \in Agents /\ dbAgents'[a] = Loaded(a)
      BY <2>1, Home DEF StartProcess, TypeOK, MemoryType
    <3> QED BY <3>1, <3>2 DEF Loaded
  <2>2. CASE EndProcess(p)
    BY <2>2, Home DEF EndProcess, TypeOK, MemoryType
  <2> QED BY <2>1, <2>2
<1> QED BY <1>1, <1>2 DEF Cadence

\* Cadence holds always.
LEMMA AlwaysCadence ==
    ASSUME NEW th, Alone(th)
    PROVE  Spec => []Cadence(th)
<1>1. Init => Cadence(th)
  BY Home DEF Init, Alone, Cadence
<1>2. TypeOK /\ InSync(th) /\ AgentKnown(th) /\ Cadence(th) /\ [Next]_vars => Cadence(th)'
  <2> SUFFICES ASSUME TypeOK, InSync(th), AgentKnown(th), Cadence(th), [Next]_vars
               PROVE  Cadence(th)'
    OBVIOUS
  <2>1. CASE UNCHANGED vars
    BY <2>1 DEF vars, Cadence, OneRung, NextLevel
  <2>2. CASE \E p \in Procs : StartProcess(p) \/ EndProcess(p)
    BY <2>2, ProcessCadence
  <2> QED BY <2>1, <2>2, RequestCadence, ProceedCadence DEF Next, Alone
<1> QED BY <1>1, <1>2, TypeCorrect, AlwaysInSync, AlwaysSwitchedOff, PTL DEF Spec

\* Autonomy is reviewed once per cycle (policy.py 21-31): the level that is saved
\* moves by one rung, with the count that closes a cycle.  A process that dies
\* before it saves loses the task and the rung together.
THEOREM ReviewsKeepCadence ==
    ASSUME NEW th, Alone(th)
    PROVE  Spec => ReviewCadence
<1> DEFINE Rung == \A a \in Agents :
        dbAgents[a] # None /\ dbAgents'[a].level # dbAgents[a].level =>
            /\ dbAgents'[a].level - dbAgents[a].level \in {-1, 1}
            /\ dbAgents'[a].count = dbAgents[a].count + 1
            /\ dbAgents'[a].count % EvaluationWindow = 0
<1>1. TypeOK /\ InSync(th) /\ Cadence(th) /\ [Next]_vars => [Rung]_vars
  <2> SUFFICES ASSUME TypeOK, InSync(th), Cadence(th), [Next]_vars, NEW a \in Agents,
                      dbAgents[a] # None, dbAgents'[a].level # dbAgents[a].level
               PROVE  OneRung(dbAgents'[a], dbAgents[a])
    BY DEF OneRung
  <2>1. ~ UNCHANGED vars
    BY DEF vars
  <2>2. ~ \E p \in Procs : StartProcess(p) \/ EndProcess(p)
    BY DEF StartProcess, EndProcess, Loaded
  <2>3. ProfileStep(th)
    BY <2>1, <2>2, RequestProfiles, ProceedProfiles DEF Next, Alone
  <2>4. pc[th] = "commit" /\ a = call[th].agent /\ dbAgents'[a] = call[th].snap
    BY <2>3 DEF ProfileStep
  <2> QED BY <2>4 DEF InSync, Cadence
<1>2. ReviewCadence <=> [][Rung]_vars
  BY DEF ReviewCadence
<1> HIDE DEF Rung
<1> QED BY <1>1, <1>2, TypeCorrect, AlwaysInSync, AlwaysCadence, PTL DEF Spec

-------------------------------------------------------------------------------
(* The trail accounts for the levels.  A process that is killed inside a   *)
(* call may lose an adjustment that was logged, so this takes a process    *)
(* that is only ever stopped between calls.                                *)

\* The profile an agent has, or would have if the process started now.
InForce(th, a) == IF a \in registered[ProcOf[th]] THEN standing[ProcOf[th]][a] ELSE Loaded(a)

Adjustments(a) == agentLog[a]["PROMOTED"] + agentLog[a]["DEMOTED"]

\* The tasks of an agent that the review in progress must leave uncounted.
Reserved(th, a) ==
    IF call[th].agent = a
    THEN IF pc[th] \in {"log_escalated", "log_completed", "review"} THEN 1
         ELSE IF pc[th] \in {"adjust", "log_adjusted"} THEN EvaluationWindow ELSE 0
    ELSE 0

\* The level of an agent, without the move that is not logged yet.
LoggedLevel(th, a) ==
    IF pc[th] = "log_adjusted" /\ call[th].agent = a
    THEN call[th].level ELSE InForce(th, a).level

\* The level is the first one, moved by what was logged, and every adjustment
\* has a cycle of completed tasks of its own.
Accounted(th) ==
    \A a \in Agents :
        /\ LoggedLevel(th, a) =
             InitialLevel[a] + agentLog[a]["PROMOTED"] - agentLog[a]["DEMOTED"]
        /\ Adjustments(a) * EvaluationWindow <= InForce(th, a).count - Reserved(th, a)

\* As many adjustments as fit into a number of tasks are as many as its cycles.
LEMMA FitsCycles ==
    ASSUME NEW m \in Nat, NEW n \in Nat, m * EvaluationWindow <= n
    PROVE  m <= n \div EvaluationWindow
BY EvaluationWindowAssumption

\* At the end of a cycle, one more adjustment fits if one task was left over.
LEMMA OneMoreFits ==
    ASSUME NEW m \in Nat, NEW n \in Nat,
           m * EvaluationWindow <= n - 1, n % EvaluationWindow = 0
    PROVE  m * EvaluationWindow <= n - EvaluationWindow
<1> PICK w \in Nat \ {0} : w = EvaluationWindow
  BY EvaluationWindowAssumption
<1>1. PICK q \in Int : n = w * q
  <2>1. n = w * (n \div w) + (n % w) /\ n \div w \in Int
    OBVIOUS
  <2>2. n = w * (n \div w)
    BY <2>1
  <2> QED BY <2>1, <2>2
<1>2. m <= q - 1
  <2> SUFFICES ASSUME m >= q PROVE FALSE
    BY <1>1
  <2>1. m * w >= q * w
    OBVIOUS
  <2> QED BY <1>1, <2>1
<1>3. m * w <= (q - 1) * w
  BY <1>2
<1>4. (q - 1) * w = w * q - w
  OBVIOUS
<1> QED BY <1>1, <1>3, <1>4

\* Between two calls the profile in force is the one that is saved.
LEMMA InForceIsSaved ==
    ASSUME NEW th, Alone(th), InSync(th), Cadence(th), ~ Unsaved(th), NEW a \in Agents
    PROVE  InForce(th, a) = Loaded(a)
BY DEF InForce, Loaded, InSync, Cadence

\* A process that starts or stops changes no profile in force.
LEMMA ProcessAccounted ==
    ASSUME NEW th, Alone(th), "crash" \notin Faults, TypeOK, InSync(th), Cadence(th),
           Accounted(th), \E p \in Procs : StartProcess(p) \/ EndProcess(p)
    PROVE  Accounted(th)'
<1> USE DEF Alone
<1> DEFINE p == ProcOf[th]
<1>1. pc[th] = "idle" /\ pc'[th] = "idle" /\ UNCHANGED agentLog
  BY Locals DEF StartProcess, EndProcess, ThreadsOf, TypeOK, ThreadType
<1>2. \A a \in Agents : InForce(th, a) = Loaded(a)
  BY <1>1, InForceIsSaved DEF Unsaved
<1>3. \A a \in Agents : InForce(th, a)' = Loaded(a)
  <2>1. CASE StartProcess(p)
    BY <2>1, Home DEF StartProcess, InForce, Loaded, TypeOK, MemoryType
  <2>2. CASE EndProcess(p)
    <3>1. registered'[p] = {} /\ UNCHANGED dbAgents
      BY <2>2, Home DEF EndProcess, TypeOK, MemoryType
    <3> QED BY <3>1 DEF InForce, Loaded
  <2> QED BY <2>1, <2>2
<1>4. \A a \in Agents :
        /\ Reserved(th, a) = 0 /\ Reserved(th, a)' = 0
        /\ LoggedLevel(th, a) = InForce(th, a).level
        /\ LoggedLevel(th, a)' = InForce(th, a)'.level
  BY <1>1 DEF Reserved, LoggedLevel
<1> QED BY <1>1, <1>2, <1>3, <1>4 DEF Accounted, Adjustments

\* What a step does to the profile in force.
LEMMA InForceStep ==
    ASSUME NEW th, Alone(th), TypeOK, AgentKnown(th), ProfileStep(th), NEW a \in Agents
    PROVE  /\ InForce(th, a)'.count =
                IF pc[th] = "cut" /\ a = call[th].agent
                THEN InForce(th, a).count + 1 ELSE InForce(th, a).count
           /\ InForce(th, a)'.level =
                IF pc[th] = "adjust" /\ a = call[th].agent
                THEN NextLevel(call[th]) ELSE InForce(th, a).level
<1>1. CASE a \in registered[ProcOf[th]]
  BY <1>1 DEF ProfileStep, InForce
<1>2. CASE a \notin registered[ProcOf[th]]
  <2>1. ~ (pc[th] \in {"cut", "adjust", "commit"} /\ a = call[th].agent)
    BY <1>2 DEF AgentKnown
  <2>2. dbAgents'[a] = dbAgents[a] /\ a \notin registered'[ProcOf[th]]
    BY <1>2, <2>1 DEF ProfileStep
  <2>3. InForce(th, a)' = InForce(th, a)
    BY <1>2, <2>2 DEF InForce, Loaded
  <2> QED BY <2>1, <2>3
<1> QED BY <1>1, <1>2

\* The profile in force is a profile.
LEMMA InForceType ==
    ASSUME NEW th, Alone(th), TypeOK, NEW a \in Agents
    PROVE  InForce(th, a).level \in Levels /\ InForce(th, a).count \in Nat
<1>1. FirstProfile(a) \in Standings
  BY RosterAssumption DEF FirstProfile, Standings, StandingOf
<1>2. dbAgents[a] \in Standings \cup {None} /\ standing[ProcOf[th]][a] \in Standings
  BY StandingAt DEF Alone, TypeOK, DatabaseType
<1>3. InForce(th, a) \in Standings
  BY <1>1, <1>2 DEF InForce, Loaded
<1> QED BY <1>3 DEF Standings, StandingOf

\* A request or a step of a call moves a level together with the trail.
LEMMA StepAccounted ==
    ASSUME NEW th, Alone(th), TypeOK, AgentKnown(th), Cadence(th), Accounted(th),
           Request(th) \/ Proceed(th)
    PROVE  Accounted(th)'
<1> USE DEF Alone
<1> SUFFICES ASSUME NEW a \in Agents
             PROVE  /\ LoggedLevel(th, a)' = InitialLevel[a]
                            + agentLog'[a]["PROMOTED"] - agentLog'[a]["DEMOTED"]
                    /\ Adjustments(a)' * EvaluationWindow
                            <= InForce(th, a)'.count - Reserved(th, a)'
  BY DEF Accounted
<1> PICK w \in Nat \ {0} : w = EvaluationWindow
  BY EvaluationWindowAssumption
<1>0. ProfileStep(th)
  BY RequestProfiles, ProceedProfiles
<1>1. /\ agentLog[a]["PROMOTED"] \in Nat /\ agentLog[a]["DEMOTED"] \in Nat
      /\ InitialLevel[a] \in Int /\ InForce(th, a).level \in Int /\ InForce(th, a).count \in Nat
      /\ "PROMOTED" \in AgentEvents /\ "DEMOTED" \in AgentEvents
  <2>1. InForce(th, a).level \in Int /\ InForce(th, a).count \in Nat
    BY InForceType DEF Levels
  <2>2. "PROMOTED" \in AgentEvents /\ "DEMOTED" \in AgentEvents
    BY DEF AgentEvents
  <2>3. agentLog \in [Agents -> [AgentEvents -> Nat]]
    BY DEF TypeOK, AuditType
  <2>4. InitialLevel[a] \in Int
    BY RosterAssumption DEF Levels
  <2> QED BY <2>1, <2>2, <2>3, <2>4
<1>2. /\ LoggedLevel(th, a) =
            InitialLevel[a] + agentLog[a]["PROMOTED"] - agentLog[a]["DEMOTED"]
      /\ Adjustments(a) * w <= InForce(th, a).count - Reserved(th, a)
  BY DEF Accounted
<1>3. Adjustments(a) \in Nat
  BY <1>1 DEF Adjustments
<1>6. CASE pc[th] = "adjust" /\ a = call[th].agent
  <2>1. AdjustAutonomy(th) /\ pc'[th] = "log_adjusted" /\ UNCHANGED call
    BY <1>6, RequestSteps, StepAt DEF AdjustAutonomy, Goto, TypeOK, ThreadType
  <2>2. InForce(th, a) = standing[ProcOf[th]][a]
    BY <1>6 DEF AgentKnown, InForce
  <2>3. LoggedLevel(th, a)' = LoggedLevel(th, a)
    BY <1>6, <2>1, <2>2 DEF Cadence, LoggedLevel
  <2>4. InForce(th, a)'.count = InForce(th, a).count
    BY <1>0, <1>6, InForceStep
  <2>5. /\ agentLog'[a]["PROMOTED"] = agentLog[a]["PROMOTED"]
        /\ agentLog'[a]["DEMOTED"] = agentLog[a]["DEMOTED"]
    BY <1>0, <1>1, <1>6 DEF ProfileStep
  <2>6. Adjustments(a)' = Adjustments(a)
    BY <2>5 DEF Adjustments
  <2>7. Reserved(th, a)' = Reserved(th, a)
    BY <1>6, <2>1 DEF Reserved
  <2> QED BY <1>2, <2>3, <2>4, <2>5, <2>6, <2>7
<1>4. CASE pc[th] = "log_adjusted" /\ a = call[th].agent
  <2>1. LogAdjusted(th) /\ pc'[th] = "snap"
    BY <1>4, RequestSteps, StepAt, AdjustedLocals DEF TypeOK
  <2>2. call[th].verdict \in {"PROMOTED", "DEMOTED"}
    BY <1>4, Locals DEF TypeOK, LocalsFit
  <2>3. InForce(th, a) = standing[ProcOf[th]][a]
    BY <1>4 DEF AgentKnown, InForce
  <2>4. call[th].level = LoggedLevel(th, a) /\ InForce(th, a).level = NextLevel(call[th])
    BY <1>4, <2>3 DEF Cadence, LoggedLevel
  <2>5. /\ InForce(th, a)'.count = InForce(th, a).count
        /\ LoggedLevel(th, a)' = NextLevel(call[th])
    BY <1>0, <1>4, <2>1, <2>4, InForceStep DEF LoggedLevel
  <2>6. /\ agentLog'[a]["PROMOTED"] = IF call[th].verdict = "PROMOTED"
                                      THEN agentLog[a]["PROMOTED"] + 1
                                      ELSE agentLog[a]["PROMOTED"]
        /\ agentLog'[a]["DEMOTED"] = IF call[th].verdict = "DEMOTED"
                                     THEN agentLog[a]["DEMOTED"] + 1
                                     ELSE agentLog[a]["DEMOTED"]
    BY <1>0, <1>1, <1>4 DEF ProfileStep
  <2>7. Adjustments(a)' = Adjustments(a) + 1
    BY <1>1, <2>2, <2>6 DEF Adjustments
  <2>8. Reserved(th, a) = w /\ Reserved(th, a)' = 0
    BY <1>4, <2>1 DEF Reserved
  <2>9. (Adjustments(a) + 1) * w <= InForce(th, a).count
    BY <1>1, <1>2, <1>3, <2>8
  <2>10. LoggedLevel(th, a)' = InitialLevel[a]
                            + agentLog'[a]["PROMOTED"] - agentLog'[a]["DEMOTED"]
    BY <1>1, <1>2, <2>2, <2>4, <2>5, <2>6 DEF NextLevel
  <2> QED BY <1>1, <2>5, <2>7, <2>8, <2>9, <2>10
<1>5. CASE ~ (pc[th] \in {"adjust", "log_adjusted"} /\ a = call[th].agent)
  <2>1. /\ agentLog'[a]["PROMOTED"] = agentLog[a]["PROMOTED"]
        /\ agentLog'[a]["DEMOTED"] = agentLog[a]["DEMOTED"]
        /\ InForce(th, a)'.level = InForce(th, a).level
    BY <1>0, <1>1, <1>5, InForceStep DEF ProfileStep
  <2>4. LoggedLevel(th, a)' = LoggedLevel(th, a)
    <3>1. ~ (pc'[th] = "log_adjusted" /\ call'[th].agent = a)
      BY <1>5, RequestSteps, CallFlows DEF Flows
    <3> QED BY <1>5, <2>1, <3>1 DEF LoggedLevel
  <2>2. Adjustments(a)' = Adjustments(a)
    BY <2>1 DEF Adjustments
  <2>3. Adjustments(a) * w <= InForce(th, a)'.count - Reserved(th, a)'
    <3>1. Reserved(th, a) \in Nat
      BY DEF Reserved
    <3>2. InForce(th, a)'.count \in {InForce(th, a).count, InForce(th, a).count + 1}
      BY <1>0, InForceStep
    <3>3. CASE Reserved(th, a)' = 0
      BY <1>1, <1>2, <1>3, <3>1, <3>2, <3>3
    <3>4. CASE Reserved(th, a)' # 0
      <4>1. Proceed(th) /\ Flows(th) /\ call'[th].agent = a /\ call[th].agent = a
            /\ pc'[th] \in {"log_escalated", "log_completed", "review", "adjust"}
        BY <1>5, <3>4, RequestSteps, CallFlows DEF Reserved, Flows
      <4>2. CASE pc[th] = "cut"
        <5>1. Reserved(th, a) = 0 /\ Reserved(th, a)' = 1
              /\ InForce(th, a)'.count = InForce(th, a).count + 1
          BY <1>0, <4>1, <4>2, InForceStep DEF Flows, Reserved
        <5> QED BY <1>1, <1>2, <1>3, <5>1
      <4>3. CASE pc[th] \in {"log_escalated", "log_completed"}
        <5>1. Reserved(th, a) = 1 /\ Reserved(th, a)' = 1
          BY <4>1, <4>3 DEF Flows, Reserved
        <5> QED BY <1>1, <1>2, <1>3, <3>2, <5>1
      <4>4. CASE pc'[th] = "adjust"
        <5>1. Reserved(th, a) = 1 /\ Reserved(th, a)' = w /\ Review(th)
              /\ InForce(th, a)'.count = InForce(th, a).count
          BY <1>0, <4>1, <4>4, StepAt, InForceStep DEF Flows, Reserved
        <5>2. InForce(th, a) = standing[ProcOf[th]][a]
          BY <4>1, <4>4 DEF Flows, AgentKnown, InForce
        <5>3. InForce(th, a).count % w = 0
          BY <4>1, <4>4, <5>1, <5>2, ReviewReads
        <5> QED BY <1>1, <1>2, <1>3, <5>1, <5>3, OneMoreFits
      <4> QED BY <4>1, <4>2, <4>3, <4>4 DEF Flows
    <3> QED BY <3>3, <3>4
  <2> QED BY <1>2, <2>1, <2>2, <2>3, <2>4
<1> QED BY <1>4, <1>5, <1>6

\* Accounted holds always.
LEMMA AlwaysAccounted ==
    ASSUME NEW th, Alone(th), "crash" \notin Faults
    PROVE  Spec => []Accounted(th)
<1>1. Init => Accounted(th)
  <2> SUFFICES ASSUME Init, NEW a \in Agents
               PROVE  /\ LoggedLevel(th, a) =
                         InitialLevel[a] + agentLog[a]["PROMOTED"] - agentLog[a]["DEMOTED"]
                      /\ Adjustments(a) * EvaluationWindow
                            <= InForce(th, a).count - Reserved(th, a)
    BY DEF Accounted
  <2>1. InForce(th, a) = FirstProfile(a) /\ LoggedLevel(th, a) = InForce(th, a).level
    BY Home DEF Init, Alone, InForce, Loaded, LoggedLevel
  <2>2. agentLog[a]["PROMOTED"] = 0 /\ agentLog[a]["DEMOTED"] = 0 /\ Reserved(th, a) = 0
    BY DEF Init, Alone, AgentEvents, Reserved
  <2>3. InitialLevel[a] \in Int
    BY RosterAssumption DEF Levels
  <2> QED BY <2>1, <2>2, <2>3, EvaluationWindowAssumption DEF FirstProfile, Adjustments
<1>2. TypeOK /\ InSync(th) /\ AgentKnown(th) /\ Cadence(th) /\ Accounted(th) /\ [Next]_vars
      => Accounted(th)'
  <2> SUFFICES ASSUME TypeOK, InSync(th), AgentKnown(th), Cadence(th), Accounted(th),
                      [Next]_vars
               PROVE  Accounted(th)'
    OBVIOUS
  <2>1. CASE UNCHANGED vars
    BY <2>1 DEF vars, Accounted, InForce, Loaded, Adjustments, Reserved, LoggedLevel
  <2>2. CASE \E p \in Procs : StartProcess(p) \/ EndProcess(p)
    BY <2>2, ProcessAccounted
  <2> QED BY <2>1, <2>2, StepAccounted DEF Next, Alone
<1> QED BY <1>1, <1>2, TypeCorrect, AlwaysInSync, AlwaysSwitchedOff, AlwaysCadence, PTL DEF Spec

\* The audit trail accounts for an agent's level (policy.py 28-45): with nothing
\* in progress, what is saved is the first level, one up for each PROMOTED and one
\* down for each DEMOTED.
THEOREM LevelsAreExplained ==
    ASSUME NEW th, Alone(th), "crash" \notin Faults
    PROVE  Spec => []LevelExplained
<1>1. InSync(th) /\ Cadence(th) /\ Accounted(th) => LevelExplained
  <2> SUFFICES ASSUME InSync(th), Cadence(th), Accounted(th), pc[th] = "idle",
                      NEW a \in Agents, dbAgents[a] # None
               PROVE  dbAgents[a].level =
                        InitialLevel[a] + agentLog[a]["PROMOTED"] - agentLog[a]["DEMOTED"]
    BY DEF LevelExplained, Alone
  <2>1. InForce(th, a) = dbAgents[a]
    BY InForceIsSaved DEF Unsaved, Loaded
  <2> QED BY <2>1 DEF Accounted, LoggedLevel
<1> QED BY <1>1, AlwaysInSync, AlwaysCadence, AlwaysAccounted, PTL

\* With one thread, a cycle of completed tasks moves an agent once at most, as the
\* comment on the review has it (policy.py 18-22).
THEOREM OneMovePerCycle ==
    ASSUME NEW th, Alone(th), "crash" \notin Faults
    PROVE  Spec => []AdjustmentsPerCycle
<1>1. TypeOK /\ Accounted(th) => AdjustmentsPerCycle
  <2>0. Cardinality(ThreadsOf(ProcOf[th])) = 1
    <3>1. ThreadsOf(ProcOf[th]) = {th}
      BY DEF ThreadsOf, Alone
    <3> QED BY <3>1, FS_Singleton
  <2> SUFFICES ASSUME TypeOK, Accounted(th), NEW a \in Agents, a \in registered[ProcOf[th]]
               PROVE  Adjustments(a) <= standing[ProcOf[th]][a].count \div EvaluationWindow
    <3> SUFFICES ASSUME TypeOK, Accounted(th), NEW a \in Agents, a \in registered[ProcOf[th]]
                 PROVE  Adjustments(a)
                            <= 1 * (standing[ProcOf[th]][a].count \div EvaluationWindow)
      BY <2>0 DEF AdjustmentsPerCycle, Adjustments, Alone
    <3> DEFINE k == standing[ProcOf[th]][a].count \div EvaluationWindow
    <3>1. k \in Int
      <4>1. standing[ProcOf[th]][a].count \in Nat
        BY InForceType DEF InForce
      <4> QED BY <4>1, EvaluationWindowAssumption
    <3> HIDE DEF k
    <3>2. Adjustments(a) <= k => Adjustments(a) <= 1 * k
      BY <3>1
    <3> QED BY <3>2 DEF k
  <2> DEFINE n == standing[ProcOf[th]][a].count
             m == Adjustments(a)
  <2>1. InForce(th, a) = standing[ProcOf[th]][a]
    BY DEF InForce
  <2>2. n \in Nat /\ m \in Nat /\ Reserved(th, a) \in Nat
    BY <2>1, InForceType, EvaluationWindowAssumption
       DEF TypeOK, AuditType, AgentEvents, Adjustments, Reserved
  <2>3. m * EvaluationWindow <= n - Reserved(th, a)
    BY <2>1 DEF Accounted
  <2> HIDE DEF n, m
  <2>4. m * EvaluationWindow <= n
    BY <2>2, <2>3, EvaluationWindowAssumption
  <2>5. m <= n \div EvaluationWindow
    BY <2>2, <2>4, FitsCycles
  <2> QED BY <2>5 DEF n, m
<1> QED BY <1>1, TypeCorrect, AlwaysAccounted, PTL
===============================================================================

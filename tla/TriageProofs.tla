----------------------------- MODULE TriageProofs -----------------------------
(***************************************************************************)
(* What the triage script keeps for every number of tickets, tasks, runs   *)
(* and attempts, whatever the service answers.                             *)
(***************************************************************************)
EXTENDS GovernedTriage, LifecycleProofs, HttpWorkerProofs

USE DEF vars, memory, database, audit, history,
        triageVars, script, httpVars, client, service

-------------------------------------------------------------------------------
(* The script, its supervisor and its worker.                              *)

\* The process of the script has one thread, and there is no other.
LEMMA ScriptAlone ==
    /\ Alone(ScriptThread) /\ ProcOf[ScriptThread] = Script
    /\ ScriptThread \in Threads /\ Script \in Procs
BY TriageAssumption, RosterAssumption DEF Alone

\* The script is between the begin and the end of assign_task or approve_task.
InHand == step \in {"assigned", "approving"}
At == pc[ScriptThread]
Now == call[ScriptThread]

\* Where the script is, and what its thread and its worker are at: between two
\* calls nothing is in progress, and a call in progress is about the task the
\* script is at, which it approves only after the gate has held it.
Place ==
    /\ ~ InHand => At = "idle"
    /\ InHand => task \in mine
    /\ mine \subseteq issued
    /\ step \in {"off", "check", "listing"} => mine = {}
    /\ step \in {"listing", "next", "assigned", "approving"} =>
            TriageAgent \in registered[Script]
    /\ At # "idle" => /\ Now.op \in {"task", "held"}
                      /\ Now.task = task /\ Now.agent = TriageAgent
                      /\ At \notin {"routed", "rejected"}
    /\ At = "gate" \/ Now.op = "held" => step = "assigned"
    /\ phase # "idle" => \/ step = "listing" /\ target = Listing
                         \/ At = "run" /\ target = TicketOf[task]

\* What that says of the locals.
LEMMA InHandFacts ==
    ASSUME TypeOK, Place
    PROVE  /\ At \in Steps /\ LocalsFit(At, Now) /\ DOMAIN pc = Threads /\ DOMAIN call = Threads
           /\ At # "idle" => InHand
           /\ InHand => task \in Tasks /\ task \in issued
           /\ At = "idle" <=> Now.op = "none"
<1>1. LocalsFit(At, Now) /\ Now \in Calls
  BY ScriptAlone, Locals DEF TypeOK, At, Now
<1>2. At \in Steps /\ DOMAIN pc = Threads /\ DOMAIN call = Threads
  BY ScriptAlone DEF TypeOK, ThreadType, At
<1>3. At = "idle" <=> Now.op = "none"
  BY <1>1, TaskCallFields DEF LocalsFit, Place
<1> QED BY <1>1, <1>2, <1>3 DEF Place, TypeOK, HistoryType

\* A step of the script is one of its supervisor, or the past of the agent.
LEMMA TriageStep ==
    ASSUME TypeOK, Place, [TriageNext]_triageVars
    PROVE  [Next]_vars \/ AgentWorkedBefore
<1> USE ScriptAlone
<1>1. CASE UNCHANGED triageVars
  BY <1>1 DEF triageVars
<1>2. CASE BeginScript \/ Leave
  BY <1>2 DEF BeginScript, Leave, Next
<1>3. CASE CheckRegistered \/ TakeListing \/ NoMoreTickets \/ AfterApprove
  BY <1>3 DEF CheckRegistered, TakeListing, NoMoreTickets, AfterApprove
<1>4. CASE AssignNext
  BY <1>4, TriageAssumption DEF AssignNext, Request, Next
<1>5. CASE AfterAssign
  BY <1>5, InHandFacts DEF AfterAssign, InHand, Request, Next
<1>6. CASE RunWorker \/ Supervise
  BY <1>6 DEF RunWorker, Supervise, Proceed, Next
<1>7. CASE (ClientStep /\ UNCHANGED <<vars, script>>) \/ ServiceStep
  BY <1>7 DEF ServiceStep
<1> QED BY <1>1, <1>2, <1>3, <1>4, <1>5, <1>6, <1>7 DEF TriageNext, Progress

\* The past of the agent is a past of its profile only.
LEMMA PastType ==
    ASSUME TypeOK, AgentWorkedBefore
    PROVE  TypeOK'
<1>1. PICK level \in 0..2, paused \in BOOLEAN :
        dbAgents' = [dbAgents EXCEPT ![TriageAgent] =
            [FirstProfile(TriageAgent) EXCEPT !.level = level, !.paused = paused]]
  BY DEF AgentWorkedBefore
<1> DEFINE s == [FirstProfile(TriageAgent) EXCEPT !.level = level, !.paused = paused]
<1>2. s \in Standings
  <2>1. FirstProfile(TriageAgent) \in Standings /\ 0..2 \subseteq Levels
    BY TriageAssumption, RosterAssumption DEF FirstProfile, Standings, StandingOf, Levels
  <2>2. [FirstProfile(TriageAgent) EXCEPT !.level = level] \in Standings
    BY <2>1, StandingFields
  <2> QED BY <2>2, StandingFields
<1> HIDE DEF s
<1>5. /\ dbAgents' = [dbAgents EXCEPT ![TriageAgent] = s]
      /\ UNCHANGED <<memory, dbPending, dbResults, audit, pc, call, history>>
  BY <1>1 DEF AgentWorkedBefore, s
<1>3. DatabaseType' /\ MemoryType' /\ AuditType' /\ HistoryType'
  BY <1>2, <1>5 DEF TypeOK, DatabaseType, MemoryType, AuditType, HistoryType
<1>4. ThreadType'
  BY <1>5 DEF TypeOK, ThreadType
<1> QED BY <1>3, <1>4 DEF TypeOK

\* What the script does to the client and the service are steps of theirs.
LEMMA TriageHttpStep ==
    ASSUME TypeOK, Place, [TriageNext]_triageVars
    PROVE  [HttpNext]_httpVars
<1>1. CASE RunWorker
  <2>1. TicketOf[task] \in Targets
    BY <1>1, InHandFacts, TriageAssumption DEF RunWorker, Targets, At
  <2> QED BY <1>1, <2>1 DEF RunWorker, HttpNext
<1>2. CASE CheckRegistered \/ TakeListing
  BY <1>2 DEF CheckRegistered, TakeListing, HttpNext, Targets
<1>3. CASE \/ UNCHANGED triageVars \/ AgentWorkedBefore \/ BeginScript \/ AssignNext
           \/ NoMoreTickets \/ AfterAssign \/ AfterApprove \/ Leave \/ Supervise
  BY <1>3 DEF triageVars, AgentWorkedBefore, BeginScript, AssignNext, NoMoreTickets,
       AfterAssign, AfterApprove, Leave, Supervise
<1>4. CASE (ClientStep /\ UNCHANGED <<vars, script>>) \/ ServiceStep
  BY <1>4 DEF ServiceStep, HttpNext
<1> QED BY <1>1, <1>2, <1>3, <1>4 DEF TriageNext, Progress

\* The types are kept.
LEMMA TriageTypeNext ==
    ASSUME TypeOK, HttpTypeOK, Place, [TriageNext]_triageVars
    PROVE  TypeOK' /\ HttpTypeOK'
BY TriageStep, TriageHttpStep, PastType, NextType, HttpNextType

\* A call of the script goes on, or ends by recording its result.
LEMMA CallGoesOn ==
    ASSUME TypeOK, Place, Proceed(ScriptThread)
    PROVE  /\ UNCHANGED <<issued, registered>> /\ At # "idle"
           /\ \/ RecordResult(ScriptThread) /\ At' = "idle" /\ Now' = NoCall
              \/ /\ Flows(ScriptThread)
                 /\ At' \notin {"idle", "routed", "rejected", "approved", "gate"}
                 /\ Now'.task = Now.task /\ Now'.agent = Now.agent
                 /\ Now'.op = IF At' = "save_pending" THEN "held" ELSE Now.op
<1> USE ScriptAlone DEF At, Now
<1>1. At # "idle" /\ UNCHANGED issued
  BY StepAt, QueueMoves
<1>2. UNCHANGED registered
  BY DEF Proceed, AssignRouted, PassGate, HoldAtGate, SavePending, LogPending,
         LogApproved, StartApproved, LogRejected, WorkerReturns, WorkerRaises, LogFailed,
         Score, CheckerRaises, CutWindow, LogEscalated, LogCompleted, Review,
         AdjustAutonomy, LogAdjusted, LogFeedback, SnapshotAgent, CommitAgent,
         RecordResult, LogSwitch
<1>3. Now.op \in {"task", "held"} /\ At \notin {"routed", "rejected"} /\ LocalsFit(At, Now)
  BY <1>1, InHandFacts DEF Place
<1>4. CASE Flows(ScriptThread)
  BY <1>1, <1>2, <1>3, <1>4 DEF Flows
<1>5. CASE At' = "idle" /\ Now' = NoCall
  <2>1. CASE At = "record"
    BY <1>1, <1>2, <1>5, <2>1, StepAt
  <2>2. CASE Now.op = "task" /\ At # "record"
    <3>1. At = "score" /\ CheckerRaises(ScriptThread)
      <4>1. At = "score"
        BY <1>3, <1>5, <2>2, StatusFlows
      <4>2. ~ \E x \in Scores : Score(ScriptThread, x)
        BY <1>5, InHandFacts DEF Score, Goto
      <4> QED BY <4>1, <4>2, StepAt
    <3> QED BY <3>1, TriageAssumption DEF CheckerRaises
  <2>3. CASE Now.op = "held" /\ At # "record"
    <3>1. At \in {"save_pending", "log_pending"}
      BY <1>1, <1>3, <2>3, InHandFacts DEF LocalsFit, Steps, WorkSteps, HoldSteps
    <3> QED BY <1>5, <3>1, StepAt, InHandFacts DEF SavePending, LogPending, Goto
  <2> QED BY <1>3, <2>1, <2>2, <2>3
<1> QED BY <1>4, <1>5, CallFlows

\* The call the script begins with a fresh identifier.
LEMMA SubmissionBegins ==
    ASSUME TypeOK, Place, NEW t \in Tasks, AssignTask(ScriptThread, TriageAgent, t)
    PROVE  /\ At = "idle" /\ t \notin issued /\ issued' = issued \cup {t}
           /\ UNCHANGED <<registered, results, pending, dbResults, dbPending, gated>>
           /\ \/ At' = "idle" /\ Now' = NoCall
              \/ At' = "gate" /\ Now' = TaskCall(TriageAgent, t)
<1> USE ScriptAlone DEF At, Now
<1>1. DOMAIN pc = Threads /\ DOMAIN call = Threads
  BY InHandFacts
<1>2. /\ Idle(ScriptThread) /\ t \notin issued /\ issued' = issued \cup {t}
      /\ UNCHANGED <<registered, results, pending, dbResults, dbPending, gated>>
      /\ \/ Return(ScriptThread)
         \/ /\ call' = [call EXCEPT ![ScriptThread] = TaskCall(TriageAgent, t)]
            /\ Goto(ScriptThread, "gate")
  BY DEF AssignTask, Admit
<1> QED BY <1>1, <1>2 DEF Idle, Return, Goto

\* The approval of a task the script finds held.
LEMMA ApprovalBegins ==
    ASSUME TypeOK, Place, ApproveTask(ScriptThread, task),
           step = "assigned", At = "idle", pending[Script][task] = TriageAgent
    PROVE  /\ UNCHANGED <<issued, registered, results, dbResults, gated>>
           /\ pending' = [pending EXCEPT ![Script][task] = None]
           /\ dbPending' = [dbPending EXCEPT ![task] = None]
           /\ At' = "approved" /\ Now' = TaskCall(TriageAgent, task)
<1> USE ScriptAlone DEF At, Now
<1>1. DOMAIN pc = Threads /\ DOMAIN call = Threads /\ TriageAgent \in registered[Script]
  BY InHandFacts DEF Place
<1> QED BY <1>1 DEF ApproveTask, TakePending, Goto

\* What the script may leave behind: a task with its outcome, or a held one.
Settled(t) ==
    /\ dbResults[t] # None
    /\ \/ dbResults[t].status \in Outcomes
       \/ ~ autoApprove /\ dbPending[t] = TriageAgent

\* The task the script is at was held, and is queued for it to approve.
Waiting ==
    /\ dbResults[task].status = "PENDING_APPROVAL"
    /\ dbPending[task] = TriageAgent /\ pending[Script][task] = TriageAgent

\* The tasks behind the script are settled; the one it is at has, after a call,
\* an outcome, or is waiting for the decision that comes next.
Followup ==
    /\ \A t \in mine : Settled(t) \/ step = "crashed" \/ (InHand /\ t = task)
    /\ InHand /\ At = "idle" =>
            /\ dbResults[task] # None /\ results[Script][task] = dbResults[task]
            /\ dbResults[task].status \in Outcomes \/ (step = "assigned" /\ Waiting)
    /\ Now.op = "held" => /\ pending[Script][task] = TriageAgent
                          /\ At # "save_pending" => dbPending[task] = TriageAgent

\* A call in progress is answered for by what it leaves in the tables.
LEMMA CallSettles ==
    ASSUME TypeOK, Place, Followup, Proceed(ScriptThread)
    PROVE  /\ \A t \in Tasks \ {task} : dbResults'[t] = dbResults[t] /\ dbPending'[t] = dbPending[t]
           /\ At' = "idle" => /\ dbResults'[task] # None
                              /\ results'[Script][task] = dbResults'[task]
                              /\ \/ dbResults'[task].status \in Outcomes
                                 \/ /\ Now.op = "held"
                                    /\ dbResults'[task].status = "PENDING_APPROVAL"
                                    /\ dbPending'[task] = TriageAgent
                                    /\ pending'[Script][task] = TriageAgent
           /\ Now'.op = "held" => /\ pending'[Script][task] = TriageAgent
                                  /\ At' # "save_pending" => dbPending'[task] = TriageAgent
<1> USE ScriptAlone DEF At, Now
<1>0. /\ At # "idle" /\ task \in Tasks /\ Now.task = task /\ Now.agent = TriageAgent
      /\ LocalsFit(At, Now) /\ At \in Steps
      /\ dbPending \in [Tasks -> Agents \cup {None}] /\ DOMAIN dbResults = Tasks
      /\ DOMAIN pending = Procs /\ DOMAIN pending[Script] = Tasks
      /\ DOMAIN results = Procs /\ DOMAIN results[Script] = Tasks
      /\ DOMAIN pc = Threads
  BY CallGoesOn, InHandFacts DEF Place, TypeOK, DatabaseType, MemoryType
<1>1. dbPending' = IF At = "save_pending" THEN [dbPending EXCEPT ![task] = TriageAgent]
                   ELSE dbPending
  BY <1>0, QueueMoves
<1>2. CASE RecordResult(ScriptThread)
  <2>1. /\ At = "record" /\ UNCHANGED <<pending, dbPending>>
        /\ \A t \in Tasks \ {task} : dbResults'[t] = dbResults[t]
        /\ dbResults'[task] # None /\ dbResults'[task].status = Now.status
    BY <1>0, <1>2, ResultStored DEF RecordResult
  <2>2. results'[Script][task] = dbResults'[task]
    BY <1>0, <1>2 DEF RecordResult
  <2>3. /\ Now.op = "task" => Now.status \in Outcomes
        /\ Now.op = "held" => Now.status = "PENDING_APPROVAL"
    BY <1>0, <2>1 DEF LocalsFit
  <2>4. Now.op \in {"task", "held"} /\ Now' = NoCall
    BY <1>0, <1>2, ResultStored DEF Place
  <2> QED BY <2>1, <2>2, <2>3, <2>4, TaskCallFields DEF Followup
<1>3. CASE ~ RecordResult(ScriptThread)
  <2>1. UNCHANGED dbResults
    BY <1>3, OnlyRecordResult DEF Next
  <2>2. At' # "idle" /\ Now'.op = IF At' = "save_pending" THEN "held" ELSE Now.op
    BY <1>3, CallGoesOn
  <2>3. CASE HoldAtGate(ScriptThread)
    <3>1. pending'[Script][task] = TriageAgent /\ At' = "save_pending" /\ At = "gate"
      BY <1>0, <2>3 DEF HoldAtGate, Goto
    <3> QED BY <1>0, <1>1, <2>1, <3>1
  <2>4. CASE ~ HoldAtGate(ScriptThread)
    <3>1. UNCHANGED pending
      BY <2>4 DEF Proceed, AssignRouted, PassGate, SavePending, LogPending,
         LogApproved, StartApproved, LogRejected, WorkerReturns, WorkerRaises, LogFailed,
         Score, CheckerRaises, CutWindow, LogEscalated, LogCompleted, Review,
         AdjustAutonomy, LogAdjusted, LogFeedback, SnapshotAgent, CommitAgent,
         RecordResult, LogSwitch
    <3>2. At' # "save_pending"
      <4>1. At' = "save_pending" => At = "gate"
        BY <1>3, CallGoesOn DEF Flows
      <4>2. At = "gate" => PassGate(ScriptThread)
        BY <2>4, StepAt
      <4> QED BY <1>0, <4>1, <4>2 DEF PassGate, Begin, Goto
    <3> QED BY <1>0, <1>1, <2>1, <2>2, <3>1, <3>2 DEF Followup
  <2> QED BY <2>3, <2>4
<1> QED BY <1>2, <1>3

\* The script keeps its place.
LEMMA PlaceNext ==
    ASSUME TypeOK, HttpTypeOK, Place, Followup, [TriageNext]_triageVars
    PROVE  Place'
<1> USE ScriptAlone
<1>1. CASE UNCHANGED triageVars \/ AgentWorkedBefore
  BY <1>1 DEF triageVars, AgentWorkedBefore, Place, InHand, At, Now
<1>2. CASE BeginScript
  BY <1>2 DEF BeginScript, Goes, StartProcess, Place, InHand, At, Now
<1>3. CASE CheckRegistered
  BY <1>3 DEF CheckRegistered, Goes, Call, Place, InHand, At, Now
<1>4. CASE TakeListing
  BY <1>4 DEF TakeListing, Goes, Collect, Place, InHand, At, Now
<1>5. CASE AssignNext
  <2>1. PICK t \in Tasks :
            /\ AssignTask(ScriptThread, TriageAgent, t) /\ step = "next"
            /\ step' = IF At' = "idle" THEN "crashed" ELSE "assigned"
            /\ mine' = mine \cup {t} /\ task' = t /\ UNCHANGED httpVars
    BY <1>5 DEF AssignNext, At
  <2>2. /\ At = "idle" /\ issued' = issued \cup {t} /\ UNCHANGED registered
        /\ \/ At' = "idle" /\ Now' = NoCall
           \/ At' = "gate" /\ Now' = TaskCall(TriageAgent, t)
    BY <2>1, SubmissionBegins
  <2>3. phase = "idle"
    BY <2>1, <2>2 DEF Place
  <2> QED BY <2>1, <2>2, <2>3, TaskCallFields DEF Place, InHand
<1>6. CASE NoMoreTickets \/ AfterApprove
  BY <1>6 DEF NoMoreTickets, AfterApprove, Goes, Place, InHand, At, Now
<1>7. CASE AfterAssign
  <2>1. CASE UNCHANGED vars /\ step' = "next"
    <3>1. /\ step = "assigned" /\ At = "idle" /\ UNCHANGED <<At, Now>>
          /\ UNCHANGED <<mine, issued, registered, phase>>
      BY <1>7, <2>1 DEF AfterAssign, At, Now
    <3>2. phase = "idle" /\ Now.op = "none"
      BY <3>1, InHandFacts DEF Place
    <3>3. TriageAgent \in registered[Script] /\ mine \subseteq issued
      BY <3>1 DEF Place
    <3> QED BY <2>1, <3>1, <3>2, <3>3 DEF Place, InHand
  <2>2. CASE Held /\ step' = "approving" /\ ApproveTask(ScriptThread, task)
    <3>1. /\ step = "assigned" /\ step' = "approving" /\ At = "idle"
          /\ UNCHANGED <<mine, task, httpVars>>
      BY <1>7, <2>2 DEF AfterAssign, At
    <3>2. pending[Script][task] = TriageAgent
      BY <2>2, <3>1 DEF Held, Followup, Waiting, InHand, Outcomes
    <3>3. /\ UNCHANGED <<issued, registered>>
          /\ At' = "approved" /\ Now' = TaskCall(TriageAgent, task)
      BY <2>2, <3>1, <3>2, ApprovalBegins
    <3>4. phase = "idle"
      BY <3>1 DEF Place
    <3> QED BY <3>1, <3>3, <3>4, TaskCallFields DEF Place, InHand
  <2> QED BY <1>7, <2>1, <2>2 DEF AfterAssign
<1>8. CASE Leave
  <2>1. /\ step \in Over /\ step' = "off" /\ mine' = {} /\ UNCHANGED <<issued, httpVars>>
        /\ pc'[ScriptThread] = "idle" /\ call'[ScriptThread] = NoCall
    BY <1>8 DEF Leave, EndProcess
  <2>2. phase = "idle"
    BY <2>1 DEF Over, Place, InHand
  <2> QED BY <2>1, <2>2, TaskCallFields DEF Place, InHand, At, Now
<1>9. CASE RunWorker \/ Supervise
  <2>1. CASE Proceed(ScriptThread) /\ phase' = "idle"
    <3>1. UNCHANGED script
      BY <1>9 DEF RunWorker, Supervise
    <3>3. At # "idle" /\ LocalsFit(At, Now)
      BY <2>1, CallGoesOn, InHandFacts
    <3>4. At' = "save_pending" => At = "gate"
      BY <2>1, <3>3, CallGoesOn DEF Flows, At
    <3>5. /\ UNCHANGED issued /\ UNCHANGED registered
          /\ \/ At' = "idle" /\ Now'.op = "none"
             \/ /\ At' \notin {"routed", "rejected", "gate"}
                /\ Now'.task = Now.task /\ Now'.agent = Now.agent
                /\ Now'.op = IF At' = "save_pending" THEN "held" ELSE Now.op
      BY <2>1, CallGoesOn, TaskCallFields
    <3> QED BY <2>1, <3>1, <3>3, <3>4, <3>5 DEF Place, InHand
  <2>2. CASE Call(TicketOf[task]) /\ UNCHANGED <<vars, script>> /\ At = "run"
    BY <2>2 DEF Call, Place, InHand, At, Now
  <2>3. \/ Proceed(ScriptThread) /\ phase' = "idle"
        \/ Call(TicketOf[task]) /\ UNCHANGED <<vars, script>> /\ At = "run"
    <3>1. CASE RunWorker
      BY <3>1 DEF RunWorker, Proceed, Collect, At
    <3>2. CASE Supervise
      BY <3>2, CallGoesOn DEF Supervise, Place, At, InHand
    <3> QED BY <1>9, <3>1, <3>2
  <2> QED BY <2>1, <2>2, <2>3
<1>10. CASE (ClientStep \/ ServiceStep) /\ UNCHANGED <<vars, script>>
  <2>1. phase # "idle" \/ phase' = "idle"
    BY <1>10 DEF ClientStep, ServiceStep, Send, NotConnected, Timeout, Retry, Read, Answer,
         AnswerStray
  <2>2. UNCHANGED target
    BY <1>10 DEF ClientStep, ServiceStep, Send, NotConnected, Timeout, Retry, Read, Answer,
         AnswerStray, Failed, Receive
  <2> QED BY <1>10, <2>1, <2>2 DEF Place, InHand, At, Now
<1> QED BY <1>1, <1>2, <1>3, <1>4, <1>5, <1>6, <1>7, <1>8, <1>9, <1>10
        DEF TriageNext, Progress, ServiceStep

\* A task the script is not at stays settled, if its result and its place in
\* the queue are what they were.
LEMMA SettledKept ==
    ASSUME NEW t \in Tasks, Settled(t), UNCHANGED autoApprove,
           dbResults'[t] = dbResults[t], dbPending'[t] = dbPending[t]
    PROVE  Settled(t)'
BY DEF Settled

\* No step of the script leaves a task of it behind without a result.
LEMMA FollowupNext ==
    ASSUME TypeOK, HttpTypeOK, Place, Followup, [TriageNext]_triageVars
    PROVE  Followup'
<1> USE ScriptAlone
<1>1. CASE UNCHANGED triageVars \/ AgentWorkedBefore
  <2>1. /\ UNCHANGED <<script, results, pending, dbResults, dbPending>>
        /\ UNCHANGED <<At, Now>>
    BY <1>1 DEF AgentWorkedBefore, At, Now
  <2> QED BY <2>1 DEF Followup, Settled, Waiting, InHand
<1>2. CASE BeginScript
  <2>1. step = "off" /\ step' = "check" /\ UNCHANGED <<mine, pc, call>>
    BY <1>2 DEF BeginScript, Goes, StartProcess
  <2>2. mine' = {} /\ Now'.op = "none"
    BY <2>1, InHandFacts DEF Place, InHand, Now
  <2> QED BY <2>1, <2>2 DEF Followup, InHand
<1>3. CASE CheckRegistered \/ TakeListing
  <2>1. /\ step \in {"check", "listing"} /\ ~ InHand' /\ UNCHANGED <<mine, pc, call>>
    BY <1>3 DEF CheckRegistered, TakeListing, Goes, InHand
  <2>2. mine' = {} /\ Now'.op = "none"
    BY <2>1, InHandFacts DEF Place, InHand, Now
  <2> QED BY <2>1, <2>2 DEF Followup
<1>4. CASE AssignNext
  <2>1. PICK t \in Tasks :
            /\ AssignTask(ScriptThread, TriageAgent, t) /\ step = "next"
            /\ step' = IF At' = "idle" THEN "crashed" ELSE "assigned"
            /\ mine' = mine \cup {t} /\ task' = t /\ UNCHANGED autoApprove
    BY <1>4 DEF AssignNext, At
  <2>2. /\ UNCHANGED <<dbResults, dbPending>> /\ Now'.op # "held"
    BY <2>1, SubmissionBegins, TaskCallFields
  <2>3. \A u \in mine : Settled(u)'
    BY <2>1, <2>2 DEF Followup, Settled, InHand
  <2>4. step' = "crashed" \/ (InHand' /\ At' # "idle")
    BY <2>1 DEF InHand
  <2>5. InHand' => At' # "idle"
    BY <2>1 DEF InHand
  <2> QED BY <2>1, <2>2, <2>3, <2>4, <2>5 DEF Followup
<1>5. CASE NoMoreTickets \/ AfterApprove
  <2>1. /\ step' \in {"done", "next"} /\ ~ InHand' /\ UNCHANGED <<vars, mine, task, autoApprove>>
        /\ step = "next" \/ (step = "approving" /\ At = "idle")
    BY <1>5 DEF NoMoreTickets, AfterApprove, Goes, InHand, At
  <2>2. \A t \in mine : Settled(t)
    BY <2>1 DEF Followup, Settled, InHand
  <2>3. UNCHANGED <<pending, dbResults, dbPending, At, Now>>
    BY <2>1 DEF At, Now
  <2> QED BY <2>1, <2>2, <2>3 DEF Followup, Settled
<1>6. CASE AfterAssign
  <2>1. step = "assigned" /\ At = "idle" /\ UNCHANGED <<mine, task, autoApprove>>
    BY <1>6 DEF AfterAssign, At
  <2>2. /\ dbResults[task] # None /\ results[Script][task] = dbResults[task]
        /\ dbResults[task].status \in Outcomes \/ Waiting
    BY <2>1 DEF Followup, InHand
  <2>3. \A t \in mine \ {task} : Settled(t) /\ t \in Tasks
    BY <2>1 DEF Followup, InHand, Place, TypeOK, HistoryType
  <2>4. CASE ~ (Held /\ autoApprove) /\ step' = "next" /\ UNCHANGED vars
    <3>1. Settled(task)
      BY <2>2, <2>4 DEF Held, Waiting, Settled
    <3>2. \A t \in mine : Settled(t)
      BY <2>3, <3>1
    <3> QED BY <2>1, <2>4, <3>2 DEF Followup, Settled, InHand, At, Now
  <2>5. CASE Held /\ step' = "approving" /\ ApproveTask(ScriptThread, task)
    <3>1. pending[Script][task] = TriageAgent
      BY <2>2, <2>5 DEF Held, Waiting, Outcomes
    <3>2. /\ UNCHANGED dbResults /\ dbPending' = [dbPending EXCEPT ![task] = None]
          /\ At' = "approved" /\ Now'.op = "task"
      BY <2>1, <2>5, <3>1, ApprovalBegins, TaskCallFields
    <3>3. dbPending \in [Tasks -> Agents \cup {None}]
      BY DEF TypeOK, DatabaseType
    <3>4. \A t \in mine \ {task} : Settled(t)'
      BY <2>1, <2>3, <3>2, <3>3, SettledKept
    <3> QED BY <2>1, <2>5, <3>2, <3>4 DEF Followup, InHand
  <2> QED BY <1>6, <2>4, <2>5 DEF AfterAssign
<1>7. CASE Leave
  <2>1. mine' = {} /\ ~ InHand' /\ call'[ScriptThread] = NoCall
    BY <1>7 DEF Leave, EndProcess, InHand
  <2> QED BY <2>1, TaskCallFields DEF Followup, Now
<1>8. CASE Proceed(ScriptThread) /\ UNCHANGED script
  <2>1. At # "idle" /\ InHand /\ InHand' /\ UNCHANGED <<step, mine, task, autoApprove>>
    BY <1>8, CallGoesOn, InHandFacts DEF InHand
  <2>2. \A t \in mine \ {task} : Settled(t) /\ t \in Tasks
    BY <2>1 DEF Followup, InHand, Place, TypeOK, HistoryType
  <2>3. \A t \in mine \ {task} : Settled(t)'
    BY <1>8, <2>1, <2>2, CallSettles, SettledKept
  <2>4. At' = "idle" =>
            /\ dbResults'[task'] # None /\ results'[Script][task'] = dbResults'[task']
            /\ dbResults'[task'].status \in Outcomes \/ (step' = "assigned" /\ Waiting')
    BY <1>8, <2>1, CallSettles DEF Waiting, Place
  <2>5. Now'.op = "held" => /\ pending'[Script][task'] = TriageAgent
                            /\ At' # "save_pending" => dbPending'[task'] = TriageAgent
    BY <1>8, <2>1, CallSettles
  <2> QED BY <2>1, <2>3, <2>4, <2>5 DEF Followup
<1>9. CASE UNCHANGED <<vars, script>>
  BY <1>9 DEF Followup, Settled, Waiting, InHand, At, Now
<1>10. CASE RunWorker \/ Supervise
  BY <1>8, <1>9, <1>10 DEF RunWorker, Supervise, Proceed
<1> QED BY <1>1, <1>2, <1>3, <1>4, <1>5, <1>6, <1>7, <1>9, <1>10
        DEF TriageNext, Progress, ServiceStep

\* The script begins at its place, with nothing behind it.
LEMMA ScriptBegins == TriageInit => TypeOK /\ HttpTypeOK /\ Place /\ Followup
<1> SUFFICES ASSUME TriageInit PROVE TypeOK /\ HttpTypeOK /\ Place /\ Followup
  OBVIOUS
<1>1. TypeOK /\ HttpTypeOK
  BY InitType, HttpInitType DEF TriageInit
<1>2. At = "idle" /\ Now = NoCall
  BY ScriptAlone DEF TriageInit, Init, At, Now
<1>3. phase = "idle" /\ step = "off" /\ mine = {}
  BY DEF TriageInit, HttpInit
<1> QED BY <1>1, <1>2, <1>3, TaskCallFields DEF Place, Followup, InHand

\* The script is done only when every task it made has its outcome, or, without
\* --auto-approve, is held and queued (run_governed_triage.py:66-94): nothing
\* is lost between assign_task and approve_task, whatever the service answers.
THEOREM NothingIsForgotten == TriageSpec => []NothingForgotten
<1> DEFINE Kept == TypeOK /\ HttpTypeOK /\ Place /\ Followup
<1>1. TriageInit => Kept
  BY ScriptBegins
<1>2. Kept /\ [TriageNext]_triageVars => Kept'
  BY TriageTypeNext, PlaceNext, FollowupNext
<1>3. Kept => NothingForgotten
  BY DEF Followup, Settled, InHand, NothingForgotten
<1> QED BY <1>1, <1>2, <1>3, PTL DEF TriageSpec

-------------------------------------------------------------------------------
(* The steps of the script, as its tasks, its calls and the log see them.      *)

Begun(t) == Logged(t, "TASK_EXECUTION_STARTED")
Allowed(t) == Logged(t, "TASK_APPROVED_BY_HUMAN")
Finished(t) == Logged(t, "TASK_COMPLETED")

\* A call in progress makes a step; the worker's output is taken when it is there.
CallMoves ==
    /\ Proceed(ScriptThread) /\ UNCHANGED <<script, service>> /\ phase' = "idle"
    /\ At # "run" => phase = "idle"
    /\ At = "run" /\ At' = "score" => phase = "returned"

\* A task begins.
TaskBegins(t) ==
    /\ At = "idle" /\ phase = "idle" /\ UNCHANGED httpVars
    /\ t \notin issued /\ issued' = issued \cup {t} /\ task' = t
    /\ At' = "gate" \/ (At' = "idle" /\ step' = "crashed")
    /\ Now'.op # "held"
    /\ \A u \in Tasks, e \in Milestones : Logged(u, e)' <=> Logged(u, e)
    /\ UNCHANGED gated

\* A held task is taken up again.
ApprovalMoves ==
    /\ step = "assigned" /\ At = "idle" /\ phase = "idle" /\ UNCHANGED <<task, httpVars>>
    /\ dbResults[task].status = "PENDING_APPROVAL"
    /\ At' = "approved" /\ Now'.op # "held"
    /\ \A u \in Tasks, e \in Milestones : Logged(u, e)' <=> Logged(u, e)
    /\ UNCHANGED <<gated, issued>>

\* Neither: the script goes its way, or the client and the service go theirs.
NoCallMoves ==
    /\ UNCHANGED <<taskLog, gated, issued, At>> /\ Now'.op = Now.op
    /\ At = "idle" => At' # "run"
    /\ At # "idle" \/ step' = "assigned" => UNCHANGED <<step, task, dbResults>>
    /\ At = "run" /\ phase' = "idle" => phase = "idle"

\* There is no other step.
LEMMA ScriptMoves ==
    ASSUME TypeOK, HttpTypeOK, Place, Followup, [TriageNext]_triageVars
    PROVE  CallMoves \/ (\E t \in Tasks : TaskBegins(t)) \/ ApprovalMoves \/ NoCallMoves
<1> USE ScriptAlone
<1>1. CASE UNCHANGED triageVars \/ AgentWorkedBefore
  BY <1>1 DEF AgentWorkedBefore, NoCallMoves, At, Now
<1>2. CASE BeginScript \/ CheckRegistered \/ TakeListing \/ NoMoreTickets \/ AfterApprove
  <2>1. UNCHANGED <<taskLog, gated, issued, pc, call>>
    BY <1>2 DEF BeginScript, StartProcess, CheckRegistered, TakeListing, NoMoreTickets,
         AfterApprove
  <2>2. At = "idle" /\ step' # "assigned"
    BY <1>2 DEF BeginScript, CheckRegistered, TakeListing, NoMoreTickets, AfterApprove, Goes,
         Place, InHand, At
  <2> QED BY <2>1, <2>2 DEF NoCallMoves, At, Now
<1>3. CASE Leave
  <2>1. /\ step \in Over /\ step' = "off" /\ UNCHANGED <<issued, gated, taskLog>>
        /\ At' = "idle" /\ Now' = NoCall
    BY <1>3 DEF Leave, EndProcess, At, Now
  <2>2. At = "idle" /\ Now.op = "none"
    BY <2>1, InHandFacts DEF Over, Place, InHand
  <2> QED BY <2>1, <2>2, TaskCallFields DEF NoCallMoves
<1>4. CASE AssignNext
  <2>1. PICK t \in Tasks :
            /\ AssignTask(ScriptThread, TriageAgent, t) /\ step = "next"
            /\ step' = IF At' = "idle" THEN "crashed" ELSE "assigned"
            /\ task' = t /\ UNCHANGED httpVars
    BY <1>4 DEF AssignNext, At
  <2>2. /\ At = "idle" /\ t \notin issued /\ issued' = issued \cup {t} /\ UNCHANGED gated
        /\ At' \in {"idle", "gate"} /\ Now'.op # "held"
    BY <2>1, SubmissionBegins, TaskCallFields
  <2>3. \A u \in Tasks, e \in Milestones : Logged(u, e)' <=> Logged(u, e)
    BY <2>1, RequestLogsNoMilestone, TriageAssumption DEF Request
  <2>4. phase = "idle"
    BY <2>1, <2>2 DEF Place
  <2>5. TaskBegins(t)
    BY <2>1, <2>2, <2>3, <2>4 DEF TaskBegins
  <2> QED BY <2>5
<1>5. CASE AfterAssign
  <2>1. step = "assigned" /\ At = "idle" /\ UNCHANGED <<task, httpVars>>
    BY <1>5 DEF AfterAssign, At
  <2>2. CASE step' = "next" /\ UNCHANGED vars
    BY <2>1, <2>2 DEF NoCallMoves, At, Now
  <2>3. CASE Held /\ ApproveTask(ScriptThread, task)
    <3>1. /\ dbResults[task].status = "PENDING_APPROVAL"
          /\ pending[Script][task] = TriageAgent
      BY <2>1, <2>3 DEF Held, Followup, Waiting, InHand, Outcomes
    <3>2. UNCHANGED <<issued, gated>> /\ At' = "approved" /\ Now'.op # "held"
      BY <2>1, <2>3, <3>1, ApprovalBegins, TaskCallFields
    <3>3. \A u \in Tasks, e \in Milestones : Logged(u, e)' <=> Logged(u, e)
      BY <2>1, <2>3, InHandFacts, RequestLogsNoMilestone DEF Request, InHand
    <3>4. phase = "idle"
      BY <2>1 DEF Place
    <3> QED BY <2>1, <3>1, <3>2, <3>3, <3>4 DEF ApprovalMoves
  <2> QED BY <1>5, <2>2, <2>3 DEF AfterAssign
<1>6. CASE RunWorker
  <2>1. At = "run" /\ UNCHANGED script
    BY <1>6 DEF RunWorker, At
  <2>2. CASE Call(TicketOf[task]) /\ UNCHANGED vars
    BY <2>1, <2>2 DEF Call, NoCallMoves, At, Now
  <2>3. CASE phase = "returned" /\ Collect /\ WorkerReturns(ScriptThread)
    BY <2>1, <2>3 DEF CallMoves, Proceed, Collect
  <2>4. CASE phase = "raised" /\ Collect /\ WorkerRaises(ScriptThread)
    <3>1. At' = "snap"
      BY <2>4, InHandFacts DEF WorkerRaises, Goto, At
    <3> QED BY <2>1, <2>4, <3>1 DEF CallMoves, Proceed, Collect
  <2> QED BY <1>6, <2>2, <2>3, <2>4 DEF RunWorker
<1>7. CASE Supervise
  <2>1. Proceed(ScriptThread) /\ At # "run" /\ UNCHANGED <<script, httpVars>>
    BY <1>7 DEF Supervise, At
  <2>2. phase = "idle"
    BY <2>1, CallGoesOn DEF Place, InHand
  <2> QED BY <2>1, <2>2 DEF CallMoves
<1>8. CASE (ClientStep \/ ServiceStep) /\ UNCHANGED <<vars, script>>
  <2>1. phase' # "idle" \/ UNCHANGED phase
    BY <1>8 DEF ClientStep, ServiceStep, Send, NotConnected, Timeout, Retry, Read, Answer,
         AnswerStray, Failed, Receive
  <2> QED BY <1>8, <2>1 DEF NoCallMoves, At, Now
<1> QED BY <1>1, <1>2, <1>3, <1>4, <1>5, <1>6, <1>7, <1>8
        DEF TriageNext, Progress, ServiceStep

\* What a call in progress adds to the log and to the held tasks.
LEMMA CallTells ==
    ASSUME TypeOK, HttpTypeOK, Place, CallMoves, NEW u \in Tasks
    PROVE  /\ Begun(u)' <=> \/ Begun(u)
                            \/ u = task /\ At \in {"gate", "start"} /\ At' = "run"
           /\ Allowed(u)' <=> Allowed(u) \/ (u = task /\ At = "approved")
           /\ Finished(u)' <=> Finished(u) \/ (u = task /\ At = "log_completed")
           /\ u \in gated' <=> u \in gated \/ (u = task /\ At' = "save_pending")
<1> USE ScriptAlone DEF At, Now
<1>1. Proceed(ScriptThread) /\ Now.task = task
  BY CallGoesOn DEF CallMoves, Place
<1>2. \A e \in Milestones :
        Logged(u, e)' <=> Logged(u, e) \/ (Passes(ScriptThread, e) /\ task = u)
  BY <1>1, MilestoneLogged
<1>3. {"TASK_APPROVED_BY_HUMAN", "TASK_EXECUTION_STARTED", "TASK_COMPLETED"} \subseteq Milestones
  BY DEF Milestones
<1>4. u \in gated' <=> u \in gated \/ (u = task /\ At' = "save_pending")
  BY <1>1, QueueMoves
<1> QED BY <1>2, <1>3, <1>4 DEF Begun, Allowed, Finished, Passes

\* A task the script is at has not begun to execute before its call gets there,
\* not even if the gate held it and it waits for its approval; and a held task
\* that is about to begin has been approved.
Unbegun ==
    /\ \A t \in Tasks \ issued : ~ Begun(t) /\ t \notin gated
    /\ At \in {"gate", "approved", "start"} \/ Now.op = "held" => ~ Begun(task)
    /\ At = "gate" => task \notin gated
    /\ At = "start" => Allowed(task)
    /\ step = "assigned" /\ At = "idle" /\ dbResults[task].status = "PENDING_APPROVAL" =>
            ~ Begun(task)

\* Every step keeps that.
LEMMA UnbegunNext ==
    ASSUME TypeOK, HttpTypeOK, Place, Followup, Unbegun, [TriageNext]_triageVars
    PROVE  Unbegun'
<1> USE ScriptAlone
<1>1. CASE CallMoves
  <2>1. /\ At # "idle" /\ UNCHANGED <<issued, step, task>> /\ task \in Tasks /\ task \in issued
        /\ LocalsFit(At, Now)
    BY <1>1, CallGoesOn, InHandFacts DEF CallMoves, InHand
  <2>2. \/ At' = "idle" /\ Now'.op = "none"
        \/ /\ Flows(ScriptThread) /\ At' \notin {"idle", "gate", "approved"}
           /\ Now'.op = IF At' = "save_pending" THEN "held" ELSE Now.op
    BY <1>1, CallGoesOn, TaskCallFields DEF CallMoves
  <2>3. \A t \in Tasks \ issued' : ~ Begun(t)' /\ t \notin gated'
    BY <1>1, <2>1, CallTells DEF Unbegun
  <2>4. At' = "start" \/ Now'.op = "held" => ~ Begun(task)'
    <3>1. CASE At' = "start"
      BY <1>1, <2>1, <2>2, <3>1, CallTells DEF Unbegun, Flows, At
    <3>2. CASE At' # "start" /\ Now'.op = "held" /\ At' = "save_pending"
      <4>1. At = "gate"
        BY <2>2, <3>2 DEF Flows, At
      <4> QED BY <1>1, <2>1, <3>2, <4>1, CallTells DEF Unbegun
    <3>3. CASE At' # "start" /\ Now'.op = "held" /\ At' # "save_pending"
      <4>1. Now.op = "held" /\ At \notin {"gate", "start"}
        BY <2>1, <2>2, <3>3 DEF LocalsFit, WorkSteps
      <4> QED BY <1>1, <2>1, <4>1, CallTells DEF Unbegun
    <3> QED BY <3>1, <3>2, <3>3
  <2>5. At' = "start" => Allowed(task)'
    BY <1>1, <2>1, <2>2, CallTells DEF Flows, At
  <2>6. step' = "assigned" /\ At' = "idle" /\ dbResults'[task].status = "PENDING_APPROVAL"
            => ~ Begun(task)'
    <3> SUFFICES ASSUME At' = "idle", dbResults'[task].status = "PENDING_APPROVAL"
                 PROVE  ~ Begun(task)'
      OBVIOUS
    <3>1. Now.op = "held"
      BY <1>1, CallSettles DEF CallMoves, Outcomes
    <3> QED BY <1>1, <2>1, <3>1, CallTells DEF Unbegun
  <2> QED BY <2>1, <2>2, <2>3, <2>4, <2>5, <2>6 DEF Unbegun
<1>2. ASSUME NEW t \in Tasks, TaskBegins(t) PROVE Unbegun'
  <2>1. \A u \in Tasks : Begun(u)' <=> Begun(u)
    BY <1>2 DEF TaskBegins, Begun, Milestones
  <2> QED BY <1>2, <2>1 DEF TaskBegins, Unbegun
<1>3. CASE ApprovalMoves
  <2>1. \A u \in Tasks : Begun(u)' <=> Begun(u)
    BY <1>3 DEF ApprovalMoves, Begun, Milestones
  <2> QED BY <1>3, <2>1, InHandFacts DEF ApprovalMoves, Unbegun, InHand
<1>4. CASE NoCallMoves
  <2>1. \A u \in Tasks : (Begun(u)' <=> Begun(u)) /\ (Allowed(u)' <=> Allowed(u))
    BY <1>4 DEF NoCallMoves, Begun, Allowed, Logged
  <2>2. At # "idle" \/ step' = "assigned" => /\ UNCHANGED <<step, task, dbResults>>
                                             /\ task \in Tasks
    BY <1>4, InHandFacts DEF NoCallMoves, InHand
  <2>3. At = "idle" => Now.op # "held"
    BY InHandFacts
  <2> QED BY <1>4, <2>1, <2>2, <2>3 DEF NoCallMoves, Unbegun
<1> QED BY <1>1, <1>2, <1>3, <1>4, ScriptMoves

-------------------------------------------------------------------------------
(* The account of a call: what it may still send, and what it has been told.   *)

\* The POSTs the loop of a call can still make.
Left == CASE phase = "idle" -> MaxAttempts
          [] phase = "send" -> MaxAttempts - attempt + 1
          [] phase \in {"wait", "sleep", "got"} -> MaxAttempts - attempt
          [] OTHER -> 0

\* The service has reported a success, which the caller has still to take.
Told == (phase = "got" /\ Success(status)) \/ phase = "returned"

\* These are numbers.
LEMMA AccountType ==
    ASSUME HttpTypeOK
    PROVE  /\ Left \in Nat /\ MaxAttempts \in Nat \ {0}
           /\ \A k \in Tickets : posts[k] \in Nat /\ triages[k] \in Nat
BY HttpAssumption DEF HttpTypeOK, Phases, Left

\* Each POST of a call in progress is one less that is left.
LEMMA AttemptsCounted ==
    ASSUME HttpTypeOK, [HttpNext]_httpVars, phase # "idle", phase' # "idle"
    PROVE  /\ target' = target
           /\ \/ posts' = posts /\ Left' <= Left
              \/ posts' = OneMore(posts, target) /\ Left' < Left
<1> USE HttpAssumption DEF HttpTypeOK, Phases, Left
<1>1. CASE Send
  BY <1>1 DEF Send
<1>2. CASE NotConnected
  BY <1>2, FailedType DEF NotConnected
<1>3. CASE Timeout
  BY <1>3, FailedType DEF Timeout
<1>4. CASE Retry
  BY <1>4 DEF Retry
<1>5. CASE Read
  BY <1>5 DEF Read
<1>6. ASSUME NEW s \in StatusCodes, Answer(s)
      PROVE  /\ target' = target /\ posts' = posts /\ Left' <= Left
  <2>1. CASE phase' = "got"
    BY <1>6, <2>1 DEF Answer, Receive, Failed
  <2>2. CASE phase' # "got"
    BY <1>6, <2>2, FailedType DEF Answer, Receive
  <2> QED BY <2>1, <2>2
<1>7. CASE UNCHANGED httpVars \/ \E k \in Tickets : AnswerStray(k)
  BY <1>7 DEF AnswerStray
<1>8. ~ Collect /\ \A k \in Targets : ~ Call(k)
  BY DEF Collect, Call
<1> QED BY <1>1, <1>2, <1>3, <1>4, <1>5, <1>6, <1>7, <1>8 DEF HttpNext, ClientStep

\* Nothing is posted at a begin or an end of a call.
LEMMA CallBeginsAndEnds ==
    ASSUME HttpTypeOK, [HttpNext]_httpVars, phase = "idle" \/ phase' = "idle"
    PROVE  /\ posts' = posts
           /\ phase = "idle" => Left' <= Left /\ ~ Told'
<1> USE HttpAssumption DEF HttpTypeOK, Phases, Left, Told
<1>1. CASE Collect \/ \E k \in Targets : Call(k)
  BY <1>1 DEF Collect, Call
<1>2. CASE UNCHANGED httpVars \/ \E k \in Tickets : AnswerStray(k)
  BY <1>2 DEF AnswerStray
<1>3. ~ Send /\ ~ NotConnected /\ ~ Timeout /\ ~ Retry /\ ~ Read
  BY DEF Send, NotConnected, Timeout, Failed, Retry, Read
<1>4. ~ \E s \in StatusCodes : Answer(s)
  BY DEF Answer, Receive, Failed
<1> QED BY <1>1, <1>2, <1>3, <1>4 DEF HttpNext, ClientStep

\* A call is told of a success only by an answer to a triage done for it.
LEMMA TriagesCounted ==
    ASSUME HttpTypeOK, [HttpNext]_httpVars, NEW k \in Tickets
    PROVE  /\ triages'[k] >= triages[k]
           /\ phase # "idle" /\ target = k /\ Told' => Told \/ triages'[k] >= triages[k] + 1
<1> USE HttpAssumption DEF HttpTypeOK, Phases, Told
<1>1. CASE Send \/ NotConnected \/ Timeout \/ Retry \/ Collect \/ (\E j \in Targets : Call(j))
  BY <1>1, FailedType DEF Send, NotConnected, Timeout, Retry, Collect, Call
<1>2. CASE Read
  BY <1>2 DEF Read
<1>3. ASSUME NEW s \in StatusCodes, Answer(s)
      PROVE  /\ triages'[k] >= triages[k]
             /\ target = k /\ Told' => triages'[k] >= triages[k] + 1
  <2>1. triages[k] \in Nat /\ DOMAIN triages = Tickets /\ Listing # k
    OBVIOUS
  <2>2. CASE Success(s)
    BY <1>3, <2>1, <2>2 DEF Answer, OneMore
  <2>3. CASE ~ Success(s)
    <3>1. ~ Told'
      BY <1>3, <2>3, FailedType DEF Answer, Receive
    <3> QED BY <1>3, <2>1, <2>3, <3>1 DEF Answer
  <2> QED BY <2>2, <2>3
<1>4. ASSUME NEW j \in Tickets, AnswerStray(j)
      PROVE  triages'[k] >= triages[k] /\ (Told' => Told)
  BY <1>4 DEF AnswerStray, OneMore
<1>5. CASE UNCHANGED httpVars
  BY <1>5
<1> QED BY <1>1, <1>2, <1>3, <1>4, <1>5 DEF HttpNext, ClientStep

-------------------------------------------------------------------------------
(* The two accounts of a ticket.                                               *)

\* The tasks about a ticket that have begun and were free to.
Free(k) == {t \in Tasks : /\ TicketOf[t] = k /\ Begun(t)
                          /\ t \in gated => Allowed(t)}
\* Those that are completed.
Done(k) == {t \in Tasks : TicketOf[t] = k /\ Finished(t)}

\* The ticket is that of the task that runs.
Running(k) == At = "run" /\ TicketOf[task] = k

\* Each task that began free pays for the POSTs of its call, made and to come.
Paid == \A k \in Tickets :
    posts[k] + (IF Running(k) THEN Left ELSE 0) <= MaxAttempts * Cardinality(Free(k))

\* The success that is not yet a completion.
Due(k) == IF \/ Running(k) /\ Told
             \/ /\ At \in {"score", "cut", "log_escalated", "log_completed"}
                /\ TicketOf[task] = k
          THEN 1 ELSE 0

\* Each completed task has a triage of its own, and so has the one to come.
Earned == \A k \in Tickets : Cardinality(Done(k)) + Due(k) <= triages[k]

\* The sets are finite.
LEMMA AccountsFinite ==
    \A k : /\ IsFiniteSet(Free(k)) /\ IsFiniteSet(Free(k)')
           /\ Cardinality(Free(k)) \in Nat /\ Cardinality(Free(k)') \in Nat
           /\ IsFiniteSet(Done(k)) /\ IsFiniteSet(Done(k)')
           /\ Cardinality(Done(k)) \in Nat /\ Cardinality(Done(k)') \in Nat
BY TriageAssumption, FS_Subset, FS_CardinalityType DEF Free, Done

\* A longer list pays for more.
LEMMA MorePaid ==
    ASSUME NEW m \in Nat, NEW n \in Nat, NEW max \in Nat
    PROVE  /\ n <= m => max * n <= max * m
           /\ n + 1 <= m => max * n + max <= max * m
           /\ max * n \in Nat
<1>1. max * n \in Nat /\ max * m \in Nat
  OBVIOUS
<1>2. ASSUME n <= m PROVE max * n <= max * m
  <2>1. m - n \in Nat /\ m = n + (m - n)
    BY <1>2
  <2>2. max * m = max * n + max * (m - n) /\ max * (m - n) \in Nat
    BY <2>1
  <2> QED BY <2>2, <1>1
<1>3. ASSUME n + 1 <= m PROVE max * n + max <= max * m
  <2>1. m - (n + 1) \in Nat /\ m = (n + 1) + (m - (n + 1))
    BY <1>3
  <2>2. max * m = max * (n + 1) + max * (m - (n + 1)) /\ max * (m - (n + 1)) \in Nat
    BY <2>1
  <2>3. max * (n + 1) = max * n + max
    OBVIOUS
  <2> QED BY <2>2, <2>3, <1>1
<1> QED BY <1>1, <1>2, <1>3

\* No step takes a task from the payers or from the completed ones.
LEMMA AccountsGrow ==
    ASSUME TypeOK, HttpTypeOK, Place, Followup, Unbegun, [TriageNext]_triageVars, NEW k
    PROVE  /\ Cardinality(Free(k)) <= Cardinality(Free(k)')
           /\ Cardinality(Done(k)) <= Cardinality(Done(k)')
<1>1. Free(k) \subseteq Free(k)' /\ Done(k) \subseteq Done(k)'
  <2>1. CASE CallMoves
    <3>1. At' = "save_pending" => At = "gate" /\ ~ Begun(task)
      BY <2>1, CallGoesOn DEF CallMoves, Flows, At, Unbegun
    <3> QED BY <2>1, <3>1, CallTells DEF Free, Done
  <2>2. CASE ApprovalMoves \/ \E t \in Tasks : TaskBegins(t)
    <3>1. /\ UNCHANGED gated
          /\ \A u \in Tasks : /\ Begun(u)' <=> Begun(u)
                              /\ Allowed(u)' <=> Allowed(u)
                              /\ Finished(u)' <=> Finished(u)
      BY <2>2 DEF ApprovalMoves, TaskBegins, Begun, Allowed, Finished, Milestones
    <3> QED BY <3>1 DEF Free, Done
  <2>3. CASE NoCallMoves
    BY <2>3 DEF NoCallMoves, Free, Done, Begun, Allowed, Finished, Logged
  <2> QED BY <2>1, <2>2, <2>3, ScriptMoves
<1> QED BY <1>1, AccountsFinite, FS_Subset

\* A task that begins to run pays from now on.
LEMMA BegunPays ==
    ASSUME TypeOK, HttpTypeOK, Place, Followup, Unbegun, CallMoves, At' = "run",
           NEW k, TicketOf[task] = k, [TriageNext]_triageVars
    PROVE  Cardinality(Free(k)) + 1 <= Cardinality(Free(k)')
<1>1. /\ At \in {"gate", "start"} /\ task \in Tasks /\ task \notin Free(k)
      /\ At = "gate" => task \notin gated
      /\ At = "start" => Allowed(task)
  BY CallGoesOn, InHandFacts DEF CallMoves, Flows, At, Unbegun, Free
<1>2. Free(k) \cup {task} \subseteq Free(k)'
  BY <1>1, CallTells DEF Free
<1>3. /\ IsFiniteSet(Free(k) \cup {task})
      /\ Cardinality(Free(k) \cup {task}) = Cardinality(Free(k)) + 1
  BY <1>1, AccountsFinite, FS_AddElement
<1>4. Cardinality(Free(k) \cup {task}) <= Cardinality(Free(k)')
  BY <1>2, AccountsFinite, FS_Subset
<1> QED BY <1>3, <1>4

\* What the client and the service are at while the task of the script runs.
LEMMA RunFacts ==
    ASSUME TypeOK, HttpTypeOK, Place
    PROVE  /\ At # "idle" => task \in Tasks /\ TicketOf[task] \in Tickets
           /\ At = "run" /\ phase # "idle" => target = TicketOf[task]
           /\ At # "run" /\ phase # "idle" => target = Listing
           /\ Listing \notin Tickets
BY InHandFacts, TriageAssumption, HttpAssumption DEF Place, InHand

\* No step spends more than the tasks have paid for.
LEMMA PaidNext ==
    ASSUME TypeOK, HttpTypeOK, Place, Followup, Unbegun, Paid, [TriageNext]_triageVars
    PROVE  Paid'
<1> SUFFICES ASSUME NEW k \in Tickets
             PROVE  posts'[k] + (IF Running(k)' THEN Left' ELSE 0)
                        <= MaxAttempts * Cardinality(Free(k)')
  BY DEF Paid
<1>1. posts[k] + (IF Running(k) THEN Left ELSE 0) <= MaxAttempts * Cardinality(Free(k))
  BY DEF Paid
<1>2. /\ HttpTypeOK' /\ [HttpNext]_httpVars
      /\ Left \in Nat /\ Left' \in Nat /\ posts[k] \in Nat /\ posts'[k] \in Nat
      /\ MaxAttempts \in Nat
  <2>1. HttpTypeOK' /\ [HttpNext]_httpVars
    BY TriageTypeNext, TriageHttpStep
  <2>2. Left' \in Nat /\ \A j \in Tickets : posts'[j] \in Nat
    BY <2>1, HttpAssumption DEF HttpTypeOK, Phases, Left
  <2> QED BY <2>1, <2>2, AccountType
<1>3. /\ Cardinality(Free(k)) \in Nat /\ Cardinality(Free(k)') \in Nat
      /\ Cardinality(Free(k)) <= Cardinality(Free(k)')
  BY AccountsFinite, AccountsGrow
<1>4. /\ MaxAttempts * Cardinality(Free(k)) <= MaxAttempts * Cardinality(Free(k)')
      /\ MaxAttempts * Cardinality(Free(k)) \in Nat
      /\ MaxAttempts * Cardinality(Free(k)') \in Nat
  BY <1>2, <1>3, MorePaid
<1>5. CASE CallMoves
  <2>1. UNCHANGED <<posts, task>> /\ phase' = "idle" /\ Left' = MaxAttempts
    BY <1>5 DEF CallMoves, Left
  <2>2. CASE Running(k)'
    <3>1. Cardinality(Free(k)) + 1 <= Cardinality(Free(k)')
      BY <1>5, <2>1, <2>2, BegunPays DEF Running
    <3>2. MaxAttempts * Cardinality(Free(k)) + MaxAttempts
              <= MaxAttempts * Cardinality(Free(k)')
      BY <1>2, <1>3, <3>1, MorePaid
    <3> QED BY <1>1, <1>2, <1>4, <2>1, <2>2, <3>2
  <2>3. CASE ~ Running(k)'
    BY <1>1, <1>2, <1>4, <2>1, <2>3
  <2> QED BY <2>2, <2>3
<1>6. CASE ApprovalMoves \/ \E t \in Tasks : TaskBegins(t)
  <2>1. UNCHANGED posts /\ ~ Running(k)'
    BY <1>6 DEF ApprovalMoves, TaskBegins, Running
  <2> QED BY <1>1, <1>2, <1>4, <2>1
<1>7. CASE NoCallMoves
  <2>1. Running(k)' <=> Running(k)
    BY <1>7 DEF NoCallMoves, Running
  <2>2. CASE phase # "idle" /\ phase' # "idle"
    <3>1. \/ posts' = posts /\ Left' <= Left
          \/ posts' = OneMore(posts, target) /\ Left' < Left
      BY <1>2, <2>2, AttemptsCounted
    <3>2. target = k <=> Running(k)
      BY <2>2, RunFacts DEF Running
    <3>3. posts'[k] = posts[k] \/ (Running(k) /\ posts'[k] = posts[k] + 1 /\ Left' < Left)
      BY <3>1, <3>2 DEF OneMore, HttpTypeOK
    <3>4. Left' <= Left
      BY <1>2, <3>1
    <3>5. CASE Running(k)
      BY <1>1, <1>2, <1>4, <2>1, <3>3, <3>4, <3>5
    <3>6. CASE ~ Running(k)
      BY <1>1, <1>2, <1>4, <2>1, <3>3, <3>6
    <3> QED BY <3>5, <3>6
  <2>3. CASE phase = "idle" \/ phase' = "idle"
    <3>1. posts' = posts /\ (phase = "idle" => Left' <= Left)
      BY <1>2, <2>3, CallBeginsAndEnds
    <3>2. Running(k) => phase = "idle"
      BY <1>7, <2>3 DEF NoCallMoves, Running
    <3> QED BY <1>1, <1>2, <1>4, <2>1, <3>1, <3>2
  <2> QED BY <2>2, <2>3
<1> QED BY <1>5, <1>6, <1>7, ScriptMoves

\* No step completes a task that the service has done no triage for.
LEMMA EarnedNext ==
    ASSUME TypeOK, HttpTypeOK, Place, Followup, Unbegun, Earned, [TriageNext]_triageVars
    PROVE  Earned'
<1> SUFFICES ASSUME NEW k \in Tickets
             PROVE  Cardinality(Done(k)') + Due(k)' <= triages'[k]
  BY DEF Earned
<1>1. Cardinality(Done(k)) + Due(k) <= triages[k]
  BY DEF Earned
<1>2. /\ HttpTypeOK' /\ [HttpNext]_httpVars
      /\ triages[k] \in Nat /\ triages'[k] \in Nat /\ triages'[k] >= triages[k]
  <2>1. HttpTypeOK' /\ [HttpNext]_httpVars
    BY TriageTypeNext, TriageHttpStep
  <2>2. \A j \in Tickets : triages'[j] \in Nat
    BY <2>1 DEF HttpTypeOK
  <2> QED BY <2>1, <2>2, AccountType, TriagesCounted
<1>3. /\ Cardinality(Done(k)) \in Nat /\ Cardinality(Done(k)') \in Nat
      /\ Due(k) \in 0..1 /\ Due(k)' \in 0..1
  BY AccountsFinite DEF Due
<1>4. CASE CallMoves
  <2>1. UNCHANGED task /\ task \in Tasks
    BY <1>4, CallGoesOn, InHandFacts DEF CallMoves, InHand
  <2>2. CASE At = "log_completed" /\ TicketOf[task] = k
    <3>1. Due(k) = 1 /\ Due(k)' = 0
      <4>1. At' \notin {"score", "cut", "log_escalated", "log_completed", "run"}
        BY <1>4, <2>2, CallGoesOn DEF CallMoves, Flows, At
      <4> QED BY <2>2, <4>1 DEF Due, Running
    <3>2. Done(k)' \subseteq Done(k) \cup {task}
      BY <1>4, CallTells DEF Done
    <3>3. Cardinality(Done(k)') <= Cardinality(Done(k)) + 1
      <4>1. /\ IsFiniteSet(Done(k) \cup {task})
            /\ Cardinality(Done(k) \cup {task}) \in
                   {Cardinality(Done(k)), Cardinality(Done(k)) + 1}
        BY AccountsFinite, FS_AddElement
      <4>2. Cardinality(Done(k)') <= Cardinality(Done(k) \cup {task})
        BY <3>2, <4>1, FS_Subset
      <4> QED BY <1>3, <4>1, <4>2
    <3> QED BY <1>1, <1>2, <1>3, <3>1, <3>3
  <2>3. CASE ~ (At = "log_completed" /\ TicketOf[task] = k)
    <3>1. Done(k)' = Done(k)
      BY <1>4, <2>1, <2>3, CallTells DEF Done
    <3>2. Due(k)' <= Due(k)
      <4>1. At' = "score" => At = "run" /\ phase = "returned"
        BY <1>4, CallGoesOn DEF CallMoves, Flows, At
      <4>2. /\ At' = "cut" => At = "score"
            /\ At' = "log_escalated" => At = "cut"
            /\ At' = "log_completed" => At \in {"cut", "log_escalated"}
        BY <1>4, CallGoesOn DEF CallMoves, Flows, At
      <4>3. ~ Told'
        BY <1>4 DEF CallMoves, Told
      <4> QED BY <2>1, <4>1, <4>2, <4>3 DEF Due, Running, Told
    <3> QED BY <1>1, <1>2, <1>3, <3>1, <3>2
  <2> QED BY <2>2, <2>3
<1>5. CASE ApprovalMoves \/ \E t \in Tasks : TaskBegins(t)
  <2>1. Done(k)' = Done(k)
    BY <1>5 DEF ApprovalMoves, TaskBegins, Done, Finished, Milestones
  <2>2. Due(k)' = 0
    BY <1>5 DEF ApprovalMoves, TaskBegins, Due, Running
  <2> QED BY <1>1, <1>2, <1>3, <2>1, <2>2
<1>6. CASE NoCallMoves
  <2>1. Done(k)' = Done(k) /\ (Running(k)' <=> Running(k))
    BY <1>6 DEF NoCallMoves, Done, Finished, Logged, Running
  <2>2. Due(k)' <= Due(k) \/ (Running(k) /\ Told' /\ ~ Told)
    BY <1>6, <2>1 DEF NoCallMoves, Due
  <2>3. Running(k) /\ Told' /\ ~ Told => triages'[k] >= triages[k] + 1 /\ Due(k) = 0
    <3> SUFFICES ASSUME Running(k), Told', ~ Told
                 PROVE  triages'[k] >= triages[k] + 1 /\ Due(k) = 0
      OBVIOUS
    <3>1. phase # "idle"
      BY <1>2, CallBeginsAndEnds
    <3>2. target = k
      BY <3>1, RunFacts DEF Running
    <3> QED BY <1>2, <3>1, <3>2, TriagesCounted DEF Due, Running
  <2> QED BY <1>1, <1>2, <1>3, <2>1, <2>2, <2>3
<1> QED BY <1>4, <1>5, <1>6, ScriptMoves

-------------------------------------------------------------------------------
(* What follows for the service.                                               *)

\* All that the script keeps.
Governed == TypeOK /\ HttpTypeOK /\ Place /\ Followup /\ Unbegun /\ Paid /\ Earned

\* It holds at the begin: nothing has been sent, begun or done.
LEMMA GovernedBegins == TriageInit => Governed
<1> SUFFICES ASSUME TriageInit PROVE Governed
  OBVIOUS
<1>1. TypeOK /\ HttpTypeOK /\ Place /\ Followup
  BY ScriptBegins
<1>2. /\ At = "idle" /\ step = "off" /\ issued = {} /\ gated = {}
      /\ \A k \in Tickets : posts[k] = 0 /\ triages[k] = 0
  BY ScriptAlone DEF TriageInit, Init, HttpInit, NoTicket, At
<1>3. \A t \in Tasks, e \in Milestones : ~ Logged(t, e)
  BY DEF TriageInit, Init, Logged, Milestones, TaskEvents
<1>4. \A t \in Tasks : ~ Begun(t) /\ ~ Finished(t)
  BY <1>3 DEF Begun, Finished, Milestones
<1>5. Unbegun
  BY <1>1, <1>2, <1>4, InHandFacts DEF Unbegun
<1>6. \A k \in Tickets : ~ Running(k) /\ Due(k) = 0 /\ Free(k) = {} /\ Done(k) = {}
  BY <1>2, <1>4 DEF Running, Due, Free, Done
<1>7. ASSUME NEW k \in Tickets
      PROVE  /\ posts[k] + (IF Running(k) THEN Left ELSE 0) <= MaxAttempts * Cardinality(Free(k))
             /\ Cardinality(Done(k)) + Due(k) <= triages[k]
  <2>1. Cardinality(Free(k)) = 0 /\ Cardinality(Done(k)) = 0
    BY <1>6, FS_EmptySet
  <2>2. MaxAttempts * 0 = 0
    BY HttpAssumption
  <2> QED BY <1>2, <1>6, <2>1, <2>2
<1>8. Paid /\ Earned
  BY <1>7 DEF Paid, Earned
<1> QED BY <1>1, <1>5, <1>8 DEF Governed

\* Every step keeps it.
LEMMA GovernedNext == Governed /\ [TriageNext]_triageVars => Governed'
BY TriageTypeNext, PlaceNext, FollowupNext, UnbegunNext, PaidNext, EarnedNext DEF Governed

\* And it is what the service may count on.
LEMMA GovernedSays == Governed => PostsAreCovered /\ CompletedWasTriaged
<1> SUFFICES ASSUME Governed, NEW k \in Tickets
             PROVE  /\ posts[k] <= MaxAttempts * Cardinality(Free(k))
                    /\ Cardinality(Done(k)) <= triages[k]
  BY DEF PostsAreCovered, CompletedWasTriaged, Free, Done, Begun, Allowed, Finished, Logged
<1>1. /\ posts[k] + (IF Running(k) THEN Left ELSE 0) <= MaxAttempts * Cardinality(Free(k))
      /\ Cardinality(Done(k)) + Due(k) <= triages[k] /\ Due(k) \in 0..1
  BY DEF Governed, Paid, Earned, Due
<1>2. /\ Left \in Nat /\ posts[k] \in Nat /\ triages[k] \in Nat
      /\ Cardinality(Done(k)) \in Nat /\ Cardinality(Free(k)) \in Nat /\ MaxAttempts \in Nat
  BY AccountType, AccountsFinite DEF Governed
<1>3. MaxAttempts * Cardinality(Free(k)) \in Nat
  BY <1>2, MorePaid
<1> QED BY <1>1, <1>2, <1>3

\* No POST about a ticket is made for a task the gate holds before it has been
\* approved, and none beyond the attempts of the tasks that began
\* (run_governed_triage.py:66-86, escalation_agent_http_worker.py:70-88): the
\* gate of the supervisor is a gate for the service.
THEOREM PostsCovered == TriageSpec => []PostsAreCovered
<1>1. Governed => PostsAreCovered
  BY GovernedSays
<1> QED BY <1>1, GovernedBegins, GovernedNext, PTL DEF TriageSpec

\* A task is logged as completed only after a triage the service has done for
\* it (escalation_agent_http_worker.py:95-118): a late answer to a request the
\* client gave up is never taken for the answer to another.
THEOREM CompletionsEarned == TriageSpec => []CompletedWasTriaged
<1>1. Governed => CompletedWasTriaged
  BY GovernedSays
<1> QED BY <1>1, GovernedBegins, GovernedNext, PTL DEF TriageSpec

\* In the script too, the worker returns or raises once for each call, whatever
\* the service answers (the safety part of KeepsContract).
THEOREM ScriptKeepsContract ==
    TriageSpec => Contract!Init /\ [][Contract!Next]_(JobOf[phase])
<1>1. TriageInit => Contract!Init
  BY Jobs DEF TriageInit, HttpInit, Contract!Init
<1>2. Governed /\ [TriageNext]_triageVars => [Contract!Next]_(JobOf[phase])
  BY TriageHttpStep, StepsKeepContract DEF Governed
<1> QED BY <1>1, <1>2, GovernedBegins, GovernedNext, PTL DEF TriageSpec
===============================================================================

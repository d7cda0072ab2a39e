---------------------------- MODULE GovernedTriage ----------------------------
(***************************************************************************)
(* scripts/run_governed_triage.py: a process that builds its supervisor,   *)
(* asks the escalation agent for the open tickets, and has each of them    *)
(* triaged as a task under supervision.  The supervisor of the process is  *)
(* Supervisor, its worker for those tasks is HttpWorker: a task that runs  *)
(* is an HTTP call.                                                        *)
(***************************************************************************)
EXTENDS Supervisor, HttpWorker

CONSTANTS
    Script, ScriptThread,   \* the process and its only thread
    TriageAgent,            \* jira-escalation-agent
    TicketOf,               \* the ticket a task is about
    PriorityOf,             \* its priority, as the service words it
    MaxRuns                 \* bound: how often the script is run

VARIABLES
    step,           \* where the script is
    runs,           \* how often it has been started
    autoApprove,    \* was --auto-approve passed?
    todo,           \* the listed tickets it has not come to
    mine,           \* the tasks it made in this run
    task            \* the one it is at

script == <<step, runs, autoApprove, todo, mine, task>>
triageVars == <<vars, script, httpVars>>

\* Priorities the map does not know count as medium.
PriorityToRisk(priority) ==
    CASE priority \in {"Critical", "High"} -> "HIGH"
      [] priority = "Low" -> "LOW"
      [] OTHER -> "MEDIUM"

ASSUME TriageAssumption ==
    /\ Procs = {Script} /\ Threads = {ScriptThread}
    /\ TriageAgent \in Agents
    /\ IsFiniteSet(Tasks) /\ TicketOf \in [Tasks -> Tickets]
    /\ \A t \in Tasks : RiskOf[t] = PriorityToRisk(PriorityOf[TicketOf[t]])
    /\ MaxRuns \in Nat
    /\ "checker" \notin Faults      \* the default checker raises nothing

Over == {"done", "exit", "crashed"}

TriageInit ==
    /\ Init /\ HttpInit
    /\ step = "off" /\ runs = 0 /\ autoApprove = FALSE
    /\ todo = {} /\ mine = {} /\ task = None

-------------------------------------------------------------------------------
Goes(from, to) == step = from /\ step' = to

\* What other processes made of the agent before the script ran for the first
\* time: a demotion, a promotion, a pause.
AgentWorkedBefore ==
    /\ step = "off" /\ dbAgents[TriageAgent] = None
    /\ \E level \in 0..2, paused \in BOOLEAN :
        dbAgents' = [dbAgents EXCEPT ![TriageAgent] =
            [FirstProfile(TriageAgent) EXCEPT !.level = level, !.paused = paused]]
    /\ UNCHANGED <<memory, dbPending, dbResults, audit, pc, call, history, script, httpVars>>

\* The script starts and builds its supervisor.
BeginScript ==
    /\ Goes("off", "check")
    /\ runs < MaxRuns /\ runs' = runs + 1
    /\ autoApprove' \in BOOLEAN
    /\ StartProcess(Script)
    /\ UNCHANGED <<todo, mine, task, httpVars>>

\* Without the agent there is nothing to do (exit code 1).
CheckRegistered ==
    /\ \/ TriageAgent \notin registered[Script] /\ Goes("check", "exit") /\ UNCHANGED httpVars
       \/ /\ TriageAgent \in registered[Script] /\ Goes("check", "listing")
          /\ Call(Listing)
    /\ UNCHANGED <<vars, runs, autoApprove, todo, mine, task>>

\* GET /tickets has answered, or raised, and nothing catches that.  (Bound: a
\* ticket is listed as long as an identifier for a task about it is left.)
TakeListing ==
    /\ \/ /\ phase = "returned" /\ Goes("listing", "next")
          /\ todo' \in SUBSET {TicketOf[t] : t \in Tasks \ issued}
       \/ phase = "raised" /\ Goes("listing", "crashed") /\ UNCHANGED todo
    /\ Collect
    /\ UNCHANGED <<vars, runs, autoApprove, mine, task>>

\* A task with a fresh identifier for the next ticket.  If assign_task refuses
\* it, its exception ends the script.
AssignNext ==
    \E t \in Tasks :
        /\ TicketOf[t] \in todo
        /\ AssignTask(ScriptThread, TriageAgent, t)
        /\ step = "next"
        /\ step' = IF pc'[ScriptThread] = "idle" THEN "crashed" ELSE "assigned"
        /\ todo' = todo \ {TicketOf[t]}
        /\ mine' = mine \cup {t} /\ task' = t
        /\ UNCHANGED <<runs, autoApprove, httpVars>>

NoMoreTickets ==
    /\ todo = {} /\ Goes("next", "done")
    /\ UNCHANGED <<vars, runs, autoApprove, todo, mine, task, httpVars>>

Held == results[Script][task].status = "PENDING_APPROVAL"

\* Fault: a held task is left to a human whatever was asked for.
AfterAssignNeverApproves ==
    /\ pc[ScriptThread] = "idle" /\ Goes("assigned", "next")
    /\ UNCHANGED <<vars, runs, autoApprove, todo, mine, task, httpVars>>

\* assign_task has returned; a held task is approved at once, or left.
AfterAssign ==
    /\ step = "assigned" /\ pc[ScriptThread] = "idle"
    /\ \/ Held /\ autoApprove /\ step' = "approving"
          /\ ApproveTask(ScriptThread, task)
       \/ ~ (Held /\ autoApprove) /\ step' = "next"
          /\ UNCHANGED vars
    /\ UNCHANGED <<runs, autoApprove, todo, mine, task, httpVars>>

AfterApprove ==
    /\ pc[ScriptThread] = "idle" /\ Goes("approving", "next")
    /\ UNCHANGED <<vars, runs, autoApprove, todo, mine, task, httpVars>>

\* The script's process ends; it may be run again.
Leave ==
    /\ step \in Over /\ step' = "off"
    /\ EndProcess(Script)
    /\ mine' = {} /\ todo' = {} /\ task' = None
    /\ UNCHANGED <<runs, autoApprove, httpVars>>

-------------------------------------------------------------------------------
\* The task runs: the worker posts its ticket, and the supervisor goes on with
\* what it returns or raises.
RunWorker ==
    /\ pc[ScriptThread] = "run"
    /\ \/ Call(TicketOf[task]) /\ UNCHANGED vars
       \/ phase = "returned" /\ Collect /\ WorkerReturns(ScriptThread)
       \/ phase = "raised" /\ Collect /\ WorkerRaises(ScriptThread)
    /\ UNCHANGED script

\* The rest of assign_task and approve_task.
Supervise ==
    /\ pc[ScriptThread] # "run"
    /\ Proceed(ScriptThread)
    /\ UNCHANGED <<script, httpVars>>

Progress ==
    \/ CheckRegistered \/ TakeListing \/ AssignNext \/ NoMoreTickets
    \/ AfterAssign \/ AfterApprove \/ RunWorker \/ Supervise
    \/ ClientStep /\ UNCHANGED <<vars, script>>

ServiceStep ==
    /\ \/ \E s \in StatusCodes : Answer(s)
       \/ \E k \in Tickets : AnswerStray(k)
    /\ UNCHANGED <<vars, script>>

TriageNext == AgentWorkedBefore \/ BeginScript \/ Progress \/ Leave \/ ServiceStep

\* The script is one thread, and nobody stops it.
TriageSpec == TriageInit /\ [][TriageNext]_triageVars /\ WF_triageVars(Progress)
-------------------------------------------------------------------------------
(* Correctness.                                                            *)

\* No ticket whose task needs a sign-off reaches the service before a human,
\* or --auto-approve, gave it: the POSTs about a ticket are covered by started
\* tasks that were free to start, each with at most MaxAttempts.
PostsAreCovered ==
    \A k \in Tickets :
        posts[k] <= MaxAttempts * Cardinality(
            {t \in Tasks :
                /\ TicketOf[t] = k /\ taskLog[t]["TASK_EXECUTION_STARTED"] > 0
                /\ t \in gated => taskLog[t]["TASK_APPROVED_BY_HUMAN"] > 0})

\* A task is completed only if the service did a triage of its ticket for it: a
\* failed call, an error status or an old answer is never taken for one.
CompletedWasTriaged ==
    \A k \in Tickets :
        Cardinality({t \in Tasks : TicketOf[t] = k /\ taskLog[t]["TASK_COMPLETED"] > 0})
            <= triages[k]

\* When the script says it is done, every task it made has a recorded result:
\* with --auto-approve the end of the task, without it at least the hold, which
\* is then in the queue of the dashboard and the API.
NothingForgotten ==
    step = "done" =>
        \A t \in mine :
            /\ dbResults[t] # None
            /\ \/ dbResults[t].status \in Outcomes
               \/ ~ autoApprove /\ dbPending[t] = TriageAgent

\* A script that was started comes to its end, whatever the service does.
ScriptEnds == step = "check" ~> step \in Over
===============================================================================

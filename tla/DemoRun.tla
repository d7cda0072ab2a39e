------------------------------- MODULE DemoRun --------------------------------
(***************************************************************************)
(* demo/run_demo.py: a process that registers two demo agents and takes    *)
(* them through a promotion, a demotion and the kill switch.  It removes   *)
(* its audit database before it starts; its supervisor is built with the   *)
(* default state store, which stays where it is.                           *)
(***************************************************************************)
EXTENDS Supervisor

CONSTANTS
    Demo, Main,             \* the process and its only thread
    Reliable, Unreliable,   \* the two agents
    PerAgent,               \* how many tasks the script gives each of them
    ScoreOf                 \* the score of an agent's output: the workers are seeded

\* Tasks are numbered in the order the script makes them, over all its runs.
VARIABLES
    at,     \* where the script is
    made    \* the tasks it has made in this run

demoVars == <<vars, at, made>>

NextTask == Cardinality(issued) + 1
CurrentTask == Cardinality(issued)

DemoInit == Init /\ at = "off" /\ made = 0

RemoveAuditDatabase ==
    /\ at = "off" /\ at' = "open" /\ made' = 0
    /\ taskLog' = [t \in Tasks |-> [e \in TaskEvents |-> 0]]
    /\ agentLog' = [a \in Agents |-> [e \in AgentEvents |-> 0]]
    /\ UNCHANGED <<memory, database, pc, call, history>>

RegisterAgents ==
    /\ at = "open" /\ at' = "assign"
    /\ StartProcess(Demo)
    /\ UNCHANGED made

\* A task for the reliable agent, and then its approval.
AssignReliable ==
    /\ at = "assign" /\ made < PerAgent
    /\ AssignTask(Main, Reliable, NextTask)
    /\ at' = "approve" /\ made' = made + 1

ApproveReliable ==
    /\ at = "approve"
    /\ ApproveTask(Main, CurrentTask)
    /\ at' = "assign" /\ UNCHANGED made

\* approve_task finds nothing to approve: nobody catches the KeyError.
NothingToApprove ==
    /\ at = "approve" /\ at' = "raised"
    /\ Idle(Main) /\ pending[Demo][CurrentTask] = None
    /\ UNCHANGED <<vars, made>>

\* A task for the unreliable agent; only the refusal after the pause is caught.
AssignUnreliable ==
    /\ at = "assign" /\ made >= PerAgent /\ made < 2 * PerAgent
    /\ AssignTask(Main, Unreliable, NextTask)
    /\ at' = IF standing[Demo][Unreliable].paused THEN "raised" ELSE "assign"
    /\ made' = made + 1

PauseUnreliable ==
    /\ at = "assign" /\ made = 2 * PerAgent
    /\ PauseAgent(Main, Unreliable)
    /\ at' = "refused" /\ UNCHANGED made

AssignPaused ==
    /\ at = "refused"
    /\ AssignTask(Main, Unreliable, NextTask)
    /\ at' = "end" /\ made' = made + 1

\* The demo workers never raise, and their output always scores the same.
Work ==
    /\ \/ pc[Main] = "run" /\ WorkerReturns(Main)
       \/ pc[Main] = "score" /\ Score(Main, ScoreOf[call[Main].agent])
       \/ pc[Main] \notin {"run", "score"} /\ Proceed(Main)
    /\ UNCHANGED <<at, made>>

Leave ==
    /\ at \in {"end", "raised"} /\ at' = "off"
    /\ EndProcess(Demo)
    /\ UNCHANGED made

DemoNext ==
    \/ RemoveAuditDatabase \/ RegisterAgents
    \/ AssignReliable \/ ApproveReliable \/ NothingToApprove
    \/ AssignUnreliable \/ PauseUnreliable \/ AssignPaused
    \/ Work \/ Leave

DemoSpec == DemoInit /\ [][DemoNext]_demoVars
-------------------------------------------------------------------------------
\* README.md: "the whole system run in one scripted demo (promotion, demotion,
\* escalation, and the kill switch, in that order)": no run ends in an exception.
DemoReachesItsEnd == at # "raised"
===============================================================================

------------------------------- MODULE Staffing -------------------------------
(***************************************************************************)
(* The supervisor as a manager who staffs a stream of tasks: route_task    *)
(* gives each to the most trusted agent with a slot to spare (router.py).  *)
(* Every agent is scoped for the tasks and none is paused.  Neither the    *)
(* level nor the database has a part in the choice, so they are left out.  *)
(***************************************************************************)
EXTENDS Autonomy

CONSTANTS
    Agents, Position, WipLimit,
    ScoresOf        \* the scores an agent's work may get

VARIABLES
    standing,       \* the window and the count of an agent
    wip             \* the tasks it is at

staffing == <<standing, wip>>

NewAgent == [level |-> 2, paused |-> FALSE, window |-> <<>>, count |-> 0]

StaffingInit ==
    /\ standing = [a \in Agents |-> NewAgent]
    /\ wip = [a \in Agents |-> 0]

Free == {a \in Agents : wip[a] < WipLimit[a]}

RouteTo(a) ==
    /\ a \in Free
    /\ MostTrusted(a, Free, standing, Position)
    /\ wip' = [wip EXCEPT ![a] = @ + 1]
    /\ UNCHANGED standing

\* A task arrives and is given to an agent.
RouteTask == \E a \in Agents : RouteTo(a)

\* The count is kept up to MinTrackRecord: trust does not look beyond.
Complete(a, s) ==
    /\ wip[a] > 0
    /\ wip' = [wip EXCEPT ![a] = @ - 1]
    /\ standing' = [standing EXCEPT
            ![a].window = PushScore(@, s),
            ![a].count = IF @ < MinTrackRecord THEN @ + 1 ELSE @]

Finish == \E a \in Agents : \E s \in ScoresOf[a] : Complete(a, s)

StaffingNext == RouteTask \/ Finish

\* Tasks keep arriving, and every agent finishes what it was given.
StaffingSpec ==
    /\ StaffingInit /\ [][StaffingNext]_staffing
    /\ WF_staffing(RouteTask)
    /\ \A a \in Agents : WF_staffing(\E s \in ScoresOf[a] : Complete(a, s))
-------------------------------------------------------------------------------
\* router.py: "new agents get a chance to prove themselves rather than being
\* starved of work by incumbents".
NewAgentsGetWork == \A a \in Agents : <>(wip[a] > 0)
===============================================================================

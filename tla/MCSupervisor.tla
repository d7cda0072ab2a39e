---------------------------- MODULE MCSupervisor ------------------------------
(***************************************************************************)
(* Small instances of Supervisor for TLC: one process or two, one or two   *)
(* threads, one or two agents.                                             *)
(***************************************************************************)
EXTENDS SupervisorRefinement, TLC

CONSTANTS p1, p2, th1, th2, a1, a2, t1, t2, t3, t4

\* One thread; two threads of one process; one thread in each of two processes.
OneThread == th1 :> p1
TwoThreads == th1 :> p1 @@ th2 :> p1
TwoProcesses == th1 :> p1 @@ th2 :> p2

\* a1 is registered before a2, as demo-reliable-agent is before the others.
MCPosition == [a \in Agents |-> IF a = a1 THEN 1 ELSE 2]

\* The lowest levels of the roster: every task, or every risky task, is gated.
AllGated == [a \in Agents |-> 0]
GatedAndFree == [a \in Agents |-> IF a = a1 THEN 0 ELSE 2]
RiskGated == [a \in Agents |-> 1]
AllFree == [a \in Agents |-> 2]

OneSlot == [a \in Agents |-> 1]

OneType == [a \in Agents |-> {"demo_task"}]
AllDemo == [t \in Tasks |-> "demo_task"]
\* t2 is of a type no agent of OneType is scoped for.
OneForeign == [t \in Tasks |-> IF t = t2 THEN "ticket_triage" ELSE "demo_task"]

MediumRisk == [t \in Tasks |-> "MEDIUM"]
OneHighRisk == [t \in Tasks |-> IF t = t1 THEN "HIGH" ELSE "LOW"]

\* With OneForeign and MediumRisk every task but t2 is like any other.
TaskSymmetry == Permutations(Tasks \ {t2})
===============================================================================

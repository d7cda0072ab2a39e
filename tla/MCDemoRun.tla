------------------------------- MODULE MCDemoRun ------------------------------
(***************************************************************************)
(* The demo as it is: two runs, with the constants of the code.            *)
(***************************************************************************)
EXTENDS DemoRun, TLC

CONSTANTS p1, th1, a1, a2

OneThread == th1 :> p1
MCPosition == a1 :> 1 @@ a2 :> 2
MCInitialLevel == a1 :> 0 @@ a2 :> 2
ThreeSlots == [a \in Agents |-> 3]
OneType == [a \in Agents |-> {"demo_task"}]
TwoRuns == 1..(2 * (2 * PerAgent + 1))
AllDemo == [t \in Tasks |-> "demo_task"]
MediumRisk == [t \in Tasks |-> "MEDIUM"]
MCScoreOf == a1 :> 90 @@ a2 :> 20
===============================================================================

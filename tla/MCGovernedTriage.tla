-------------------------- MODULE MCGovernedTriage ----------------------------
(***************************************************************************)
(* A small instance of GovernedTriage: two tickets, two runs of the script.*)
(***************************************************************************)
EXTENDS GovernedTriage, TLC

CONSTANTS p1, th1, a1, t1, t2, t3, k1, k2

OneThread == th1 :> p1
MCPosition == a1 :> 1
RiskGated == a1 :> 1
TwoSlots == a1 :> 2
TriageType == a1 :> {"ticket_triage"}
AllTriage == [t \in Tasks |-> "ticket_triage"]

\* Two tasks for one ticket, whose first triage may still be under way in the
\* second run, and one for the other.
TicketOfTask == t1 :> k1 @@ t2 :> k2 @@ t3 :> k1
CriticalAndUnknown == k1 :> "Critical" @@ k2 :> "Blocker"
TicketRisk == [t \in Tasks |-> PriorityToRisk(CriticalAndUnknown[TicketOfTask[t]])]
===============================================================================

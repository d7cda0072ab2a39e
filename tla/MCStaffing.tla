------------------------------ MODULE MCStaffing ------------------------------
(***************************************************************************)
(* Two agents that both do good work.                                      *)
(***************************************************************************)
EXTENDS Staffing, TLC

CONSTANTS a1, a2

MCPosition == a1 :> 1 @@ a2 :> 2
TwoSlots == [a \in Agents |-> 2]
GoodWork == [a \in Agents |-> {90}]
===============================================================================

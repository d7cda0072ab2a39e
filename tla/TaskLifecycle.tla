---------------------------- MODULE TaskLifecycle -----------------------------
(***************************************************************************)
(* What the supervisor promises the people around it, told task by task:   *)
(* a task that needs a sign-off waits for a human, a human decides on it   *)
(* once, it runs at most once and only after that sign-off, and what is    *)
(* recorded about it is what happened and stays.                           *)
(*                                                                         *)
(* A task may be dropped (refused, or lost with the process that worked on *)
(* it) at any stage but one: while it waits for a human it cannot get lost.*)
(***************************************************************************)
CONSTANTS Tasks, NoOutcome

VARIABLES
    stage,      \* how far a task has come
    signoff,    \* the tasks that must not run before a human approved them
    outcome     \* what is durably recorded about a task

vars == <<stage, signoff, outcome>>

Stages == {"new", "in_hand", "waiting", "deciding", "approved", "rejected",
           "running", "ended", "dropped"}

\* What may be recorded of a task at a stage.
Recordable == [waiting |-> {"PENDING_APPROVAL"},
               rejected |-> {"REJECTED"},
               ended |-> {"COMPLETED", "ESCALATED", "FAILED"}]

Final == {"REJECTED", "COMPLETED", "ESCALATED", "FAILED"}

TypeOK ==
    /\ stage \in [Tasks -> Stages]
    /\ signoff \subseteq Tasks
    /\ outcome \in [Tasks -> Final \cup {"PENDING_APPROVAL", NoOutcome}]

Init ==
    /\ stage = [t \in Tasks |-> "new"]
    /\ signoff = {}
    /\ outcome = [t \in Tasks |-> NoOutcome]

Move(t, from, to) ==
    /\ stage[t] = from
    /\ stage' = [stage EXCEPT ![t] = to]
    /\ UNCHANGED <<signoff, outcome>>

Submit(t) == Move(t, "new", "in_hand")

\* The task turns out to need a sign-off.
Gate(t) ==
    /\ stage[t] = "in_hand"
    /\ signoff' = signoff \cup {t}
    /\ UNCHANGED <<stage, outcome>>

Wait(t) == t \in signoff /\ Move(t, "in_hand", "waiting")
Decide(t) == Move(t, "waiting", "deciding")
Approve(t) == Move(t, "deciding", "approved")
Reject(t) == Move(t, "deciding", "rejected")

Start(t) ==
    \/ t \notin signoff /\ Move(t, "in_hand", "running")
    \/ Move(t, "approved", "running")

End(t) == Move(t, "running", "ended")

\* Refused, or lost with a process.
Drop(t) ==
    \E from \in {"new", "in_hand", "deciding", "approved", "running"} :
        Move(t, from, "dropped")

Record(t) ==
    /\ stage[t] \in DOMAIN Recordable
    /\ outcome[t] \notin Final
    /\ \E o \in Recordable[stage[t]] : outcome' = [outcome EXCEPT ![t] = o]
    /\ UNCHANGED <<stage, signoff>>

Next ==
    \E t \in Tasks :
        \/ Submit(t) \/ Gate(t) \/ Wait(t) \/ Decide(t)
        \/ Approve(t) \/ Reject(t) \/ Start(t) \/ End(t)
        \/ Drop(t) \/ Record(t)

Spec == Init /\ [][Next]_vars
===============================================================================

------------------------- MODULE SupervisorRefinement -------------------------
(***************************************************************************)
(* The supervisor implements TaskLifecycle.  The stage of a task is read   *)
(* off the audit trail, the approval queue of the state database and, for  *)
(* a task in progress, the thread that works on it; a task in nobody's     *)
(* hands that neither waits nor ended has been dropped.                    *)
(***************************************************************************)
EXTENDS Supervisor

Logged(t, e) == taskLog[t][e] > 0

Working(t) == {th \in Threads : call[th].op = "task" /\ call[th].task = t}
Holding(t) == {th \in Threads : call[th].op = "held" /\ call[th].task = t}

StageOf(t) ==
    IF t \notin issued THEN "new"
    ELSE IF Logged(t, "TASK_COMPLETED") \/ Logged(t, "TASK_FAILED") THEN "ended"
    ELSE IF Logged(t, "TASK_REJECTED_BY_HUMAN") THEN "rejected"
    ELSE IF dbPending[t] # None THEN "waiting"
    ELSE IF Holding(t) # {} THEN "in_hand"
    ELSE IF Working(t) = {} THEN "dropped"
    ELSE IF Logged(t, "TASK_EXECUTION_STARTED") THEN "running"
    ELSE IF Logged(t, "TASK_APPROVED_BY_HUMAN") THEN "approved"
    ELSE IF t \in gated THEN "deciding"
    ELSE "in_hand"

RecordedOutcome(t) == IF dbResults[t] = None THEN None ELSE dbResults[t].status

Lifecycle == INSTANCE TaskLifecycle WITH
    NoOutcome <- None,
    stage <- [t \in Tasks |-> StageOf(t)],
    signoff <- gated,
    outcome <- [t \in Tasks |-> RecordedOutcome(t)]

\* Every step of the supervisor, crashes and restarts included, is a step of
\* the life of one task or changes nothing a human is told: a task waits for
\* its sign-off, is decided on once, runs once, and its outcome is what
\* happened to it (assign_task, approve_task, reject_task, _execute).
LifecycleRefined == Lifecycle!Spec
===============================================================================

---------------------------- MODULE WorkerContract ----------------------------
(***************************************************************************)
(* What the supervisor needs of a worker (worker.py): asked to run a task, *)
(* it returns an output or raises, once, and does not keep the caller      *)
(* waiting for ever.                                                       *)
(***************************************************************************)
VARIABLE job    \* where the worker is with the task it was given

Init == job = "idle"

Move(from, to) == job = from /\ job' = to

Run == Move("idle", "running")
Finish == Move("running", "returned") \/ Move("running", "raised")
Collect == Move("returned", "idle") \/ Move("raised", "idle")

Next == Run \/ Finish \/ Collect

Spec == Init /\ [][Next]_job /\ WF_job(Finish)
===============================================================================

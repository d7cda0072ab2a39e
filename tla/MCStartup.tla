------------------------------ MODULE MCStartup -------------------------------
(***************************************************************************)
(* A small instance of Startup: an API process with two threads and its    *)
(* database, two agents of which one is optional, four sets of keys.       *)
(***************************************************************************)
EXTENDS Startup, TLC

CONSTANTS p1, th1, th2, a1, a2, k1, k2

OneApi == [th \in Threads |-> p1]

\* Two keys; the admin's is set to nothing; one key for both; none.
MCEnvironments ==
    {[admin |-> k1, reviewer |-> k2], [admin |-> Empty, reviewer |-> k2],
     [admin |-> k1, reviewer |-> k1], [admin |-> Unset, reviewer |-> Unset]}
===============================================================================

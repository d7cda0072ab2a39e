------------------------------- MODULE Startup --------------------------------
(***************************************************************************)
(* How a request comes by its supervisor (bootstrap.py): get_supervisor    *)
(* looks for the one of the module; a thread that finds none builds one,   *)
(* registering agent after agent with a durable commit for each, and       *)
(* publishes it.  Nothing keeps two threads from building at once, and     *)
(* each request goes on with the supervisor it got.                        *)
(*                                                                         *)
(* A thread builds at most once in the life of its process, so the         *)
(* supervisors of a process are named by the threads that built them.      *)
(* Three requests stand for all: two that set an agent's flag and one, an  *)
(* approval, whose task earns the agent a level.                           *)
(***************************************************************************)
EXTENDS Access, Naturals

CONSTANTS
    Procs, Threads, ProcOf,
    Api,            \* the processes whose requests need a role: not the dashboard
    Agents, OptionalAgents,
    Environments,   \* the configurations of keys
    MaxLevel,       \* bound: how far an agent is promoted
    Asked,          \* bound: the agents that requests are about
    None

ASSUME StartupAssumption ==
    /\ ProcOf \in [Threads -> Procs] /\ Api \subseteq Procs
    /\ OptionalAgents \subseteq Agents
    /\ Environments \subseteq Environment
    /\ MaxLevel \in Nat /\ Asked \subseteq Agents
    /\ None \notin Agents \cup Threads

VARIABLES
    up, env,        \* is the process running, and with which keys?
    published,      \* the supervisor of its module bootstrap
    supervisor,     \* what a thread has built: the agents of it, their standing
    dbAgents,       \* the table of agents
    pc,             \* the next step of a thread
    request,        \* what its caller asked for, and the supervisor it goes on with
    todo, agent,    \* the agents its build has yet to come to, the one it is at
    stale,          \* history: was the row of that agent written since it was read?
    overlapped,     \* history: were two builds of the process under way at once?
    paused          \* history: agents whose last switch in the process was a pause

startupVars == <<up, env, published, supervisor, dbAgents, pc, request, todo,
                 agent, stale, overlapped, paused>>

Profile == [level : 0..MaxLevel, paused : BOOLEAN]
FirstProfile == [level |-> 0, paused |-> FALSE]
NoSupervisor == [agents |-> {}, standing |-> [a \in Agents |-> FirstProfile]]
NoRequest == [op |-> "none", key |-> Unset, agent |-> None, using |-> None]
Operations == {"pause", "resume", "approve"}

ThreadsOf(p) == {th \in Threads : ProcOf[th] = p}
Building == {"next", "load", "save", "publish"}

StartupInit ==
    /\ up = [p \in Procs |-> FALSE] /\ env \in [Procs -> Environments]
    /\ published = [p \in Procs |-> None]
    /\ supervisor = [th \in Threads |-> NoSupervisor]
    /\ dbAgents = [a \in Agents |-> None]
    /\ pc = [th \in Threads |-> "idle"]
    /\ request = [th \in Threads |-> NoRequest]
    /\ todo = [th \in Threads |-> {}] /\ agent = [th \in Threads |-> None]
    /\ stale = [th \in Threads |-> FALSE]
    /\ overlapped = [p \in Procs |-> FALSE] /\ paused = [p \in Procs |-> {}]

-------------------------------------------------------------------------------
Start(p) ==
    /\ ~ up[p]
    /\ up' = [up EXCEPT ![p] = TRUE]
    /\ UNCHANGED <<env, published, supervisor, dbAgents, pc, request, todo, agent,
                   stale, overlapped, paused>>

\* The process dies, at any moment, and its memory is gone.
Die(p) ==
    LET Reset(f, value) == [th \in Threads |-> IF ProcOf[th] = p THEN value ELSE f[th]]
    IN  /\ up[p]
        /\ up' = [up EXCEPT ![p] = FALSE]
        /\ published' = [published EXCEPT ![p] = None]
        /\ supervisor' = Reset(supervisor, NoSupervisor)
        /\ pc' = Reset(pc, "idle") /\ request' = Reset(request, NoRequest)
        /\ todo' = Reset(todo, {}) /\ agent' = Reset(agent, None)
        /\ stale' = Reset(stale, FALSE)
        /\ overlapped' = [overlapped EXCEPT ![p] = FALSE]
        /\ paused' = [paused EXCEPT ![p] = {}]
        /\ UNCHANGED <<env, dbAgents>>

\* A request that has the role for it reaches its handler; another changes nothing.
Receive(th, op, key, a) ==
    /\ up[ProcOf[th]] /\ pc[th] = "idle"
    /\ ProcOf[th] \in Api => Permitted(env[ProcOf[th]], op, key)
    /\ pc' = [pc EXCEPT ![th] = "check"]
    /\ request' = [request EXCEPT ![th] =
            [op |-> op, key |-> key, agent |-> a, using |-> None]]
    /\ UNCHANGED <<up, env, published, supervisor, dbAgents, todo, agent, stale,
                   overlapped, paused>>

-------------------------------------------------------------------------------
(* get_supervisor.                                                         *)

Step(th, from, to) == pc[th] = from /\ pc' = [pc EXCEPT ![th] = to]

\* Fault: the new supervisor is published before its agents are registered.
CheckPublishing(th) ==
    LET p == ProcOf[th]
        h == IF published[p] = None THEN th ELSE published[p]
    IN  /\ Step(th, "check", IF published[p] = None THEN "next" ELSE "serve")
        /\ published' = [published EXCEPT ![p] = h]
        /\ todo' = [todo EXCEPT ![th] = IF published[p] = None THEN Agents ELSE @]
        /\ request' = [request EXCEPT ![th].key = Unset, ![th].using = h]
        /\ UNCHANGED <<up, env, supervisor, dbAgents, agent, stale, overlapped, paused>>

\* Is there a supervisor?  Another thread's may be under construction.  (The key
\* has done its work and is forgotten.)
Check(th) ==
    LET p == ProcOf[th]
    IN  /\ \/ /\ published[p] # None /\ Step(th, "check", "serve")
              /\ request' = [request EXCEPT ![th].key = Unset,
                                            ![th].using = published[p]]
              /\ UNCHANGED <<todo, overlapped>>
           \/ /\ published[p] = None /\ Step(th, "check", "next")
              /\ todo' = [todo EXCEPT ![th] = Agents]
              /\ overlapped' = [overlapped EXCEPT ![p] =
                    @ \/ \E other \in ThreadsOf(p) : pc[other] \in Building]
              /\ request' = [request EXCEPT ![th].key = Unset]
        /\ UNCHANGED <<up, env, published, supervisor, dbAgents, agent, stale, paused>>

\* The agents of the roster; an optional one comes last, and is registered only
\* if its service answers within the timeout.
NextAgent(th) ==
    /\ \E a \in todo[th] :
        /\ a \in OptionalAgents => todo[th] \subseteq OptionalAgents
        /\ todo' = [todo EXCEPT ![th] = @ \ {a}]
        /\ \/ Step(th, "next", "load") /\ agent' = [agent EXCEPT ![th] = a]
           \/ a \in OptionalAgents /\ Step(th, "next", "next") /\ UNCHANGED agent
    /\ UNCHANGED <<up, env, published, supervisor, dbAgents, request, stale,
                   overlapped, paused>>

AllRegistered(th) ==
    /\ todo[th] = {} /\ Step(th, "next", "publish")
    /\ UNCHANGED <<up, env, published, supervisor, dbAgents, request, todo, agent,
                   stale, overlapped, paused>>

\* Fault: the level and the flag of the program text win.
HydratedNever(persisted) == FirstProfile

Hydrated(persisted) == IF persisted = None THEN FirstProfile ELSE persisted

\* register_agent reads the persisted profile, which wins, ...
Load(th) ==
    LET a == agent[th]
    IN  /\ Step(th, "load", "save")
        /\ supervisor' = [supervisor EXCEPT ![th] =
                [agents |-> @.agents \cup {a},
                 standing |-> [@.standing EXCEPT ![a] = Hydrated(dbAgents[a])]]]
        /\ stale' = [stale EXCEPT ![th] = FALSE]
        /\ UNCHANGED <<up, env, published, dbAgents, request, todo, agent,
                       overlapped, paused>>

\* save_agent, and who has read the row and not written it back yet.
Write(a, profile) ==
    /\ dbAgents' = [dbAgents EXCEPT ![a] = profile]
    /\ stale' = [th \in Threads |-> stale[th] \/ (agent[th] = a /\ pc[th] = "save")]

\* ... and writes it back.
Save(th) ==
    /\ Step(th, "save", "next")
    /\ Write(agent[th], supervisor[th].standing[agent[th]])
    /\ agent' = [agent EXCEPT ![th] = None]
    /\ UNCHANGED <<up, env, published, supervisor, request, todo, overlapped, paused>>

\* Fault: the module's variable is not declared global.
PublishLocally(th) ==
    /\ Step(th, "publish", "serve")
    /\ request' = [request EXCEPT ![th].using = th]
    /\ UNCHANGED <<up, env, published, supervisor, dbAgents, todo, agent, stale,
                   overlapped, paused>>

\* Fault: a new supervisor is not returned.
PublishReturnsNothing(th) ==
    /\ Step(th, "publish", "serve")
    /\ published' = [published EXCEPT ![ProcOf[th]] = th]
    /\ UNCHANGED <<up, env, supervisor, dbAgents, request, todo, agent, stale,
                   overlapped, paused>>

\* Of several builds the last to end is the one that later requests get.
Publish(th) ==
    /\ Step(th, "publish", "serve")
    /\ published' = [published EXCEPT ![ProcOf[th]] = th]
    /\ request' = [request EXCEPT ![th].using = th]
    /\ UNCHANGED <<up, env, supervisor, dbAgents, todo, agent, stale, overlapped, paused>>

-------------------------------------------------------------------------------
(* The operation, on the supervisor the request got.                       *)

Registered(th) == request[th].agent \in supervisor[request[th].using].agents

\* What the operation makes of the agent's profile.
Change(op, profile) ==
    CASE op = "pause" -> [profile EXCEPT !.paused = TRUE]
      [] op = "resume" -> [profile EXCEPT !.paused = FALSE]
      [] OTHER -> [profile EXCEPT !.level = IF @ < MaxLevel THEN @ + 1 ELSE @]

Serve(th) ==
    /\ Step(th, "serve", "commit") /\ Registered(th)
    /\ supervisor' = [supervisor EXCEPT ![request[th].using].standing[request[th].agent] =
                        Change(request[th].op, @)]
    /\ paused' = [paused EXCEPT ![ProcOf[th]] =
                    CASE request[th].op = "pause" -> @ \cup {request[th].agent}
                      [] request[th].op = "resume" -> @ \ {request[th].agent}
                      [] OTHER -> @]
    /\ UNCHANGED <<up, env, published, dbAgents, request, todo, agent, stale, overlapped>>

\* Fault: the handler waits for the agent to be registered.
ServeUnknownWaits(th) ==
    /\ Step(th, "serve", "check") /\ ~ Registered(th)
    /\ request' = [request EXCEPT ![th].using = None]
    /\ UNCHANGED <<up, env, published, supervisor, dbAgents, todo, agent, stale,
                   overlapped, paused>>

\* UnknownAgentError.
ServeUnknown(th) ==
    /\ Step(th, "serve", "idle") /\ ~ Registered(th)
    /\ request' = [request EXCEPT ![th] = NoRequest]
    /\ UNCHANGED <<up, env, published, supervisor, dbAgents, todo, agent, stale,
                   overlapped, paused>>

\* save_agent, and the answer.
Commit(th) ==
    LET a == request[th].agent
    IN  /\ Step(th, "commit", "idle")
        /\ Write(a, supervisor[request[th].using].standing[a])
        /\ request' = [request EXCEPT ![th] = NoRequest]
        /\ UNCHANGED <<up, env, published, supervisor, todo, agent, overlapped, paused>>

-------------------------------------------------------------------------------
Go(th) ==
    \/ Check(th) \/ NextAgent(th) \/ AllRegistered(th)
    \/ Load(th) \/ Save(th) \/ Publish(th)
    \/ Serve(th) \/ ServeUnknown(th) \/ Commit(th)

StartupNext ==
    \/ \E p \in Procs : Start(p) \/ Die(p)
    \/ \E th \in Threads :
        \/ \E op \in Operations, key \in SentKeys, a \in Asked : Receive(th, op, key, a)
        \/ Go(th)

StartupSpec == StartupInit /\ [][StartupNext]_startupVars

\* The interpreter runs every thread, and the health check has a timeout.
FairStartup == StartupSpec /\ \A th \in Threads : WF_startupVars(Go(th))
-------------------------------------------------------------------------------
(* Correctness.                                                            *)

Supervisors == [agents : SUBSET Agents, standing : [Agents -> Profile]]
Requests == [op : Operations \cup {"none"}, key : SentKeys,
             agent : Agents \cup {None}, using : Threads \cup {None}]

\* Every variable has its type, and a thread between two steps has what the
\* next one needs: a supervisor to serve with, an agent to register.
StartupTypeOK ==
    /\ up \in [Procs -> BOOLEAN] /\ env \in [Procs -> Environments]
    /\ published \in [Procs -> Threads \cup {None}]
    /\ supervisor \in [Threads -> Supervisors]
    /\ dbAgents \in [Agents -> Profile \cup {None}]
    /\ pc \in [Threads -> Building \cup {"idle", "check", "serve", "commit"}]
    /\ request \in [Threads -> Requests]
    /\ todo \in [Threads -> SUBSET Agents] /\ agent \in [Threads -> Agents \cup {None}]
    /\ stale \in [Threads -> BOOLEAN]
    /\ overlapped \in [Procs -> BOOLEAN] /\ paused \in [Procs -> SUBSET Agents]
    /\ \A th \in Threads :
        /\ pc[th] # "idle" => request[th].agent \in Agents /\ up[ProcOf[th]]
        /\ pc[th] \in {"serve", "commit"} => request[th].using \in Threads
        /\ pc[th] \in {"load", "save"} <=> agent[th] # None

\* Whatever request comes first and whoever builds: a request is served by a
\* supervisor whose roster is complete, but for an agent that did not answer.
CompleteWhenUsed ==
    \A th \in Threads :
        pc[th] \in {"serve", "commit"} =>
            Agents \ OptionalAgents \subseteq supervisor[request[th].using].agents

\* Starting up takes nothing from an agent and gives it nothing: registering
\* changes a durable profile only if somebody wrote it after it was read.
RegistrationKeepsEarned ==
    [][\A th \in Threads :
        Save(th) /\ dbAgents[agent[th]] # None /\ ~ stale[th] =>
            dbAgents' = dbAgents]_startupVars

\* What one request of a process did, the next one sees: an agent that was paused
\* is paused in the supervisor each later request gets, unless two threads of
\* the process built one at the same time ("a single shared Supervisor instance").
PauseIsSeen ==
    \A th \in Threads :
        pc[th] = "serve" /\ ~ overlapped[ProcOf[th]] =>
            \A a \in paused[ProcOf[th]] : supervisor[request[th].using].standing[a].paused

\* An operation of the API that needs an admin begins only for a caller that sent
\* the admin key, a non-empty one that is not the reviewer's too, or in a
\* process that has no key at all.
AdminOnly ==
    \A th \in Threads :
        LET e == env[ProcOf[th]]
        IN  /\ ProcOf[th] \in Api /\ pc[th] = "check"
            /\ request[th].op \in AdminOperations
            =>  \/ {e.admin, e.reviewer} \cap Keys = {}
                \/ request[th].key = e.admin /\ e.admin \in Keys \ {e.reviewer}

\* A request that reached its handler is answered, or its process dies.
RequestServed == \A th \in Threads : pc[th] = "check" ~> pc[th] = "idle"
===============================================================================

----------------------------- MODULE StartupProofs -----------------------------
(***************************************************************************)
(* What holds of start-up for every set of processes, threads, agents and  *)
(* keys: whichever requests come first, however their builds interleave,   *)
(* and whenever a process dies.                                            *)
(***************************************************************************)
EXTENDS Startup, TLAPS

\* A thread belongs to a process.
LEMMA Home == \A th \in Threads : ProcOf[th] \in Procs
BY StartupAssumption

Quiet(th) == \A o \in Threads \ {th} : pc'[o] = pc[o]

\* A thread that takes a step is the only one whose step changes.
LEMMA StepMoves ==
    ASSUME StartupTypeOK, NEW th \in Threads, NEW from, NEW to, Step(th, from, to)
    PROVE  pc[th] = from /\ pc'[th] = to /\ Quiet(th)
           /\ pc' = [pc EXCEPT ![th] = to]
BY DEF StartupTypeOK, Step, Quiet

\* What an operation makes of a profile is a profile.
LEMMA ChangeType ==
    ASSUME NEW op, NEW profile \in Profile
    PROVE  Change(op, profile) \in Profile
<1>1. CASE op = "pause"
  BY <1>1 DEF Change, Profile
<1>2. CASE op = "resume"
  BY <1>2 DEF Change, Profile
<1>3. CASE op \notin {"pause", "resume"}
  <2>1. Change(op, profile) =
            [profile EXCEPT !.level = IF profile.level < MaxLevel
                                      THEN profile.level + 1 ELSE profile.level]
    BY <1>3 DEF Change, Profile
  <2>2. profile.level \in 0..MaxLevel
    BY DEF Profile
  <2>3. (IF profile.level < MaxLevel THEN profile.level + 1 ELSE profile.level)
            \in 0..MaxLevel
    BY <2>2, StartupAssumption
  <2> QED BY <2>1, <2>3 DEF Profile
<1> QED BY <1>1, <1>2, <1>3

\* The program text's profile is one.
LEMMA FirstProfileType == FirstProfile \in Profile
BY StartupAssumption DEF FirstProfile, Profile

-------------------------------------------------------------------------------
(* Type correctness.                                                       *)

\* Starting and dying.
LEMMA ProcessTyped ==
    ASSUME StartupTypeOK, NEW p \in Procs, Start(p) \/ Die(p)
    PROVE  StartupTypeOK'
<1> USE DEF StartupTypeOK
<1>1. CASE Start(p)
  BY <1>1 DEF Start
<1>2. CASE Die(p)
  <2>1. NoSupervisor \in Supervisors
    BY FirstProfileType DEF NoSupervisor, Supervisors
  <2>2. NoRequest \in Requests /\ NoRequest.agent = None
    BY DEF NoRequest, Requests, SentKeys
  <2>3. None \notin Agents
    BY StartupAssumption
  <2>4. \A th \in Threads :
            \/ /\ ProcOf[th] = p
               /\ supervisor'[th] = NoSupervisor /\ pc'[th] = "idle"
               /\ request'[th] = NoRequest /\ todo'[th] = {} /\ agent'[th] = None
               /\ stale'[th] = FALSE
            \/ /\ ProcOf[th] # p
               /\ supervisor'[th] = supervisor[th] /\ pc'[th] = pc[th]
               /\ request'[th] = request[th] /\ todo'[th] = todo[th]
               /\ agent'[th] = agent[th] /\ stale'[th] = stale[th]
    BY <1>2 DEF Die
  <2>5. /\ supervisor' \in [Threads -> Supervisors]
        /\ pc' \in [Threads -> Building \cup {"idle", "check", "serve", "commit"}]
        /\ request' \in [Threads -> Requests]
        /\ todo' \in [Threads -> SUBSET Agents]
        /\ agent' \in [Threads -> Agents \cup {None}]
        /\ stale' \in [Threads -> BOOLEAN]
    BY <1>2, <2>1, <2>2 DEF Die
  <2>6. /\ up' \in [Procs -> BOOLEAN] /\ env' \in [Procs -> Environments]
        /\ published' \in [Procs -> Threads \cup {None}]
        /\ dbAgents' \in [Agents -> Profile \cup {None}]
        /\ overlapped' \in [Procs -> BOOLEAN] /\ paused' \in [Procs -> SUBSET Agents]
    BY <1>2 DEF Die
  <2>7. \A th \in Threads :
            /\ pc'[th] # "idle" => request'[th].agent \in Agents /\ up'[ProcOf[th]]
            /\ pc'[th] \in {"serve", "commit"} => request'[th].using \in Threads
            /\ pc'[th] \in {"load", "save"} <=> agent'[th] # None
    BY <1>2, <2>4, Home DEF Die
  <2> QED BY <2>5, <2>6, <2>7
<1> QED BY <1>1, <1>2

\* A request arrives, and a thread looks for its supervisor.
LEMMA ReceiveTyped ==
    ASSUME StartupTypeOK, NEW th \in Threads, NEW op \in Operations,
           NEW key \in SentKeys, NEW a \in Asked, Receive(th, op, key, a)
    PROVE  StartupTypeOK'
<1> DEFINE r == [op |-> op, key |-> key, agent |-> a, using |-> None]
<1>1. r \in Requests /\ r.agent \in Agents
  BY StartupAssumption DEF Requests
<1>2. pc' = [pc EXCEPT ![th] = "check"] /\ request' = [request EXCEPT ![th] = r]
  BY DEF Receive
<1> HIDE DEF r
<1> QED BY <1>1, <1>2 DEF Receive, StartupTypeOK, Building

\* A thread that finds no supervisor begins to build one; another uses what it found.
LEMMA CheckTyped ==
    ASSUME StartupTypeOK, NEW th \in Threads, Check(th)
    PROVE  StartupTypeOK'
<1> USE DEF StartupTypeOK, Building
<1>0. \A r \in Requests : \A u \in Threads :
        /\ [r EXCEPT !.key = Unset, !.using = u] \in Requests
        /\ [r EXCEPT !.key = Unset] \in Requests
  BY DEF Requests, SentKeys
<1>1. \A u \in Threads : [request[th] EXCEPT !.key = Unset, !.using = u] \in Requests
  BY <1>0
<1>2. [request[th] EXCEPT !.key = Unset] \in Requests
  BY <1>0
<1>3. CASE published[ProcOf[th]] # None
  <2>1. published[ProcOf[th]] \in Threads
    BY <1>3, Home
  <2>2. request' = [request EXCEPT ![th] =
            [request[th] EXCEPT !.key = Unset, !.using = published[ProcOf[th]]]]
    BY <1>3 DEF Check
  <2>3. request' \in [Threads -> Requests]
    BY <1>1, <2>1, <2>2
  <2>4. request'[th].agent = request[th].agent /\ request'[th].using \in Threads
        /\ \A o \in Threads \ {th} : request'[o] = request[o]
    BY <2>1, <2>2 DEF Requests
  <2> QED BY <1>3, <2>3, <2>4, StepMoves DEF Check, Quiet
<1>4. CASE published[ProcOf[th]] = None
  <2>1. request' = [request EXCEPT ![th] = [request[th] EXCEPT !.key = Unset]]
    BY <1>4 DEF Check
  <2>2. request' \in [Threads -> Requests]
    BY <1>2, <2>1
  <2>3. request'[th].agent = request[th].agent
        /\ \A o \in Threads \ {th} : request'[o] = request[o]
    BY <2>1 DEF Requests
  <2>4. overlapped' \in [Procs -> BOOLEAN] /\ todo' \in [Threads -> SUBSET Agents]
    <3>1. overlapped' = [overlapped EXCEPT ![ProcOf[th]] = overlapped'[ProcOf[th]]]
          /\ overlapped'[ProcOf[th]] \in BOOLEAN
      BY <1>4, Home DEF Check
    <3>2. todo' = [todo EXCEPT ![th] = Agents]
      BY <1>4 DEF Check
    <3> QED BY <3>1, <3>2
  <2> QED BY <1>4, <2>2, <2>3, <2>4, StepMoves DEF Check, Quiet
<1> QED BY <1>3, <1>4

\* The build of a supervisor (bootstrap.py 37-83).
LEMMA BuildTyped ==
    ASSUME StartupTypeOK, NEW th \in Threads,
           NextAgent(th) \/ AllRegistered(th) \/ Publish(th)
    PROVE  StartupTypeOK'
<1> USE DEF StartupTypeOK, Building
<1>1. CASE NextAgent(th)
  <2>1. PICK a \in todo[th] :
            /\ todo' = [todo EXCEPT ![th] = todo[th] \ {a}]
            /\ \/ Step(th, "next", "load") /\ agent' = [agent EXCEPT ![th] = a]
               \/ Step(th, "next", "next") /\ UNCHANGED agent
    BY <1>1 DEF NextAgent
  <2>2. a \in Agents /\ a # None
    BY StartupAssumption
  <2>3. todo' \in [Threads -> SUBSET Agents]
    BY <2>1
  <2>4. CASE Step(th, "next", "load") /\ agent' = [agent EXCEPT ![th] = a]
    BY <1>1, <2>2, <2>3, <2>4, StepMoves DEF NextAgent, Quiet
  <2>5. CASE Step(th, "next", "next") /\ UNCHANGED agent
    BY <1>1, <2>3, <2>5, StepMoves DEF NextAgent, Quiet
  <2> QED BY <2>1, <2>4, <2>5
<1>2. CASE AllRegistered(th)
  BY <1>2, StepMoves DEF AllRegistered, Quiet
<1>3. CASE Publish(th)
  <2>1. request' = [request EXCEPT ![th] = [request[th] EXCEPT !.using = th]]
    BY <1>3 DEF Publish
  <2>2. \A r \in Requests : [r EXCEPT !.using = th] \in Requests
    BY DEF Requests
  <2>3. request' \in [Threads -> Requests]
    BY <2>1, <2>2
  <2>4. request'[th].agent = request[th].agent /\ request'[th].using = th
        /\ \A o \in Threads \ {th} : request'[o] = request[o]
    BY <2>1 DEF Requests
  <2>5. pc[th] = "publish" /\ pc'[th] = "serve" /\ Quiet(th)
        /\ pc' = [pc EXCEPT ![th] = "serve"]
    BY <1>3, StepMoves DEF Publish
  <2>6. published' \in [Procs -> Threads \cup {None}]
    BY <1>3 DEF Publish
  <2> QED BY <1>3, <2>3, <2>4, <2>5, <2>6 DEF Publish, Quiet
<1> QED BY <1>1, <1>2, <1>3

\* Whatever the row says, the hydrated profile is a profile.
LEMMA HydratedType ==
    ASSUME NEW row \in Profile \cup {None} PROVE Hydrated(row) \in Profile
BY FirstProfileType DEF Hydrated

\* register_agent: the read and the write-back (supervisor.py 57-76).
LEMMA LoadTyped ==
    ASSUME StartupTypeOK, NEW th \in Threads, Load(th)
    PROVE  StartupTypeOK'
<1> USE DEF StartupTypeOK, Building
<1> DEFINE a == agent[th]
           s == [agents |-> supervisor[th].agents \cup {a},
                 standing |-> [supervisor[th].standing EXCEPT ![a] = Hydrated(dbAgents[a])]]
<1>1. pc[th] = "load" /\ pc'[th] = "save" /\ Quiet(th) /\ pc' = [pc EXCEPT ![th] = "save"]
  BY StepMoves DEF Load
<1>2. a \in Agents
  BY <1>1
<1>3. s \in Supervisors
  <2>1. Hydrated(dbAgents[a]) \in Profile
    BY <1>2, HydratedType
  <2>2. supervisor[th].agents \subseteq Agents
        /\ supervisor[th].standing \in [Agents -> Profile]
    BY DEF Supervisors
  <2>3. [supervisor[th].standing EXCEPT ![a] = Hydrated(dbAgents[a])] \in [Agents -> Profile]
    BY <2>1, <2>2
  <2> HIDE DEF a
  <2> QED BY <1>2, <2>2, <2>3 DEF Supervisors
<1>4. supervisor' = [supervisor EXCEPT ![th] = s]
  BY DEF Load
<1> HIDE DEF s
<1>5. supervisor' \in [Threads -> Supervisors]
  BY <1>3, <1>4
<1> QED BY <1>1, <1>5 DEF Load, Quiet

\* A write keeps the table a table.
LEMMA WriteType ==
    ASSUME StartupTypeOK, NEW a \in Agents, NEW profile \in Profile, Write(a, profile)
    PROVE  dbAgents' \in [Agents -> Profile \cup {None}] /\ stale' \in [Threads -> BOOLEAN]
<1>1. dbAgents' \in [Agents -> Profile \cup {None}]
  BY DEF Write, StartupTypeOK
<1>2. stale' \in [Threads -> BOOLEAN]
  <2>1. \A th \in Threads : (stale[th] \/ (agent[th] = a /\ pc[th] = "save")) \in BOOLEAN
    BY DEF StartupTypeOK
  <2> QED BY <2>1 DEF Write
<1> QED BY <1>1, <1>2

\* Registration writes back the profile it hydrated.
LEMMA SaveTyped ==
    ASSUME StartupTypeOK, NEW th \in Threads, Save(th)
    PROVE  StartupTypeOK'
<1> USE DEF StartupTypeOK, Building
<1>1. pc[th] = "save" /\ pc'[th] = "next" /\ Quiet(th) /\ pc' = [pc EXCEPT ![th] = "next"]
  BY StepMoves DEF Save
<1>2. agent[th] \in Agents
  BY <1>1
<1>3. supervisor[th].standing[agent[th]] \in Profile
  BY <1>2 DEF Supervisors
<1>4. dbAgents' \in [Agents -> Profile \cup {None}] /\ stale' \in [Threads -> BOOLEAN]
  BY <1>2, <1>3, WriteType DEF Save
<1>5. agent' \in [Threads -> Agents \cup {None}] /\ agent'[th] = None
      /\ \A o \in Threads \ {th} : agent'[o] = agent[o]
  BY DEF Save
<1>6. \A o \in Threads : pc'[o] \in {"load", "save"} <=> agent'[o] # None
  BY <1>1, <1>5 DEF Quiet
<1>7. \A o \in Threads :
        /\ pc'[o] # "idle" => request'[o].agent \in Agents /\ up'[ProcOf[o]]
        /\ pc'[o] \in {"serve", "commit"} => request'[o].using \in Threads
  BY <1>1 DEF Save, Quiet
<1> QED BY <1>1, <1>4, <1>5, <1>6, <1>7 DEF Save

\* The operation, its commit, and the refusal of an unknown agent.
LEMMA ServeTyped ==
    ASSUME StartupTypeOK, NEW th \in Threads, Serve(th)
    PROVE  StartupTypeOK'
<1> USE DEF StartupTypeOK, Building
<1>1. pc[th] = "serve" /\ pc'[th] = "commit" /\ Quiet(th)
      /\ pc' = [pc EXCEPT ![th] = "commit"]
  BY StepMoves DEF Serve
<1>2. PICK h \in Threads, a \in Agents : h = request[th].using /\ a = request[th].agent
  BY <1>1
<1>3. PICK c \in Profile : c = Change(request[th].op, supervisor[h].standing[a])
  <2>1. supervisor[h].standing[a] \in Profile
    BY DEF Supervisors
  <2> QED BY <2>1, ChangeType
<1>4. supervisor' \in [Threads -> Supervisors]
  <2>1. supervisor' = [supervisor EXCEPT ![h].standing[a] = c]
    BY <1>2, <1>3 DEF Serve
  <2>2. [supervisor[h] EXCEPT !.standing[a] = c] \in Supervisors
    <3>1. supervisor[h] \in Supervisors
      OBVIOUS
    <3>2. \A s \in Supervisors : [s EXCEPT !.standing[a] = c] \in Supervisors
      BY DEF Supervisors
    <3> QED BY <3>1, <3>2
  <2>3. supervisor' = [supervisor EXCEPT ![h] = [supervisor[h] EXCEPT !.standing[a] = c]]
    BY <2>1
  <2> QED BY <2>2, <2>3
<1>5. paused' \in [Procs -> SUBSET Agents]
  <2>1. ASSUME NEW S \in SUBSET Agents, paused' = [paused EXCEPT ![ProcOf[th]] = S]
        PROVE  paused' \in [Procs -> SUBSET Agents]
    BY <2>1
  <2>2. paused[ProcOf[th]] \subseteq Agents
    BY Home
  <2>3. CASE request[th].op = "pause"
    <3>1. paused' = [paused EXCEPT ![ProcOf[th]] = paused[ProcOf[th]] \cup {a}]
      BY <1>2, <2>3 DEF Serve
    <3> QED BY <2>1, <2>2, <3>1
  <2>4. CASE request[th].op = "resume"
    <3>1. paused' = [paused EXCEPT ![ProcOf[th]] = paused[ProcOf[th]] \ {a}]
      BY <1>2, <2>4 DEF Serve
    <3> QED BY <2>1, <2>2, <3>1
  <2>5. CASE request[th].op \notin {"pause", "resume"}
    <3>1. paused' = [paused EXCEPT ![ProcOf[th]] = paused[ProcOf[th]]]
      BY <1>2, <2>5 DEF Serve
    <3> QED BY <2>1, <2>2, <3>1
  <2> QED BY <2>3, <2>4, <2>5
<1> QED BY <1>1, <1>4, <1>5 DEF Serve, Quiet

\* A request is answered, with a commit or with UnknownAgentError.
LEMMA AnswerTyped ==
    ASSUME StartupTypeOK, NEW th \in Threads, ServeUnknown(th) \/ Commit(th)
    PROVE  StartupTypeOK'
<1> USE DEF StartupTypeOK, Building
<1>1. pc[th] \in {"serve", "commit"} /\ pc'[th] = "idle" /\ Quiet(th)
      /\ pc' = [pc EXCEPT ![th] = "idle"]
  BY StepMoves DEF ServeUnknown, Commit
<1>2. NoRequest \in Requests
  BY DEF NoRequest, Requests, SentKeys
<1>3. request' \in [Threads -> Requests] /\ \A o \in Threads \ {th} : request'[o] = request[o]
  BY <1>2 DEF ServeUnknown, Commit
<1>4. CASE ServeUnknown(th)
  BY <1>1, <1>3, <1>4 DEF ServeUnknown, Quiet
<1>5. CASE Commit(th)
  <2>1. PICK h \in Threads, a \in Agents : h = request[th].using /\ a = request[th].agent
    BY <1>1
  <2>2. supervisor[h].standing[a] \in Profile
    BY DEF Supervisors
  <2>3. dbAgents' \in [Agents -> Profile \cup {None}] /\ stale' \in [Threads -> BOOLEAN]
    BY <1>5, <2>1, <2>2, WriteType DEF Commit
  <2> QED BY <1>1, <1>3, <1>5, <2>3 DEF Commit, Quiet
<1> QED BY <1>4, <1>5 DEF ServeUnknown, Commit

\* Everything has its type before the first process starts.
LEMMA StartupInitType == StartupInit => StartupTypeOK
<1> SUFFICES ASSUME StartupInit PROVE StartupTypeOK
  OBVIOUS
<1>1. NoSupervisor \in Supervisors
  BY FirstProfileType DEF NoSupervisor, Supervisors
<1>2. NoRequest \in Requests
  BY DEF NoRequest, Requests, SentKeys
<1> QED BY <1>1, <1>2 DEF StartupInit, StartupTypeOK, Building

\* Every step keeps the types.
LEMMA StartupNextType == StartupTypeOK /\ [StartupNext]_startupVars => StartupTypeOK'
<1> SUFFICES ASSUME StartupTypeOK, [StartupNext]_startupVars PROVE StartupTypeOK'
  OBVIOUS
<1>1. CASE UNCHANGED startupVars
  BY <1>1 DEF startupVars, StartupTypeOK
<1>2. ASSUME NEW th \in Threads, Go(th) PROVE StartupTypeOK'
  BY <1>2, CheckTyped, BuildTyped, LoadTyped, SaveTyped, ServeTyped, AnswerTyped DEF Go
<1> QED BY <1>1, <1>2, ProcessTyped, ReceiveTyped DEF StartupNext

\* A thread between two steps of a build or of a request always has what the
\* next step needs.
THEOREM StartupTypeCorrect == StartupSpec => []StartupTypeOK
BY StartupInitType, StartupNextType, PTL DEF StartupSpec

-------------------------------------------------------------------------------
(* auth.py: who may begin an operation.                                    *)

\* ConfiguredKeys and RoleOf (auth.py 42-69): a caller whose role covers an
\* operation of the admin sent the admin's key, or there are no keys.
LEMMA AdminKey ==
    ASSUME NEW env1 \in Environment, NEW op \in AdminOperations, NEW key \in SentKeys,
           Permitted(env1, op, key)
    PROVE  \/ {env1.admin, env1.reviewer} \cap Keys = {}
           \/ key = env1.admin /\ env1.admin \in Keys \ {env1.reviewer}
<1> DEFINE keys == ConfiguredKeys(env1)
<1>1. DOMAIN keys = {env1.admin, env1.reviewer} \cap Keys
  BY AccessAssumption DEF ConfiguredKeys, Environment, SentKeys
<1>2. RoleOf(env1, key) = "admin"
  BY DEF Permitted
<1>3. CASE DOMAIN keys = {}
  BY <1>1, <1>3
<1>4. CASE DOMAIN keys # {}
  <2>1. key \in DOMAIN keys /\ keys[key] = "admin"
    BY <1>2, <1>4 DEF RoleOf
  <2>2. key # env1.reviewer
    BY <2>1 DEF ConfiguredKeys
  <2> QED BY <1>1, <2>1, <2>2
<1> QED BY <1>3, <1>4

\* A thread that is at "check" has just received its request.
LEMMA AdminOnlyStep ==
    StartupTypeOK /\ AdminOnly /\ [StartupNext]_startupVars => AdminOnly'
<1> SUFFICES ASSUME StartupTypeOK, AdminOnly, [StartupNext]_startupVars, NEW th \in Threads,
                    ProcOf[th] \in Api, pc'[th] = "check",
                    request'[th].op \in AdminOperations
             PROVE  \/ {env'[ProcOf[th]].admin, env'[ProcOf[th]].reviewer} \cap Keys = {}
                    \/ /\ request'[th].key = env'[ProcOf[th]].admin
                       /\ env'[ProcOf[th]].admin \in Keys \ {env'[ProcOf[th]].reviewer}
  BY DEF AdminOnly
<1>1. UNCHANGED env
  BY DEF StartupNext, startupVars, Start, Die, Receive, Go, Check, NextAgent,
         AllRegistered, Load, Save, Publish, Serve, ServeUnknown, Commit
<1>2. CASE \E op \in Operations, key \in SentKeys, a \in Asked : Receive(th, op, key, a)
  <2>1. PICK op \in Operations, key \in SentKeys, a \in Asked : Receive(th, op, key, a)
    BY <1>2
  <2>2. request'[th].op = op /\ request'[th].key = key
    BY <2>1 DEF Receive, StartupTypeOK
  <2>3. env[ProcOf[th]] \in Environment
    BY Home, StartupAssumption DEF StartupTypeOK
  <2>4. Permitted(env[ProcOf[th]], op, key)
    BY <2>1 DEF Receive
  <2> QED BY <1>1, <2>2, <2>3, <2>4, AdminKey
<1>3. CASE ~ \E op \in Operations, key \in SentKeys, a \in Asked : Receive(th, op, key, a)
  <2>1. pc[th] = "check" /\ request'[th] = request[th]
    <3>1. CASE UNCHANGED startupVars
      BY <3>1 DEF startupVars
    <3>2. ASSUME NEW p \in Procs, Start(p) \/ Die(p)
          PROVE  pc[th] = "check" /\ request'[th] = request[th]
      <4>1. CASE Start(p)
        BY <4>1 DEF Start
      <4>2. CASE Die(p)
        <5>1. pc' = [o \in Threads |-> IF ProcOf[o] = p THEN "idle" ELSE pc[o]]
              /\ request' = [o \in Threads |->
                                IF ProcOf[o] = p THEN NoRequest ELSE request[o]]
          BY <4>2 DEF Die
        <5> QED BY <5>1
      <4> QED BY <3>2, <4>1, <4>2
    <3>3. ASSUME NEW o \in Threads, NEW op \in Operations, NEW key \in SentKeys,
                 NEW a \in Asked, Receive(o, op, key, a)
          PROVE  pc[th] = "check" /\ request'[th] = request[th]
      BY <1>3, <3>3 DEF Receive, StartupTypeOK
    <3>4. ASSUME NEW o \in Threads, Go(o)
          PROVE  pc[th] = "check" /\ request'[th] = request[th]
      <4>1. PICK from, to : Step(o, from, to) /\ to # "check"
        BY <3>4 DEF Go, Check, NextAgent, AllRegistered, Load, Save, Publish, Serve,
                    ServeUnknown, Commit
      <4>2. o # th /\ pc[th] = "check"
        BY <4>1, StepMoves DEF Quiet
      <4>3. request'[th] = request[th]
        BY <3>4, <4>2 DEF Go, Check, NextAgent, AllRegistered, Load, Save, Publish, Serve,
                    ServeUnknown, Commit, StartupTypeOK
      <4> QED BY <4>2, <4>3
    <3> QED BY <3>1, <3>2, <3>3, <3>4 DEF StartupNext
  <2> QED BY <1>1, <2>1 DEF AdminOnly
<1> QED BY <1>2, <1>3

\* Whatever keys are configured and sent, only the admin's begins an operation
\* of the admin, or there is no key at all.
THEOREM AdminsOnly == StartupSpec => []AdminOnly
<1>1. StartupInit => AdminOnly
  BY DEF StartupInit, AdminOnly
<1> QED BY <1>1, StartupTypeCorrect, AdminOnlyStep, PTL DEF StartupSpec

-------------------------------------------------------------------------------
(* Whose supervisor a request gets.                                        *)

Required == Agents \ OptionalAgents
Built(h) == Required \subseteq supervisor[h].agents /\ pc[h] \notin Building

\* The supervisor of a process was built by one of its threads, to the end.
PublishedSound(p) ==
    published[p] # None => ProcOf[published[p]] = p /\ Built(published[p])

\* So was the one a request goes on with, and there is no more None after it.
UsingSound(th) ==
    /\ request[th].using # None =>
            /\ published[ProcOf[th]] # None
            /\ ProcOf[request[th].using] = ProcOf[th]
            /\ Built(request[th].using)
    /\ pc[th] \notin {"serve", "commit"} => request[th].using = None

\* A build has registered every agent it needs but those it has yet to come to.
BuildSound(th) ==
    /\ pc[th] \in Building =>
            Required \subseteq supervisor[th].agents \cup todo[th]
                                \cup (IF pc[th] = "load" THEN {agent[th]} ELSE {})
    /\ pc[th] = "publish" => todo[th] = {}

\* What it is about to write back is what it read, or the row was written since.
Fresh(th) ==
    pc[th] = "save" /\ ~ stale[th] /\ dbAgents[agent[th]] # None =>
        supervisor[th].standing[agent[th]] = dbAgents[agent[th]]

Sound ==
    /\ \A p \in Procs : PublishedSound(p)
    /\ \A th \in Threads : UsingSound(th) /\ BuildSound(th) /\ Fresh(th)

\* A process that starts changes no build, no publication and no request.
LEMMA StartSound ==
    ASSUME StartupTypeOK, Sound, NEW p \in Procs, Start(p)
    PROVE  Sound'
BY DEF Start, Sound, PublishedSound, UsingSound, BuildSound, Fresh, Built

\* The dead process takes its supervisors and its requests with it.
LEMMA DieSound ==
    ASSUME StartupTypeOK, Sound, NEW p \in Procs, Die(p)
    PROVE  Sound'
<1>1. \A th \in Threads :
        \/ /\ ProcOf[th] = p /\ pc'[th] = "idle" /\ request'[th] = NoRequest
        \/ /\ ProcOf[th] # p
           /\ supervisor'[th] = supervisor[th] /\ pc'[th] = pc[th]
           /\ request'[th] = request[th] /\ todo'[th] = todo[th]
           /\ agent'[th] = agent[th] /\ stale'[th] = stale[th]
  BY DEF Die
<1>2. NoRequest.using = None
  BY DEF NoRequest
<1>3. /\ published'[p] = None /\ \A q \in Procs \ {p} : published'[q] = published[q]
      /\ UNCHANGED dbAgents
  BY DEF Die, StartupTypeOK
<1>4. \A q \in Procs : PublishedSound(q)'
  <2> SUFFICES ASSUME NEW q \in Procs, published'[q] # None
               PROVE  ProcOf[published'[q]] = q /\ Built(published[q])'
    BY DEF PublishedSound
  <2>1. q # p /\ published'[q] = published[q] /\ published[q] \in Threads
    BY <1>3 DEF StartupTypeOK
  <2>2. ProcOf[published[q]] = q /\ Built(published[q])
    BY <2>1 DEF Sound, PublishedSound
  <2> QED BY <1>1, <2>1, <2>2 DEF Built
<1>5. ASSUME NEW th \in Threads PROVE UsingSound(th)'
  <2>1. CASE ProcOf[th] = p
    BY <1>1, <1>2, <2>1 DEF UsingSound
  <2>2. CASE ProcOf[th] # p
    <3>1. request[th].using \in Threads \cup {None}
      BY DEF StartupTypeOK, Requests
    <3>2. UsingSound(th)
      BY DEF Sound
    <3> QED BY <1>1, <1>3, <2>2, <3>1, <3>2, Home DEF UsingSound, Built
  <2> QED BY <2>1, <2>2
<1>6. ASSUME NEW th \in Threads PROVE BuildSound(th)' /\ Fresh(th)'
  BY <1>1, <1>3 DEF Sound, BuildSound, Fresh, Building
<1> QED BY <1>4, <1>5, <1>6 DEF Sound

\* A request that arrives has no supervisor yet.
LEMMA ReceiveSound ==
    ASSUME StartupTypeOK, Sound, NEW th \in Threads, NEW op \in Operations,
           NEW key \in SentKeys, NEW a \in Asked, Receive(th, op, key, a)
    PROVE  Sound'
<1>1. /\ pc'[th] = "check" /\ pc[th] = "idle" /\ Quiet(th)
      /\ request'[th].using = None /\ \A o \in Threads \ {th} : request'[o] = request[o]
      /\ UNCHANGED <<published, supervisor, dbAgents, todo, agent, stale>>
  BY DEF Receive, StartupTypeOK, Quiet
<1>2. \A q \in Procs : PublishedSound(q)'
  BY <1>1 DEF Sound, PublishedSound, Built, Quiet, Building, StartupTypeOK
<1>3. ASSUME NEW o \in Threads PROVE UsingSound(o)' /\ BuildSound(o)' /\ Fresh(o)'
  <2>1. CASE o = th
    BY <1>1, <2>1 DEF Sound, UsingSound, BuildSound, Fresh, Building
  <2>2. CASE o # th
    <3>1. request[o].using \in Threads \cup {None}
      BY DEF StartupTypeOK, Requests
    <3> QED BY <1>1, <2>2, <3>1
            DEF Sound, UsingSound, BuildSound, Fresh, Building, Built, Quiet
  <2> QED BY <2>1, <2>2
<1> QED BY <1>2, <1>3 DEF Sound

\* What a request uses, and what a process has published, some thread built.
LEMMA UsingType ==
    ASSUME StartupTypeOK
    PROVE  /\ \A th \in Threads : request[th].using \in Threads \cup {None}
           /\ \A p \in Procs : published[p] \in Threads \cup {None}
           /\ None \notin Threads
BY StartupAssumption DEF StartupTypeOK, Requests

\* A thread that finds no supervisor has none of its own that anybody could use.
LEMMA CheckSound ==
    ASSUME StartupTypeOK, Sound, NEW th \in Threads, Check(th)
    PROVE  Sound'
<1>1. /\ pc[th] = "check" /\ Quiet(th) /\ pc'[th] \in {"serve", "next"}
      /\ UNCHANGED <<published, supervisor, dbAgents, agent, stale>>
      /\ \A o \in Threads \ {th} : request'[o] = request[o] /\ todo'[o] = todo[o]
  BY StepMoves DEF Check, StartupTypeOK
<1>2. CASE published[ProcOf[th]] # None
  <2>1. pc'[th] = "serve" /\ request'[th].using = published[ProcOf[th]]
    BY <1>2, StepMoves DEF Check, StartupTypeOK, Requests
  <2>2. \A p \in Procs : PublishedSound(p)'
    BY <1>1, <2>1, UsingType DEF Sound, PublishedSound, Built, Quiet, Building
  <2>3. ASSUME NEW o \in Threads PROVE UsingSound(o)'
    <3>1. CASE o = th
      BY <1>1, <1>2, <2>1, <3>1, Home, UsingType
         DEF Sound, PublishedSound, UsingSound, Built, Quiet, Building
    <3>2. CASE o # th
      BY <1>1, <2>1, <3>2, UsingType DEF Sound, UsingSound, Built, Quiet, Building
    <3> QED BY <3>1, <3>2
  <2>4. ASSUME NEW o \in Threads PROVE BuildSound(o)' /\ Fresh(o)'
    BY <1>1, <2>1 DEF Sound, BuildSound, Fresh, Building, Quiet
  <2> QED BY <2>2, <2>3, <2>4 DEF Sound
<1>3. CASE published[ProcOf[th]] = None
  <2>1. pc'[th] = "next" /\ request'[th].using = request[th].using /\ todo'[th] = Agents
    BY <1>3, StepMoves DEF Check, StartupTypeOK, Requests
  <2>2. \A p \in Procs : PublishedSound(p)'
    BY <1>1, <1>3, <2>1, UsingType DEF Sound, PublishedSound, Built, Quiet, Building
  <2>3. ASSUME NEW o \in Threads PROVE UsingSound(o)'
    <3>1. CASE o = th
      BY <1>1, <2>1, <3>1 DEF Sound, UsingSound
    <3>2. CASE o # th
      BY <1>1, <1>3, <2>1, <3>2, UsingType DEF Sound, UsingSound, Built, Quiet, Building
    <3> QED BY <3>1, <3>2
  <2>4. ASSUME NEW o \in Threads PROVE BuildSound(o)' /\ Fresh(o)'
    BY <1>1, <2>1 DEF Sound, BuildSound, Fresh, Building, Quiet, Required
  <2> QED BY <2>2, <2>3, <2>4 DEF Sound
<1> QED BY <1>2, <1>3

\* In a build, the next agent leaves the list only to be registered, or if it is
\* an optional one.
LEMMA NextAgentSound ==
    ASSUME StartupTypeOK, Sound, NEW th \in Threads, NextAgent(th) \/ AllRegistered(th)
    PROVE  Sound'
<1>1. /\ pc[th] = "next" /\ Quiet(th) /\ pc'[th] \in {"load", "next", "publish"}
      /\ UNCHANGED <<published, supervisor, dbAgents, request, stale>>
      /\ \A o \in Threads \ {th} : agent'[o] = agent[o] /\ todo'[o] = todo[o]
  BY StepMoves DEF NextAgent, AllRegistered, StartupTypeOK
<1>2. \A p \in Procs : PublishedSound(p)'
  BY <1>1, UsingType DEF Sound, PublishedSound, Built, Quiet, Building
<1>3. \A o \in Threads : UsingSound(o)'
  BY <1>1, UsingType DEF Sound, UsingSound, Built, Quiet, Building
<1>4. \A o \in Threads : Fresh(o)'
  BY <1>1 DEF Sound, Fresh, Quiet
<1>5. BuildSound(th)'
  <2>1. CASE NextAgent(th)
    <3>1. PICK a \in todo[th] :
            /\ todo'[th] = todo[th] \ {a}
            /\ \/ pc'[th] = "load" /\ agent'[th] = a
               \/ pc'[th] = "next" /\ a \in OptionalAgents
      BY <2>1, StepMoves DEF NextAgent, StartupTypeOK
    <3>2. Required \subseteq supervisor[th].agents \cup todo[th]
      BY <1>1 DEF Sound, BuildSound, Building
    <3> QED BY <1>1, <3>1, <3>2 DEF BuildSound, Required
  <2>2. CASE AllRegistered(th)
    BY <1>1, <2>2, StepMoves DEF Sound, BuildSound, AllRegistered, Building
  <2> QED BY <2>1, <2>2
<1>6. ASSUME NEW o \in Threads \ {th} PROVE BuildSound(o)'
  BY <1>1, <1>6 DEF Sound, BuildSound, Quiet
<1> QED BY <1>2, <1>3, <1>4, <1>5, <1>6 DEF Sound

\* Hydration: the build has one agent more, with the profile of its row.
LEMMA LoadSound ==
    ASSUME StartupTypeOK, Sound, NEW th \in Threads, Load(th)
    PROVE  Sound'
<1> PICK a \in Agents : a = agent[th]
  BY StepMoves DEF Load, StartupTypeOK
<1>1. /\ pc[th] = "load" /\ Quiet(th) /\ pc'[th] = "save"
      /\ UNCHANGED <<published, dbAgents, request, todo, agent>>
      /\ \A o \in Threads \ {th} : supervisor'[o] = supervisor[o] /\ stale'[o] = stale[o]
  BY StepMoves DEF Load, StartupTypeOK
<1>2. /\ supervisor'[th].agents = supervisor[th].agents \cup {a}
      /\ supervisor'[th].standing[a] = Hydrated(dbAgents[a])
  BY DEF Load, StartupTypeOK, Supervisors
<1>3. \A p \in Procs : PublishedSound(p)'
  BY <1>1, UsingType DEF Sound, PublishedSound, Built, Quiet, Building
<1>4. \A o \in Threads : UsingSound(o)'
  BY <1>1, UsingType DEF Sound, UsingSound, Built, Quiet, Building
<1>5. BuildSound(th)' /\ Fresh(th)'
  BY <1>1, <1>2 DEF Sound, BuildSound, Fresh, Hydrated, Building
<1>6. ASSUME NEW o \in Threads \ {th} PROVE BuildSound(o)' /\ Fresh(o)'
  BY <1>1, <1>6 DEF Sound, BuildSound, Fresh, Quiet
<1> QED BY <1>3, <1>4, <1>5, <1>6 DEF Sound

\* Whoever writes a row makes every copy of it stale that is not written back.
LEMMA WriteFresh ==
    ASSUME StartupTypeOK, Sound, NEW th \in Threads, NEW a \in Agents, NEW profile,
           Write(a, profile), NEW o \in Threads \ {th}, Quiet(th),
           agent'[o] = agent[o], supervisor'[o] = supervisor[o]
    PROVE  Fresh(o)'
<1>1. agent[o] = a /\ pc[o] = "save" => stale'[o]
  BY DEF Write
<1>2. agent[o] # a => dbAgents'[agent[o]] = dbAgents[agent[o]] \/ agent[o] = None
  BY DEF Write, StartupTypeOK
<1>3. stale'[o] \/ (~ stale'[o] /\ ~ stale[o])
  BY DEF Write
<1>4. pc[o] = "save" => agent[o] # None
  BY DEF StartupTypeOK
<1>5. Fresh(o) /\ pc'[o] = pc[o]
  BY DEF Sound, Quiet
<1> QED BY <1>1, <1>2, <1>3, <1>4, <1>5 DEF Fresh

\* Registration commits what it read; a row written in between is stale.
LEMMA SaveSound ==
    ASSUME StartupTypeOK, Sound, NEW th \in Threads, Save(th)
    PROVE  Sound'
<1>1. /\ pc[th] = "save" /\ Quiet(th) /\ pc'[th] = "next"
      /\ UNCHANGED <<published, supervisor, request, todo>>
      /\ \A o \in Threads \ {th} : agent'[o] = agent[o]
  BY StepMoves DEF Save, StartupTypeOK
<1>2. agent[th] \in Agents
  BY <1>1 DEF StartupTypeOK
<1>3. \A p \in Procs : PublishedSound(p)'
  BY <1>1, UsingType DEF Sound, PublishedSound, Built, Quiet, Building
<1>4. \A o \in Threads : UsingSound(o)'
  BY <1>1, UsingType DEF Sound, UsingSound, Built, Quiet, Building
<1>5. BuildSound(th)' /\ Fresh(th)'
  BY <1>1 DEF Sound, BuildSound, Fresh, Building
<1>6. ASSUME NEW o \in Threads \ {th} PROVE BuildSound(o)'
  BY <1>1, <1>6 DEF Sound, BuildSound, Quiet
<1>7. ASSUME NEW o \in Threads \ {th} PROVE Fresh(o)'
  BY <1>1, <1>2, WriteFresh DEF Save
<1> QED BY <1>3, <1>4, <1>5, <1>6, <1>7 DEF Sound

\* Only a supervisor whose roster is complete is published.
LEMMA PublishSound ==
    ASSUME StartupTypeOK, Sound, NEW th \in Threads, Publish(th)
    PROVE  Sound'
<1>1. /\ pc[th] = "publish" /\ Quiet(th) /\ pc'[th] = "serve"
      /\ UNCHANGED <<supervisor, dbAgents, todo, agent, stale>>
      /\ request'[th].using = th /\ \A o \in Threads \ {th} : request'[o] = request[o]
      /\ published'[ProcOf[th]] = th
      /\ \A p \in Procs \ {ProcOf[th]} : published'[p] = published[p]
  BY StepMoves, Home DEF Publish, StartupTypeOK, Requests
<1>2. Built(th)'
  BY <1>1 DEF Sound, BuildSound, Built, Building
<1>3. ASSUME NEW p \in Procs PROVE PublishedSound(p)'
  BY <1>1, <1>2, UsingType DEF Sound, PublishedSound, Built, Quiet, Building
<1>4. ASSUME NEW o \in Threads PROVE UsingSound(o)'
  <2>1. CASE o = th
    BY <1>1, <1>2, <2>1, UsingType DEF UsingSound
  <2>2. CASE o # th
    BY <1>1, <2>2, Home, UsingType DEF Sound, UsingSound, Built, Quiet, Building
  <2> QED BY <2>1, <2>2
<1>5. ASSUME NEW o \in Threads PROVE BuildSound(o)' /\ Fresh(o)'
  BY <1>1 DEF Sound, BuildSound, Fresh, Quiet, Building
<1> QED BY <1>3, <1>4, <1>5 DEF Sound

\* A request changes a supervisor that nobody is building.
LEMMA ServeSound ==
    ASSUME StartupTypeOK, Sound, NEW th \in Threads, Serve(th)
    PROVE  Sound'
<1>1. /\ pc[th] = "serve" /\ Quiet(th) /\ pc'[th] = "commit"
      /\ UNCHANGED <<published, dbAgents, request, todo, agent, stale>>
  BY StepMoves DEF Serve
<1>2. PICK h \in Threads : h = request[th].using
  BY <1>1 DEF StartupTypeOK
<1>3. \A o \in Threads \ {h} : supervisor'[o] = supervisor[o]
  BY <1>2 DEF Serve, StartupTypeOK
<1>4. supervisor'[h].agents = supervisor[h].agents
  BY <1>2 DEF Serve, StartupTypeOK, Supervisors
<1>5. pc[h] \notin Building /\ pc'[h] \notin Building
  BY <1>1, <1>2, UsingType DEF Sound, UsingSound, Built, Quiet, Building
<1>6. \A o \in Threads : supervisor'[o].agents = supervisor[o].agents
  BY <1>3, <1>4
<1>7. \A p \in Procs : PublishedSound(p)'
  BY <1>1, <1>6, UsingType DEF Sound, PublishedSound, Built, Quiet, Building
<1>8. \A o \in Threads : UsingSound(o)'
  BY <1>1, <1>6, UsingType DEF Sound, UsingSound, Built, Quiet, Building
<1>9. ASSUME NEW o \in Threads PROVE BuildSound(o)' /\ Fresh(o)'
  <2>1. CASE o = th \/ o = h
    BY <1>1, <1>5, <2>1 DEF BuildSound, Fresh, Building
  <2>2. CASE o # th /\ o # h
    BY <1>1, <1>3, <2>2 DEF Sound, BuildSound, Fresh, Quiet, Building
  <2> QED BY <2>1, <2>2
<1> QED BY <1>7, <1>8, <1>9 DEF Sound

\* An answered request uses no supervisor any more.
LEMMA AnswerSound ==
    ASSUME StartupTypeOK, Sound, NEW th \in Threads, ServeUnknown(th) \/ Commit(th)
    PROVE  Sound'
<1>1. /\ pc[th] \in {"serve", "commit"} /\ Quiet(th) /\ pc'[th] = "idle"
      /\ UNCHANGED <<published, supervisor, todo, agent>>
      /\ request'[th].using = None /\ \A o \in Threads \ {th} : request'[o] = request[o]
  BY StepMoves DEF ServeUnknown, Commit, NoRequest, StartupTypeOK
<1>2. \A p \in Procs : PublishedSound(p)'
  BY <1>1, UsingType DEF Sound, PublishedSound, Built, Quiet, Building
<1>3. ASSUME NEW o \in Threads PROVE UsingSound(o)'
  BY <1>1, UsingType DEF Sound, UsingSound, Built, Quiet, Building
<1>4. \A o \in Threads : BuildSound(o)'
  BY <1>1 DEF Sound, BuildSound, Quiet, Building
<1>5. Fresh(th)'
  BY <1>1 DEF Fresh
<1>6. ASSUME NEW o \in Threads \ {th} PROVE Fresh(o)'
  <2>1. CASE ServeUnknown(th)
    BY <1>1, <1>6, <2>1 DEF ServeUnknown, Sound, Fresh, Quiet
  <2>2. CASE Commit(th)
    <3>1. request[th].agent \in Agents
      BY <1>1 DEF StartupTypeOK
    <3> QED BY <1>1, <1>6, <2>2, <3>1, WriteFresh DEF Commit
  <2> QED BY <2>1, <2>2
<1> QED BY <1>2, <1>3, <1>4, <1>5, <1>6 DEF Sound

\* Every step keeps builds, publications and uses sound.
LEMMA SoundNext == StartupTypeOK /\ Sound /\ [StartupNext]_startupVars => Sound'
<1> SUFFICES ASSUME StartupTypeOK, Sound, [StartupNext]_startupVars PROVE Sound'
  OBVIOUS
<1>1. CASE UNCHANGED startupVars
  BY <1>1 DEF startupVars, Sound, PublishedSound, UsingSound, BuildSound, Fresh, Built
<1>2. ASSUME NEW th \in Threads, Go(th) PROVE Sound'
  BY <1>2, CheckSound, NextAgentSound, LoadSound, SaveSound, PublishSound, ServeSound,
     AnswerSound DEF Go
<1> QED BY <1>1, <1>2, StartSound, DieSound, ReceiveSound DEF StartupNext

\* At first nobody builds and nobody uses a supervisor.
LEMMA SoundInit == StartupInit => Sound
BY DEF StartupInit, NoRequest, Sound, PublishedSound, UsingSound, BuildSound, Fresh, Building

\* Soundness is an invariant.
LEMMA AlwaysSound == StartupSpec => []Sound
BY SoundInit, SoundNext, StartupTypeCorrect, PTL DEF StartupSpec

\* Whatever request comes first, and however many threads build at once, a
\* request is served with a complete roster.
THEOREM RosterComplete == StartupSpec => []CompleteWhenUsed
<1>1. StartupTypeOK /\ Sound => CompleteWhenUsed
  BY UsingType DEF StartupTypeOK, Sound, UsingSound, Built, Required, CompleteWhenUsed
<1> QED BY <1>1, AlwaysSound, StartupTypeCorrect, PTL

\* Registering changes a durable profile only if it was written in between.
THEOREM EarnedIsKept == StartupSpec => RegistrationKeepsEarned
<1>1. StartupTypeOK /\ Sound /\ [StartupNext]_startupVars =>
        [\A th \in Threads :
            Save(th) /\ dbAgents[agent[th]] # None /\ ~ stale[th] =>
                dbAgents' = dbAgents]_startupVars
  <2> SUFFICES ASSUME StartupTypeOK, Sound, NEW th \in Threads, Save(th),
                      dbAgents[agent[th]] # None, ~ stale[th]
               PROVE  dbAgents' = dbAgents
    OBVIOUS
  <2>1. pc[th] = "save" /\ agent[th] \in Agents
    BY StepMoves DEF Save, StartupTypeOK
  <2>2. supervisor[th].standing[agent[th]] = dbAgents[agent[th]]
    BY <2>1 DEF Sound, Fresh
  <2>3. dbAgents' = [dbAgents EXCEPT ![agent[th]] = dbAgents[agent[th]]]
    BY <2>2 DEF Save, Write
  <2> QED BY <2>1, <2>3 DEF StartupTypeOK
<1> QED BY <1>1, AlwaysSound, StartupTypeCorrect, PTL
        DEF StartupSpec, RegistrationKeepsEarned

-------------------------------------------------------------------------------
(* One supervisor for all the requests of a process.                       *)

\* A process no two of whose builds overlapped has had at most one supervisor,
\* and every pause it acknowledged is in it.
Single(p) ==
    ~ overlapped[p] =>
        IF published[p] = None
        THEN /\ paused[p] = {}
             /\ \A th1, th2 \in ThreadsOf(p) :
                    pc[th1] \in Building /\ pc[th2] \in Building => th1 = th2
        ELSE /\ \A th \in ThreadsOf(p) :
                    /\ pc[th] \notin Building
                    /\ request[th].using \in {None, published[p]}
             /\ \A a \in paused[p] : supervisor[published[p]].standing[a].paused

\* A step of th that starts no build, publishes none and changes no supervisor
\* but one under construction.
LEMMA SingleKept ==
    ASSUME StartupTypeOK, Sound, \A p \in Procs : Single(p), NEW th \in Threads,
           Quiet(th), pc'[th] \in Building => pc[th] \in Building,
           UNCHANGED <<published, overlapped, paused>>,
           \A o \in Threads : \/ request'[o].using = request[o].using
                              \/ request'[o].using = None,
           \A h \in Threads : supervisor'[h] = supervisor[h] \/ pc[h] \in Building
    PROVE  \A p \in Procs : Single(p)'
<1> SUFFICES ASSUME NEW p \in Procs, ~ overlapped[p] PROVE Single(p)'
  BY DEF Single
<1>1. CASE published[p] = None
  BY <1>1 DEF Single, ThreadsOf, Quiet
<1>2. CASE published[p] # None
  <2>1. supervisor'[published[p]] = supervisor[published[p]]
    BY <1>2, UsingType DEF Sound, PublishedSound, Built
  <2>2. \A o \in ThreadsOf(p) :
            pc'[o] \notin Building /\ request'[o].using \in {None, published[p]}
    BY <1>2 DEF Single, ThreadsOf, Quiet
  <2> QED BY <1>2, <2>1, <2>2 DEF Single, ThreadsOf
<1> QED BY <1>1, <1>2

\* A process that dies leaves no build under way and no pause to show.
LEMMA ProcessSingle ==
    ASSUME StartupTypeOK, Sound, \A q \in Procs : Single(q), NEW p \in Procs,
           Start(p) \/ Die(p)
    PROVE  \A q \in Procs : Single(q)'
<1>1. CASE Start(p)
  BY <1>1 DEF Start, Single, ThreadsOf
<1>2. CASE Die(p)
  <2> SUFFICES ASSUME NEW q \in Procs PROVE Single(q)'
    OBVIOUS
  <2>1. \A th \in Threads :
            \/ ProcOf[th] = p /\ pc'[th] = "idle"
            \/ /\ ProcOf[th] # p /\ pc'[th] = pc[th]
               /\ request'[th] = request[th] /\ supervisor'[th] = supervisor[th]
    BY <1>2 DEF Die
  <2>2. CASE q = p
    <3>1. published'[p] = None /\ paused'[p] = {}
      BY <1>2 DEF Die, StartupTypeOK
    <3> QED BY <2>1, <2>2, <3>1 DEF Single, ThreadsOf, Building
  <2>3. CASE q # p
    <3>1. published'[q] = published[q] /\ paused'[q] = paused[q]
          /\ overlapped'[q] = overlapped[q]
      BY <1>2, <2>3 DEF Die, StartupTypeOK
    <3>2. published[q] # None => supervisor'[published[q]] = supervisor[published[q]]
      BY <2>1, <2>3, UsingType DEF Sound, PublishedSound
    <3>3. Single(q)
      OBVIOUS
    <3>4. \A th \in ThreadsOf(q) : pc'[th] = pc[th] /\ request'[th] = request[th]
      BY <2>1, <2>3 DEF ThreadsOf
    <3> QED BY <3>1, <3>2, <3>3, <3>4 DEF Single, ThreadsOf
  <2> QED BY <2>2, <2>3
<1> QED BY <1>1, <1>2

\* A build that begins while another is under way is what "overlapped" records.
LEMMA CheckSingle ==
    ASSUME StartupTypeOK, Sound, \A q \in Procs : Single(q), NEW th \in Threads, Check(th)
    PROVE  \A q \in Procs : Single(q)'
<1> SUFFICES ASSUME NEW q \in Procs, ~ overlapped'[q] PROVE Single(q)'
  BY DEF Single
<1>1. /\ pc[th] = "check" /\ Quiet(th) /\ UNCHANGED <<published, supervisor, paused>>
      /\ \A o \in Threads \ {th} : request'[o] = request[o]
  BY StepMoves DEF Check, StartupTypeOK
<1>2. CASE published[ProcOf[th]] # None
  <2>1. pc'[th] = "serve" /\ UNCHANGED overlapped
        /\ request'[th].using = published[ProcOf[th]]
    BY <1>2, StepMoves DEF Check, StartupTypeOK, Requests
  <2> QED BY <1>1, <1>2, <2>1 DEF Single, ThreadsOf, Quiet, Building
<1>3. CASE published[ProcOf[th]] = None
  <2>1. pc'[th] = "next" /\ request'[th].using = request[th].using
        /\ (overlapped'[q] <=> \/ overlapped[q]
                               \/ /\ q = ProcOf[th]
                                  /\ \E other \in ThreadsOf(q) : pc[other] \in Building)
    BY <1>3, StepMoves DEF Check, StartupTypeOK, Requests
  <2>2. CASE q = ProcOf[th]
    BY <1>1, <1>3, <2>1, <2>2 DEF Single, ThreadsOf, Quiet
  <2>3. CASE q # ProcOf[th]
    BY <1>1, <2>1, <2>3 DEF Single, ThreadsOf, Quiet
  <2> QED BY <2>2, <2>3
<1> QED BY <1>2, <1>3

\* Without overlap the supervisor that is published is the first of its process.
LEMMA PublishSingle ==
    ASSUME StartupTypeOK, Sound, \A q \in Procs : Single(q), NEW th \in Threads, Publish(th)
    PROVE  \A q \in Procs : Single(q)'
<1> SUFFICES ASSUME NEW q \in Procs, ~ overlapped'[q] PROVE Single(q)'
  BY DEF Single
<1>1. /\ pc[th] = "publish" /\ Quiet(th) /\ pc'[th] = "serve"
      /\ UNCHANGED <<supervisor, overlapped, paused>>
      /\ request'[th].using = th /\ \A o \in Threads \ {th} : request'[o] = request[o]
      /\ published'[ProcOf[th]] = th
      /\ \A p \in Procs \ {ProcOf[th]} : published'[p] = published[p]
  BY StepMoves, Home DEF Publish, StartupTypeOK, Requests
<1>2. CASE q = ProcOf[th]
  <2>1. published[q] = None
    BY <1>1, <1>2 DEF Single, ThreadsOf, Building
  <2>2. paused[q] = {} /\ \A o \in ThreadsOf(q) \ {th} : pc[o] \notin Building
    BY <1>1, <1>2, <2>1 DEF Single, ThreadsOf, Building
  <2>3. \A o \in ThreadsOf(q) \ {th} : request[o].using = None
    BY <2>1 DEF Sound, UsingSound, ThreadsOf
  <2> QED BY <1>1, <1>2, <2>2, <2>3 DEF Single, ThreadsOf, Quiet, Building
<1>3. CASE q # ProcOf[th]
  BY <1>1, <1>3 DEF Single, ThreadsOf, Quiet, Building
<1> QED BY <1>2, <1>3

\* pause_agent sets the flag in the one supervisor, resume_agent clears it.
LEMMA ServeSingle ==
    ASSUME StartupTypeOK, Sound, \A q \in Procs : Single(q), NEW th \in Threads, Serve(th)
    PROVE  \A q \in Procs : Single(q)'
<1> SUFFICES ASSUME NEW q \in Procs, ~ overlapped[q] PROVE Single(q)'
  BY DEF Serve, Single
<1> PICK h \in Threads, a \in Agents : h = request[th].using /\ a = request[th].agent
  BY StepMoves DEF Serve, StartupTypeOK
<1>1. /\ pc[th] = "serve" /\ Quiet(th) /\ pc'[th] = "commit"
      /\ UNCHANGED <<published, request, overlapped>>
      /\ published[ProcOf[th]] # None /\ ProcOf[h] = ProcOf[th]
  BY StepMoves, UsingType DEF Serve, Sound, UsingSound
<1>2. \A o \in Threads \ {h} : supervisor'[o] = supervisor[o]
  BY DEF Serve, StartupTypeOK
<1>3. \A p \in Procs \ {ProcOf[th]} : paused'[p] = paused[p]
  BY DEF Serve, StartupTypeOK
<1>4. CASE q # ProcOf[th]
  <2>1. paused'[q] = paused[q]
        /\ (published[q] # None => supervisor'[published[q]] = supervisor[published[q]])
    BY <1>1, <1>2, <1>3, <1>4, UsingType DEF Sound, PublishedSound
  <2> QED BY <1>1, <1>4, <2>1 DEF Single, ThreadsOf, Quiet, Building
<1>5. CASE q = ProcOf[th]
  <2>1. h = published[q]
    BY <1>1, <1>5, UsingType DEF Single, ThreadsOf
  <2>2. supervisor'[h].standing =
            [supervisor[h].standing EXCEPT
                ![a] = Change(request[th].op, supervisor[h].standing[a])]
    <3> DEFINE c == Change(request[th].op, supervisor[h].standing[a])
    <3>1. supervisor' = [supervisor EXCEPT ![h].standing[a] = c]
      BY DEF Serve
    <3>2. supervisor[h] \in Supervisors
      BY DEF StartupTypeOK
    <3> HIDE DEF c
    <3>3. supervisor'[h].standing = [supervisor[h].standing EXCEPT ![a] = c]
      BY <3>1, <3>2 DEF StartupTypeOK, Supervisors
    <3> QED BY <3>3 DEF c
  <2>3. supervisor[h].standing \in [Agents -> Profile]
    BY DEF StartupTypeOK, Supervisors
  <2>4. \A b \in Agents \ {a} : supervisor'[h].standing[b] = supervisor[h].standing[b]
    BY <2>2, <2>3
  <2>5. supervisor'[h].standing[a] = Change(request[th].op, supervisor[h].standing[a])
        /\ supervisor[h].standing[a] \in Profile
    BY <2>2, <2>3
  <2>6. \A b \in paused'[q] : b \in Agents /\ supervisor'[h].standing[b].paused
    <3>1. \A b \in paused[q] : b \in Agents /\ supervisor[h].standing[b].paused
      BY <1>1, <1>5, <2>1 DEF Single, StartupTypeOK
    <3>2. CASE request[th].op = "pause"
      <4>1. paused'[q] = paused[q] \cup {a}
        BY <1>5, <3>2 DEF Serve, StartupTypeOK
      <4>2. supervisor'[h].standing[a].paused = TRUE
        BY <2>5, <3>2 DEF Change, Profile
      <4> QED BY <2>4, <3>1, <4>1, <4>2
    <3>3. CASE request[th].op = "resume"
      <4>1. paused'[q] = paused[q] \ {a}
        BY <1>5, <3>3 DEF Serve, StartupTypeOK
      <4> QED BY <2>4, <3>1, <4>1
    <3>4. CASE request[th].op \notin {"pause", "resume"}
      <4>1. paused'[q] = paused[q]
        BY <1>5, <3>4 DEF Serve, StartupTypeOK
      <4>2. supervisor'[h].standing[a].paused = supervisor[h].standing[a].paused
        BY <2>5, <3>4 DEF Change, Profile
      <4> QED BY <2>4, <3>1, <4>1, <4>2
    <3> QED BY <3>2, <3>3, <3>4
  <2>7. \A o \in ThreadsOf(q) : pc'[o] \notin Building
    BY <1>1, <1>5 DEF Single, ThreadsOf, Quiet, Building
  <2> QED BY <1>1, <1>5, <2>1, <2>6, <2>7 DEF Single, ThreadsOf
<1> QED BY <1>4, <1>5

\* Every step keeps one supervisor per process, as long as builds do not overlap.
LEMMA SingleNext ==
    StartupTypeOK /\ Sound /\ (\A p \in Procs : Single(p)) /\ [StartupNext]_startupVars
        => (\A p \in Procs : Single(p))'
<1> SUFFICES ASSUME StartupTypeOK, Sound, \A p \in Procs : Single(p),
                    [StartupNext]_startupVars
             PROVE  \A p \in Procs : Single(p)'
  OBVIOUS
<1>1. CASE UNCHANGED startupVars
  BY <1>1 DEF startupVars, Single, ThreadsOf
<1>2. ASSUME NEW th \in Threads, NEW op \in Operations, NEW key \in SentKeys,
             NEW a \in Asked, Receive(th, op, key, a)
      PROVE  \A p \in Procs : Single(p)'
  <2>1. Quiet(th) /\ pc'[th] = "check"
        /\ request'[th].using = None /\ \A o \in Threads \ {th} : request'[o] = request[o]
    BY <1>2 DEF Receive, StartupTypeOK, Quiet
  <2> QED BY <1>2, <2>1, SingleKept DEF Receive, Building
<1>3. ASSUME NEW th \in Threads, NextAgent(th) \/ AllRegistered(th) \/ Save(th)
      PROVE  \A p \in Procs : Single(p)'
  <2>1. Quiet(th) /\ pc[th] \in Building
    BY <1>3, StepMoves DEF NextAgent, AllRegistered, Save, Building
  <2> QED BY <1>3, <2>1, SingleKept DEF NextAgent, AllRegistered, Save
<1>4. ASSUME NEW th \in Threads, Load(th) PROVE \A p \in Procs : Single(p)'
  <2>1. Quiet(th) /\ pc[th] \in Building
        /\ \A h \in Threads \ {th} : supervisor'[h] = supervisor[h]
    BY <1>4, StepMoves DEF Load, Building, StartupTypeOK
  <2> QED BY <1>4, <2>1, SingleKept DEF Load
<1>5. ASSUME NEW th \in Threads, ServeUnknown(th) \/ Commit(th)
      PROVE  \A p \in Procs : Single(p)'
  <2>1. Quiet(th) /\ pc'[th] \notin Building
        /\ request'[th].using = None /\ \A o \in Threads \ {th} : request'[o] = request[o]
    BY <1>5, StepMoves DEF ServeUnknown, Commit, Building, NoRequest, StartupTypeOK
  <2> QED BY <1>5, <2>1, SingleKept DEF ServeUnknown, Commit
<1> QED BY <1>1, <1>2, <1>3, <1>4, <1>5, ProcessSingle, CheckSingle, PublishSingle,
        ServeSingle DEF StartupNext, Go

\* A pause one request of a process acknowledged is seen by every later one,
\* unless two threads of it built a supervisor at the same time.
THEOREM PausesAreSeen == StartupSpec => []PauseIsSeen
<1>1. StartupInit => \A p \in Procs : Single(p)
  BY DEF StartupInit, Single, Building, ThreadsOf
<1>2. StartupTypeOK /\ Sound /\ (\A p \in Procs : Single(p)) => PauseIsSeen
  BY Home, UsingType
     DEF StartupTypeOK, Sound, UsingSound, Single, ThreadsOf, PauseIsSeen
<1> QED BY <1>1, <1>2, AlwaysSound, StartupTypeCorrect, SingleNext, PTL DEF StartupSpec
===============================================================================

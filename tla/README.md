# Agent Ops Manager in TLA+

A model of agent-ops-manager: the supervisor that admits tasks, holds the risky
ones for a human, runs them, scores them, moves the agents' autonomy and writes
every step to a database and an audit log; how a process comes by its
supervisor; the HTTP client one of the agents is; and the scripts that drive it
all. TLC checks small instances; TLAPS proves what does not depend on how many
agents, tasks, threads, processes, tickets and attempts there are.

Line numbers are those of the files under `src/`; `supervisor.py` and the other
core files are in `src/src/core/`.

## The system

| Component | State it keeps | Operations | Interacts with |
| --- | --- | --- | --- |
| Supervisor (`core/supervisor.py`) | `agents`, `workers`, `pending_approvals`, `results` in memory | register, pause, resume, assign, route, approve, reject, execute, feedback | calls everything below, in the caller's thread |
| Policy (`core/policy.py`) | none; writes a profile's level | review every `EVALUATION_WINDOW` tasks | called by `_execute` |
| Feedback (`core/feedback.py`) | none; writes a profile's window | fold a verdict into the window | called by `record_human_feedback` |
| Router (`core/router.py`) | none | most trusted eligible agent | called by `route_task` |
| State store (`core/state_store.py`) | tables `agents`, `pending_tasks`, `task_results` | save, load, delete; one connection and one commit per call | written through by the supervisor, read at start-up |
| Audit log (`core/audit.py`) | table `audit_log`, append-only | log, query; one commit per call | written by supervisor, policy, feedback |
| Models (`core/models.py`) | `AgentProfile`, `Task`, `TaskResult` | current WIP, rolling average | shared by all threads of a process |
| Quality checkers (`core/quality.py`) | none | score an output, or raise | called by `_execute` |
| Workers (`core/worker.py`, `integrations/`) | none that matters here | run a task, or raise | called by `_execute` |
| Bootstrap (`bootstrap.py`) | one supervisor per process | build it, register the roster | called by the API and the dashboard |
| HTTP worker (`integrations/escalation_agent_http_worker.py`) | none; a call has an attempt and a response | `run` (POST /triage), `get_open_ticket_keys` (GET /tickets), the health check; all but the last retry | called by `_execute`, by the script and by bootstrap; talks to the escalation agent |
| REST API (`api/main.py`, `api/auth.py`) | none; two keys in the environment | one handler per operation; a role check before it | `def` handlers, so a threadpool |
| Dashboard (`app/streamlit_app.py`) | none | the same operations from buttons | a second process over the same databases, a thread per session |
| Triage script (`scripts/run_governed_triage.py`) | the listed tickets, in a loop | one task per open ticket; `--auto-approve` approves what is held | a process of its own, over the same databases |
| Demo (`demo/run_demo.py`) | none | promotion, demotion, kill switch, from fixed workers | a process of its own; removes its audit database, keeps its state database |

What is hard about it:

- **Threads.** The handlers are plain functions, run in a threadpool, on one
  supervisor. There is no lock in the program.
- **Processes.** The API and the dashboard each hold a supervisor over the same
  two database files, and each reads the agents and the pending approvals only
  when it starts.
- **Crashes.** An operation is a sequence of commits, to two databases, with
  memory accesses in between. A process can die between any two.
- **Reachability.** One agent is registered only if its service answers when
  the process starts.
- **Failure.** A worker raises (handled) or the quality checker does (not). The
  escalation agent refuses, answers an error, answers late or never, and a call
  is sent again while the first may still be at work.
- **First requests.** The supervisor of a process is built by whichever request
  needs it first, and nothing keeps two from building at once.

## Modules

| Module | What it is |
| --- | --- |
| `Autonomy` | The pure part: gate, window, review, fold of feedback, trust. No variables. |
| `Supervisor` | The state machine: memory of each process, the two databases, one program counter and one set of locals per thread. Extends `Autonomy`. The properties are at its end. |
| `TaskLifecycle` | Abstract: the life of a task as the people around the supervisor are told of it, and what they may rely on. |
| `SupervisorRefinement` | Reads that life off the state of `Supervisor` (`INSTANCE TaskLifecycle WITH ...`). |
| `HttpWorker` | One call of the HTTP client with its retry loop, and the service at the other end. |
| `WorkerContract` | Abstract: what the supervisor needs of a worker. `HttpWorker` instantiates it with the refinement mapping `JobOf`. |
| `GovernedTriage` | The triage script: composes `Supervisor` and `HttpWorker`, and adds the loop over tickets. |
| `Access` | The role of a request, from the two keys of the environment. No variables. |
| `Startup` | `get_supervisor` at the granularity of its commits, with the requests that race to it. Extends `Access`. |
| `Staffing` | Routing over a stream of tasks that never ends. Extends `Autonomy`. |
| `DemoRun` | The demo, run again and again. Extends `Supervisor`. |
| `MCSupervisor`, `MCGovernedTriage`, `MCStartup`, `MCStaffing`, `MCDemoRun` | The values TLC gives the constants. |
| The chain `SupervisorProofs`, `AuditTrailProofs`, `OwnershipProofs`, `SequentialProofs`, `LifecycleProofs`; `HttpWorkerProofs`; `TriageProofs`, which builds on both; `StartupProofs` | The theorems. |

### State of `Supervisor`

| Variable | In the code |
| --- | --- |
| `up`, `registered` | is the process running; the keys of `supervisor.workers` |
| `standing[p][a]` | level, pause flag, window and count of the `AgentProfile` |
| `active[p][a][t]` | how often `t` occurs in `active_task_ids` (a list) |
| `pending[p][t]` | `_pending_agent_for_task[t]`; `None` when the task is not queued |
| `results[p][t]` | `supervisor.results[t]` |
| `dbAgents`, `dbPending`, `dbResults` | the three tables |
| `taskLog[t][e]`, `agentLog[a][e]` | how many rows of kind `e` the audit table has |
| `pc[th]`, `call[th]` | where a thread is in its call, and the locals the rest of it uses |
| `issued`, `gated`, `killed` | history: submitted tasks, held tasks, agents whose pause was answered |

### Actions of `Supervisor`

A step is one stretch of memory accesses with at most one commit. The value of
`pc[th]` names the thread's next step:

| Operation | Steps |
| --- | --- |
| start of a process | `StartProcess` (hydrate, register, save) |
| death of a process | `EndProcess` |
| `pause_agent`, `resume_agent` | `PauseAgent`/`ResumeAgent`, `SnapshotAgent`, `CommitAgent`, `LogSwitch` |
| `assign_task` | `AssignTask`, then `PassGate` into execution, or `HoldAtGate`, `SavePending`, `LogPending`, `RecordResult` |
| `route_task` | `RouteTask`, `AssignRouted`, then as above |
| `approve_task` | `ApproveTask`, `LogApproved`, `StartApproved` into execution |
| `reject_task` | `RejectTask`, `LogRejected`, `RecordResult` |
| `_execute`, worker returned | `WorkerReturns`, `Score` (or `CheckerRaises`), `CutWindow`, `LogEscalated` if the score is low, `LogCompleted`, `Review`, `AdjustAutonomy`, `LogAdjusted` (both if the level moves), `SnapshotAgent`, `CommitAgent`, `RecordResult` |
| `_execute`, worker raised | `WorkerRaises`, `SnapshotAgent`, `CommitAgent`, `LogFailed`, `RecordResult` |
| `record_human_feedback` | `RecordHumanFeedback`, `LogFeedback`, `RecordResult`, `SnapshotAgent`, `CommitAgent` |

Choices worth knowing when reading the model beside the code:

- Another thread runs, or the process dies, between two steps. Where a call
  changes a shared profile, what follows is a step of its own, since a second
  thread may save the profile, or judge by it, in between: the score is appended
  (`Score`) before the window is cut (`CutWindow`), the level is read (`Review`)
  before it is written (`AdjustAutonomy`) and logged after that (`LogAdjusted`),
  a verdict is folded in (`RecordHumanFeedback`) before it is logged
  (`LogFeedback`). Other switches inside a stretch of memory accesses are not
  modelled.
- Still one step: taking a slot and TASK_EXECUTION_STARTED (`Begin`), since
  `active_task_ids` is read for its length only and a WIP check that comes
  between the two sees what it would see after them.
- `SnapshotAgent` and `CommitAgent` split `save_agent` where the code does: the
  parameters of the statement are read from the shared profile before SQLite
  takes its lock. `save_result` writes an object no other step of a task
  changes, so storing it in memory and saving it are one step.
- `pop` and `delete_pending` are one step (`TakePending`). A crash between them
  leaves the row and loses the memory, as if nobody had decided.
- A conditional branch and the commit it leads to are one step where the branch
  only reads: `Admit` is the checks and the event.
- `active_task_ids` is saved by the code and never read back, so the databases
  of the model do not have it. Outputs, reasons, durations and wording are not
  modelled. A task is submitted once (its identifier is a fresh uuid).
- A score is a number of hundredths and averages are compared exactly; the code
  compares floats.
- `Scores` is a set the checker and the human draw from. 20 and 90 stand for the
  scores below and above every threshold; the average of the two lies between.
- Definitions under a comment `Fault:` are not part of the specification. Each
  is the definition that follows it with one plausible mistake, and shows which
  property notices that mistake.

### `HttpWorker` and `GovernedTriage`

| Variable or action | In the code |
| --- | --- |
| `phase`, `target`, `attempt`, `status` | how far `_call_with_retries` is, for which URL, `attempt`, `resp.status_code` |
| `strays` | requests the client gave up at its timeout and the service still has |
| `posts`, `triages` | history: POSTs the service received, triages it did |
| `Send`, `NotConnected`, `Timeout`, `Answer` with `Receive` | `requests.request` and the status check (71-75) |
| `Failed`, `Retry` | the `except` branch and the sleep (76-87) |
| `Read`, `Success` | the status, in `run` and in `get_open_ticket_keys`: `raise_for_status` (110) raises from 400 on, everything below is taken for a triage. That the service answers below 400 only after a triage, and then with the body that is read, is assumed of it |
| `AnswerStray` | the service comes to a request nobody waits for |
| `step`, `todo`, `task`, `mine` | where `main` is; the keys it has yet to come to; the current task; the tasks of this run |
| `BeginScript` to `Leave` | the stretches of `main` between two calls |
| `RunWorker` | `worker.run(task)` inside `_execute`: `HttpWorker` makes the call, `Supervisor` gets what it returned or raised |
| `Supervise` | the rest of `assign_task` and `approve_task`, the steps of `Supervisor` |
| `AgentWorkedBefore` | what other processes may have made of the agent earlier: its level, its pause |

### `Startup` and `Access`

| Variable or action | In the code |
| --- | --- |
| `env` | `AGENT_OPS_ADMIN_KEY`, `AGENT_OPS_REVIEWER_KEY` of the process |
| `published[p]`, `supervisor[th]` | `_supervisor`; the object a thread has built. A thread builds at most once in the life of its process, so objects are named by their builders |
| `dbAgents` | the table of agents: level and pause |
| `request[th].using` | the object the request got from `get_supervisor` |
| `stale`, `overlapped`, `paused` | history: was a row written since it was read; did two builds overlap; whose last switch was a pause |
| `Receive` | the role check, then the handler |
| `Check`, `NextAgent`, `Load`, `Save`, `AllRegistered`, `Publish` | `get_supervisor` and `register_agent`: the look at `_supervisor`, the health check, the read, the commit, the assignment |
| `Serve`, `Commit`, `ServeUnknown` | the operation on the supervisor the request got, its commit, `UnknownAgentError` |

`register_agent` logs AGENT_REGISTERED after its commit; that event tells no
property anything and is not a step. An operation is a change of memory and one
commit: how it is interleaved in detail is the business of `Supervisor`. The
request called "approve" stands for a call whose task earns a promotion.

### `Staffing` and `DemoRun`

`Staffing` keeps an agent's window, count (up to `MinTrackRecord`, beyond which
trust does not look) and work in progress, and nothing else: choices and results
alternate for ever. `DemoRun` drives the actions of `Supervisor` in the order of
`main`; all outputs of the reliable worker score 90 and the five of the
unreliable one, whose generator is seeded with 42, score 20.

## What is checked

### Runs that pass

| Run | Instance | Properties |
| --- | --- | --- |
| `sequential` | `Supervisor`: 1 process, 1 thread, 2 tasks, every operation but routing, crashes anywhere, a checker that raises | `TypeOK`; `WrittenThrough`: at rest, memory is what a restart would read; `KillSwitchHolds`: an answered pause lasts until a resume; `PausedNeedsApproval`: all a paused agent starts is what a human approved; `DecidedOnce`; `OutcomeFinal`: no crash, restart or verdict changes an outcome; `LevelBacked`: no durable level without the events for it; `WindowBounded`: the window outgrows its length by verdicts only; `LifecycleRefined`: `TaskLifecycle` is implemented |
| `roster` | `Supervisor`: 1 process, 1 thread, 2 agents of which one may be missing, 4 tasks, restarts | `RoutedIsAdmitted`: `assign_task` never refuses what the router picked; `ReviewCadence`: the durable level moves one rung, with the count that closes a cycle; `LevelExplained`: level = first level + promotions - demotions |
| `threads` | `Supervisor`: 2 fairly scheduled threads of 1 process, 3 tasks, assignments and decisions, nothing dies | `OneOwner`: two threads never work on one task; `SlotsExact`: `active_task_ids` is exactly the running tasks; `SignOffCovers`; `AdjustmentsPerCycle`: no thread moves an agent twice in a cycle, nobody before a cycle closes; `StartedReachesOutcome`: a started task is completed or failed in the trail; `SlotReleased` |
| `processes` | `Supervisor`: 2 processes with 1 thread each, 2 tasks, crashes anywhere | `SignOffCovers`: a held task starts at most as often as it was approved; `OutcomeAudited`: no result without the event that explains it |
| `triage` | `GovernedTriage`: 2 runs with or without `--auto-approve`, 3 tasks for 2 tickets, 2 attempts, any service | `HttpTypeOK`: with it, that the retry loop never runs out; `KeepsContract`: `WorkerContract` is implemented; `PostsAreCovered`: no ticket is posted before its sign-off, nor more often than attempts allow; `CompletedWasTriaged`: no completed task without a triage; `NothingForgotten`: "done" means every task has a result, or is held and queued; `ScriptEnds` |
| `startup` | `Startup`: an API process with 2 threads, an agent and an optional one, 4 sets of keys, deaths anywhere | `StartupTypeOK`; `CompleteWhenUsed`: no request is served by half a roster; `PauseIsSeen`: by later requests, unless two builds overlapped; `RegistrationKeepsEarned`: registration changes no row but one written since it was read; `AdminOnly`; `RequestServed` |

`WrittenThrough`, `KillSwitchHolds`, `PausedNeedsApproval`, `DecidedOnce`,
`OutcomeFinal`, `LifecycleRefined`, `ReviewCadence`, `LevelExplained` and
`RoutedIsAdmitted` hold for one thread. That is not a bound chosen for
convenience: with two, in one process or in two, each of them fails (see the
assumptions of the theorems below). `LevelBacked` and `WindowBounded` hold for
any number of processes with one thread each, and fail with two threads in one.
`AdjustmentsPerCycle` is what is left of "one look per cycle"
(`policy.py:18-19`) when threads finish together. `LevelExplained` allows a process
to stop between calls only, since a crash between the event PROMOTED and the
save of the profile breaks it; what survives such a crash is `LevelBacked`.

### Runs that find a disagreement

| Run | What happens | What the repository says |
| --- | --- | --- |
| `wip_check` | two threads pass the WIP check before either takes a slot | `README.md:7`, `app/streamlit_app.py:57`: work is capped |
| `pause_overwritten` | a profile read before a pause is committed after it; on disk the agent is not paused | `tests/test_persistence_and_auth.py:47`: "kill switch survived" |
| `decided_twice` | two processes approve the same task, which executes twice | `supervisor.py:49-50`: approvals "are shared across processes" |
| `agent_missing` | approved in a process without the agent, the task is gone | `supervisor.py:49-50`: approvals "survive process restarts" |
| `starved` | an incumbent above the prior, with a slot to spare, gets every task | `router.py:9-12`, `README.md:82`: new agents are not starved of work |
| `demo_twice` | the second run finds the levels of the first; its first approval raises | `README.md:105`, `run_demo.py:2`: the whole system in one run |

More divergences that need no run to see, or that the passing runs mark by
holding for one thread only:

- A held task of a paused agent still starts when it is approved
  (`supervisor.py:183`, against `DECISIONS.md:59`, "stop all future work
  immediately"; the docstring at 79 promises no new *assignment*, which holds).
- Two threads that finish together review the same count and each move the
  level (`policy.py:21`, against `policy.py:18-19`); `AdjustmentsPerCycle` says
  that it gets no worse.
- The level is moved in the shared profile before the move is logged
  (`policy.py:29-46`), a verdict is folded in before it is
  (`feedback.py:52-54`), and a score is appended before the window is cut
  (`supervisor.py:220-222`). A second thread that saves the profile in between
  makes it durable: after a crash, a level or a window that no event explains.
- An approval can overtake the rest of the call that held the task, whose
  PENDING_APPROVAL is then saved over the outcome (`supervisor.py:169-170`,
  against `state_store.py:19-21`).
- Two first requests build two supervisors, and the second to finish replaces
  the first (`bootstrap.py:28`, against `bootstrap.py:2`, "a single shared
  Supervisor instance").
- Running the triage script again with `--auto-approve` approves nothing that an
  earlier run left held: it makes new tasks (`run_governed_triage.py:66-75`,
  against its own advice at 77-78).
- `EscalationServiceUnavailable` is raised after a refused last attempt even if
  earlier ones were answered with a transient status
  (`escalation_agent_http_worker.py:79`, against 45-46, "can't be reached at
  all").
- A low score below level 2 is not escalated (`supervisor.py:226`, against
  `README.md:64-66`); a task out of an agent's scope, or one that no agent can
  take, is refused without an event (`supervisor.py:148`, `router.py:45`,
  against `README.md:7`); and the window is longer than the last N scores after
  feedback on a score that left it (`feedback.py:52`, against `models.py:84`).

### Bounds

| Bound | Value | Why it is enough |
| --- | --- | --- |
| tasks | 2; 3 in `threads` and `triage`, 4 in `roster` | two compete for one slot, one decision or one review; a third comes after the cycle two threads have closed together; four let a routed agent close a cycle while another task is held or refused; three give a ticket a second task in the second run of the script |
| threads, processes | 2 | each race above is between two |
| agents | 1; 2 in `roster` and `startup` | agents share nothing but the databases; two for routing and for the optional one |
| `EvaluationWindow` | 2, in `sequential` 1 (5 in the code and in `demo_twice`) | a window that must be cut, and counts that do and do not close a cycle; with 1 every task does, so that two tasks reach every adjustment and a crash in each |
| `WipLimit` | 1 (2 or 3 in the code) | the limit is reached by a second task |
| `MaxFeedback` | 1 verdict per task in `sequential`, else none | a verdict on a score in the window, out of it, and on a result without one |
| `Scores` | {20, 90} | one score demotes and escalates, the other promotes, the average does neither; {90} in `triage`, which is not about scores, and in `threads`, where every closed cycle then moves the level |
| `MaxAttempts`, `StatusCodes` | 2 (3 in the code), {200, 202, 503} | an attempt that is and one that is not the last; the usual success, another one, and a transient error, which is also an error status when it is returned by the last attempt |
| `MaxRuns` | 2 runs of the script | held tasks and given-up requests of one run meet the next |
| `MaxLevel`, `Asked` | 1; the optional agent | one promotion that a start-up could lose; requests about the agent that may be missing meet every case |
| `Environments` | 4 | two keys, an empty one, one key for both roles, none |
| `Requests`, `Faults` | per run | the operations and failures the run is about |

`TaskSymmetry` permutes the tasks of `roster` that are alike; the run checks
invariants and one action property, which do not tell them apart. Deadlock is
checked where a process can always stop and start. In the other runs the system
is done once every task is submitted, or every run of a script is over.

### Fairness

`FairSpec` assumes weak fairness of each thread's `Proceed`: a call in progress
moves on. The interpreter schedules all threads, SQLite waits for a lock with a
timeout, and a worker returns or raises. Nobody has to make a request, so
nothing is claimed about a task that waits for a human. The `threads` run has no
failing checker: when `quality_checker.score` raises, the task ends without an
outcome, and the model says so.

That the HTTP worker returns or raises is not assumed but checked
(`KeepsContract`), from weak fairness of the client's own steps, `Timeout` among
them: `requests.request` has a timeout (`escalation_agent_http_worker.py:72`) and
there are finitely many attempts. The timeout of `requests` limits the wait for
each read, so a service that trickles its answer byte by byte could hold the
client longer; that is not modelled. `TriageSpec` assumes the same of the one
thread of the script, and nothing of the service. `FairStartup` assumes it of
each thread of a server; its health check has a timeout of five seconds.
`StaffingSpec` assumes that tasks keep arriving and that each agent finishes
what it was given, without which nobody would be starved of anything.

## What is proved

For every roster, set of tasks, assignment of threads to processes, choice of
requests and faults, set of tickets and statuses, number of attempts and set of
environments, from the assumptions on constants that each module states:

| Theorem | Statement |
| --- | --- |
| `SupervisorProofs!TypeCorrect` | `Spec => []TypeOK` |
| `AuditTrailProofs!OutcomesAreAudited` | `Spec => []OutcomeAudited` |
| `OwnershipProofs!OneOwnerEach`, `SlotsAreExact` | `Spec => []OneOwner`, `Spec => []SlotsExact` |
| `OwnershipProofs!SignOffIsCovered` | `Spec => []SignOffCovers` |
| `HttpWorkerProofs!HttpTypeCorrect` | `HttpSpec => []HttpTypeOK` |
| `HttpWorkerProofs!ReturnsOrRaisesOnce` | `HttpSpec => Contract!Init /\ [][Contract!Next]_(JobOf[phase])` |
| `TriageProofs!NothingIsForgotten`, `PostsCovered`, `CompletionsEarned` | `TriageSpec => []NothingForgotten`, `[]PostsAreCovered`, `[]CompletedWasTriaged` |
| `TriageProofs!ScriptKeepsContract` | `TriageSpec => Contract!Init /\ [][Contract!Next]_(JobOf[phase])` |
| `StartupProofs!StartupTypeCorrect`, `AdminsOnly`, `RosterComplete`, `PausesAreSeen` | `StartupSpec => []StartupTypeOK`, `[]AdminOnly`, `[]CompleteWhenUsed`, `[]PauseIsSeen` |
| `StartupProofs!EarnedIsKept` | `StartupSpec => RegistrationKeepsEarned` |
| `SupervisorProofs!LatestScoresBound`, `ApplyFeedbackType` | the window after a task and after a verdict |

For any number of processes over one database, if each has one thread
(`OneThreadEach`), wherever they die:

| Theorem | Statement |
| --- | --- |
| `AuditTrailProofs!LevelsAreBacked`, `WindowsAreBounded` | `Spec => []LevelBacked`, `Spec => []WindowBounded` |

And for one process with one thread (`Alone(th)`), for every roster, set of
tasks, choice of requests and faults, crashes included unless the last column
says otherwise:

| Theorem | Statement | Also assumed |
| --- | --- | --- |
| `SequentialProofs!RestartChangesNothing` | `Spec => []WrittenThrough` | |
| `SequentialProofs!PausesStay` | `Spec => []KillSwitchHolds` | |
| `SequentialProofs!PausedAgentsWait` | `Spec => PausedNeedsApproval` | |
| `SequentialProofs!OneDecision`, `OutcomesAreFinal` | `Spec => []DecidedOnce`, `Spec => OutcomeFinal` | |
| `SequentialProofs!RoutedIsTaken` | `Spec => []RoutedIsAdmitted` | |
| `SequentialProofs!ReviewsKeepCadence` | `Spec => ReviewCadence` | |
| `SequentialProofs!LevelsAreExplained`, `OneMovePerCycle` | `Spec => []LevelExplained`, `Spec => []AdjustmentsPerCycle` | a process only stops between calls |
| `LifecycleProofs!LifecycleImplemented` | `Spec => LifecycleRefined` | no agent is unreachable |

None of these assumptions is there for the prover's sake; each is one the
property needs. With two threads in one process, TLC refutes every property of
the last table but `DecidedOnce`, which it refutes with two processes
(`decided_twice`), and `AdjustmentsPerCycle`: two threads save one profile
(`pause_overwritten`), decide on a task that is still being held, or review one
count, which breaks `ReviewCadence` and `LevelExplained`. It refutes
`LevelBacked` and `WindowBounded` too once a process has two threads. A crash
between the event of a move and the save of the profile breaks `LevelExplained`
and `AdjustmentsPerCycle`. And where an agent may be missing, an approval can lose the task (`agent_missing`), which
`TaskLifecycle` forbids.

The theorems about `TriageSpec` rest on `TriageAssumption`: the script is one
process with one thread, since `main` starts no other; its checker raises
nothing, as the default `HeuristicQualityChecker` (`supervisor.py:44`) does not;
and there are finitely many tasks, whose identifiers have eight digits. Nothing
is assumed of the service, nor of the agent's level and pause when the script
begins.

How the proofs go:

- `TypeOK` is inductive because of `LocalsFit`: it says, for each step, which
  locals the rest of the call relies on (the agent, the task, the status an
  event needs, the snapshot a commit needs, the level an adjustment may leave).
  Without it no action could be shown to write values of the right type. There
  is one lemma per operation.
- `OutcomeAudited` needs `AuditAhead`: not only a recorded result but also the
  result a thread is about to record has its event. `LogGrows` says that events
  are never taken back; it is what makes a crash harmless.
- `OneOwner` is not inductive. `Ownership` adds that an unsubmitted task is
  unknown to everybody, that a task before the gate belongs to its thread, and
  that a task some thread works on is off the queue of its process, so that
  nobody else of that process can take it.
- `SlotsExact` follows with `Ownership`: a worker that starts is the only one on
  its task, and so is one that ends.
- `SignOffCovers` needs `Covered`: started executions *and* the calls between an
  approval and a start number at most the approvals. It counts threads, hence
  the assumption that there are finitely many.
- `LevelBacked` speaks of the database, but what is saved there comes from the
  memory of some process, by way of a snapshot. `LevelsBacked` says that all of
  these are backed, with one exception: between `AdjustAutonomy` and
  `LogAdjusted` the level in memory is the move of a backed one (`MovedLevel`),
  and whoever saves this profile would save that. The only thread that could is
  the one that is about to log the move, which is why each process must have one
  (`OwnLevelsBacked`). The event backs the level (`LogAdjustedBacked`), and a
  crash before it loses both. A backed level stays so since events are never
  taken back (`BackedStays`), wherever it lies and however stale it is, so any
  number of processes may overwrite one another's rows.
- `WindowBounded` speaks of a profile in memory and of copies of it under way to
  the database. Every window that exists anywhere has `Room`: it is no longer
  than a cycle and the verdicts recorded so far, and one score more while its
  process is between an append and the cut, or between a verdict and its event
  (`Longer`). Nobody saves it there, if the process has no other thread. Verdicts
  are never taken back, so a copy, however old, stays within its bound. That
  each event adds one to the set `Verdicts` is a lemma on finite sets
  (`VerdictsGrow`).
- `WrittenThrough` holds only at rest. `InSync` is what holds in between: of the
  one process, memory and database agree but for the agent, the task or the
  result its thread is at, and for these it says which of the two is ahead at
  which step. A crash leaves the thread at rest and memory empty, so that
  nothing remains to agree.
- `KillSwitchHolds` follows from `SwitchedOff`: an agent whose pause was answered
  is paused on disk and, while the process has it, in memory. By `InSync` no
  snapshot under way says otherwise, which is what a second thread would break.
- `DecidedOnce` follows from `Decided`: nobody has decided on a task that is
  new, queued (in memory or on disk), or on its way to the gate or to the event
  of a decision. Hence also `OutcomeFinal`: by `Outstanding`, a task that may
  still get an outcome (`Open`) has none but PENDING_APPROVAL, and a verdict
  saves again the status that is there. `StaysClosed` says that no task becomes
  open again, neither by a crash nor by a restart.
- `RoutedIsAdmitted` needs `Admitted`: what a call has checked on its way to an
  execution (a slot, no pause, an approval) still holds at the step that relies
  on it. It rests on `SlotsExact`. `PausedNeedsApproval` follows from the same.
- `ReviewCadence` needs `Cadence`, which ties the locals of the thread to count
  and level of the profile in memory and on disk: how far the call in progress
  has moved the two and whether it still may. `Accounted` does the same for the
  events PROMOTED and DEMOTED, and gives `LevelExplained` and,
  with one thread, `AdjustmentsPerCycle`.
- `LifecycleRefined` needs, beside `InSync`, `Decided` and `Outstanding`, that
  the stage read off the trail and the queue is the one the locals of the thread
  say (`Followed`), and that a running process has every agent (`Staffed`).
  `MilestoneLogged` and `QueueMoves` say what a step does to what `StageOf`
  looks at; from them come the stage of the task at hand after each step, and
  that the others stay where they are (`ProceedStage`, `ProceedOthers`). A crash
  drops the task at hand, unless it waits, was rejected or has ended: then the
  queue or the trail still says so, and its stage stays (`ProcessStage`).
- `HttpTypeOK` is inductive as it stands: its last conjuncts say that a pause is
  followed by another attempt, which is what the line after the loop needs. Each
  step then is one of the contract's, or leaves `JobOf[phase]` alone.
- `CompleteWhenUsed` and `RegistrationKeepsEarned` follow from `Sound`: what is
  published, or used by a request, was built to the end by a thread of the same
  process; a build has every agent it needs but those it has yet to come to; and
  what it is about to write back is what it read, or the row is marked as
  written since. `PauseIsSeen` needs `Single` on top: a process whose builds did
  not overlap has one supervisor, and every pause it acknowledged is in it.

- The properties of `GovernedTriage` rest on `Place`: where the script is, what
  its one thread is at and what the client asks for fit together, so that each
  step of the composition is one of `Supervisor` and one of `HttpWorker`, or
  none (`TriageStep`, `TriageHttpStep`, `ScriptMoves`), and the lemmas about
  both apply. `NothingForgotten` needs `Followup`: behind the script everything
  is settled, and a task it finds held is in the queue `approve_task` takes it
  from.
- `PostsAreCovered` and `CompletedWasTriaged` are accounts. A task that begins
  to run pays `MaxAttempts` POSTs, and `Paid` says that those made and those the
  loop may still make (`Left`) are paid for; that no task pays twice, and none
  that is held and not approved, is `Unbegun`. `Earned` counts the success the
  client was told of, or the supervisor has yet to log, as a completion: it
  begins with a triage the service did in the same step (`TriagesCounted`), and
  no answer to a request given up makes one.

Left to TLC: liveness (`StartedReachesOutcome`, `SlotReleased`, `ScriptEnds`,
`RequestServed`, and the liveness half of `KeepsContract`), since the prover has
neither fairness nor `ENABLED`; and `AdjustmentsPerCycle` for more than one
thread. Every other safety property that a passing run checks is proved.

## Not modelled

- A database that fails ("database is locked", disk full): every commit of the
  model succeeds. The hazards list where an exception would leak a slot.
- Read-only requests: `list_agents`, `agent_audit`, `list_escalations` and
  `AuditLog.query`. They change nothing; the exception that `list_escalations`,
  or a page of the dashboard, may raise while another thread decides is a hazard
  of the list without a property. Response models, status codes, rendering.
- A dashboard page that is older than what it shows: a click runs the script
  again from the top, on the current state, so it is one of the requests of
  `Supervisor`, or nothing.
- Start-up of two processes at once over one database: `Startup` allows any
  number and its theorems cover it, the run has one.
- The text of outputs and how the heuristic checker reads it; the LLM judge; the
  delays between attempts.
- Collisions of the 8-digit task identifiers, and floating-point rounding.

## Plan

In order of importance; the first item of each list comes first.

Prove:
1. What `SequentialProofs` shows of a supervisor alone (`WrittenThrough`,
   `DecidedOnce`, `OutcomeFinal`), for the supervisor of the script: each of its
   steps is one of `Supervisor`, but for `AgentWorkedBefore`.
2. That what each new action of the model below does keeps the inductive
   invariants.

Model:
1. A failing commit, as a fault of its own in `Supervisor`.
2. The queue of approvals at the granularity of its dictionary accesses, with
   `list_escalations` and the page of the dashboard as its readers.

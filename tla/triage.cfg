\* Two runs of the triage script against a service that may fail in any way.
SPECIFICATION TriageSpec
\* After the last run there is nothing left to do.
CHECK_DEADLOCK FALSE
CONSTANTS
    p1 = p1  th1 = th1  a1 = a1  t1 = t1  t2 = t2  t3 = t3  k1 = k1  k2 = k2
    None = None
    Procs = {p1}
    Threads = {th1}
    ProcOf <- OneThread
    Agents = {a1}
    OptionalAgents = {a1}
    Position <- MCPosition
    InitialLevel <- RiskGated
    WipLimit <- TwoSlots
    AllowedTypes <- TriageType
    Tasks = {t1, t2, t3}
    TypeOf <- AllTriage
    RiskOf <- TicketRisk
    Scores = {90}
    Requests = {"assign", "approve"}
    Faults = {"stop", "unreachable"}
    MaxFeedback = 0
    EvaluationWindow = 2
    Script = p1
    ScriptThread = th1
    TriageAgent = a1
    Tickets = {k1, k2}
    TicketOf <- TicketOfTask
    PriorityOf <- CriticalAndUnknown
    MaxRuns = 2
    MaxAttempts = 2
    StatusCodes = {200, 202, 503}
INVARIANTS
    HttpTypeOK
    PostsAreCovered
    CompletedWasTriaged
    NothingForgotten
PROPERTIES
    ScriptEnds
    KeepsContract

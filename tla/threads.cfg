\* Two threads of one process, scheduled fairly; nothing dies.
SPECIFICATION FairSpec
\* Once every task is submitted and every call has returned, nothing is left to do.
CHECK_DEADLOCK FALSE
CONSTANTS
    p1 = p1  p2 = p2  th1 = th1  th2 = th2
    a1 = a1  a2 = a2  t1 = t1  t2 = t2  t3 = t3  t4 = t4
    None = None
    Procs = {p1}
    Threads = {th1, th2}
    ProcOf <- TwoThreads
    Agents = {a1}
    OptionalAgents = {}
    Position <- MCPosition
    InitialLevel <- RiskGated
    WipLimit <- OneSlot
    AllowedTypes <- OneType
    Tasks = {t1, t2, t3}
    TypeOf <- AllDemo
    RiskOf <- OneHighRisk
    Scores = {90}
    Requests = {"assign", "approve", "reject"}
    Faults = {}
    MaxFeedback = 0
    EvaluationWindow = 2
INVARIANTS
    OneOwner
    SlotsExact
    SignOffCovers
    AdjustmentsPerCycle
PROPERTIES
    StartedReachesOutcome
    SlotReleased

\* One process with one thread; it may die at any step and start again.
SPECIFICATION Spec
CONSTANTS
    p1 = p1  p2 = p2  th1 = th1  th2 = th2
    a1 = a1  a2 = a2  t1 = t1  t2 = t2  t3 = t3  t4 = t4
    None = None
    Procs = {p1}
    Threads = {th1}
    ProcOf <- OneThread
    Agents = {a1}
    OptionalAgents = {}
    Position <- MCPosition
    InitialLevel <- RiskGated
    WipLimit <- OneSlot
    AllowedTypes <- OneType
    Tasks = {t1, t2}
    TypeOf <- AllDemo
    RiskOf <- OneHighRisk
    Scores = {20, 90}
    Requests = {"assign", "approve", "reject", "pause", "resume", "feedback"}
    Faults = {"crash", "checker"}
    MaxFeedback = 1
    EvaluationWindow = 1
INVARIANTS
    TypeOK
    WrittenThrough
    KillSwitchHolds
    DecidedOnce
    LevelBacked
    WindowBounded
PROPERTIES
    OutcomeFinal
    LifecycleRefined
    PausedNeedsApproval

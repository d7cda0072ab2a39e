\* Two processes hold the same pending approval.
SPECIFICATION Spec
CONSTANTS
    p1 = p1  p2 = p2  th1 = th1  th2 = th2
    a1 = a1  a2 = a2  t1 = t1  t2 = t2  t3 = t3  t4 = t4
    None = None
    Procs = {p1, p2}
    Threads = {th1, th2}
    ProcOf <- TwoProcesses
    Agents = {a1}
    OptionalAgents = {}
    Position <- MCPosition
    InitialLevel <- AllGated
    WipLimit <- OneSlot
    AllowedTypes <- OneType
    Tasks = {t1, t2}
    TypeOf <- AllDemo
    RiskOf <- MediumRisk
    Scores = {20, 90}
    Requests = {"assign", "approve"}
    Faults = {"stop"}
    MaxFeedback = 0
    EvaluationWindow = 2
INVARIANTS
    DecidedOnce

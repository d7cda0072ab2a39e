\* Two agents, one of them optional; tasks are assigned by name and routed.
SPECIFICATION Spec
CONSTANTS
    p1 = p1  p2 = p2  th1 = th1  th2 = th2
    a1 = a1  a2 = a2  t1 = t1  t2 = t2  t3 = t3  t4 = t4
    None = None
    Procs = {p1}
    Threads = {th1}
    ProcOf <- OneThread
    Agents = {a1, a2}
    OptionalAgents = {a2}
    Position <- MCPosition
    InitialLevel <- GatedAndFree
    WipLimit <- OneSlot
    AllowedTypes <- OneType
    Tasks = {t1, t2, t3, t4}
    TypeOf <- OneForeign
    RiskOf <- MediumRisk
    Scores = {20, 90}
    Requests = {"assign", "route", "approve", "pause"}
    Faults = {"stop", "unreachable"}
    MaxFeedback = 0
    EvaluationWindow = 2
SYMMETRY TaskSymmetry
INVARIANTS
    RoutedIsAdmitted
    LevelExplained
PROPERTIES
    ReviewCadence

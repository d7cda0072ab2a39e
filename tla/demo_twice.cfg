\* The demo is run twice.
SPECIFICATION DemoSpec
CHECK_DEADLOCK FALSE
CONSTANTS
    p1 = p1  th1 = th1  a1 = a1  a2 = a2
    None = None
    Procs = {p1}
    Threads = {th1}
    ProcOf <- OneThread
    Agents = {a1, a2}
    OptionalAgents = {}
    Position <- MCPosition
    InitialLevel <- MCInitialLevel
    WipLimit <- ThreeSlots
    AllowedTypes <- OneType
    Tasks <- TwoRuns
    TypeOf <- AllDemo
    RiskOf <- MediumRisk
    Scores = {20, 90}
    Requests = {"assign", "approve", "pause"}
    Faults = {"stop"}
    MaxFeedback = 0
    EvaluationWindow = 5
    Demo = p1
    Main = th1
    Reliable = a1
    Unreliable = a2
    PerAgent = 5
    ScoreOf <- MCScoreOf
INVARIANT
    DemoReachesItsEnd

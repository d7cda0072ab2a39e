\* Two agents of the same roster, a stream of tasks.
SPECIFICATION StaffingSpec
CONSTANTS
    a1 = a1  a2 = a2
    Agents = {a1, a2}
    Position <- MCPosition
    WipLimit <- TwoSlots
    ScoresOf <- GoodWork
    EvaluationWindow = 5
PROPERTY
    NewAgentsGetWork

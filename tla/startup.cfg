\* First requests race to build the supervisor in a process that may die.
SPECIFICATION FairStartup
CONSTANTS
    p1 = p1  th1 = th1  th2 = th2
    a1 = a1  a2 = a2  k1 = k1  k2 = k2
    None = None
    Keys = {k1, k2}
    Unset = Unset
    Empty = Empty
    Procs = {p1}
    Threads = {th1, th2}
    ProcOf <- OneApi
    Api = {p1}
    Agents = {a1, a2}
    OptionalAgents = {a2}
    Environments <- MCEnvironments
    MaxLevel = 1
    Asked = {a2}
INVARIANTS
    StartupTypeOK
    CompleteWhenUsed
    PauseIsSeen
    AdminOnly
PROPERTIES
    RegistrationKeepsEarned
    RequestServed

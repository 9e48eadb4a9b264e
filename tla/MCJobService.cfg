\* Pods that share one Redis are closed, killed, started again and lose Redis,
\* while a caller stops jobs; the bounds are in PassDeployments.
CONSTANTS
    p1 = p1
    p2 = p2
    c = c
    k = k
    Pods = {p1, p2}
    AllTasks = {c, k}
    Deployments <- PassDeployments
SPECIFICATION FairSpec
INVARIANTS
    TypeOK
    NoInheritedStop
PROPERTIES
    FlaggedConsumersStop
    StatusConverges
    DeadPodForgotten
\* Every pod may be gone for good.
CHECK_DEADLOCK FALSE

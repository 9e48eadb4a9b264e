\* A pod that is closed by a signal while its status ticker still runs.
CONSTANTS
    p1 = p1
    p2 = p2
    c = c
    k = k
    Pods = {p1, p2}
    AllTasks = {c, k}
    Deployments <- CloseDeployments
SPECIFICATION FairSpec
PROPERTIES
    ClosedPodCleared
\* Every pod may be gone for good.
CHECK_DEADLOCK FALSE

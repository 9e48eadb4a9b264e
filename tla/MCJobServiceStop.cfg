\* A crontab that is idle when its stop flag is first seen.
CONSTANTS
    p1 = p1
    p2 = p2
    c = c
    k = k
    Pods = {p1, p2}
    AllTasks = {c, k}
    Deployments <- StopDeployments
SPECIFICATION FairSpec
PROPERTIES
    StopJobStops
\* Every pod may be gone for good.
CHECK_DEADLOCK FALSE

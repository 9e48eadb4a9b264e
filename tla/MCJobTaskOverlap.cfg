\* Two Run goroutines between the test of RunStatus and its assignment.
CONSTANTS
    threadNum = 1
    RunIds = {r1, r2}
    SignIds = {s1}
SPECIFICATION Spec
INVARIANTS
    AtMostOneRun

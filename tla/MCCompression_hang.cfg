\* One job; the queue may cancel it or drop its future at any time.
CONSTANTS
    j1 = j1  j2 = j2
    Jobs <- OneJob
    NumInputs = 2
SPECIFICATION Spec
PROPERTY WorkerFinishes
CHECK_DEADLOCK FALSE

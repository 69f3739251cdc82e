SPECIFICATION Spec
CONSTANTS
    w1 = w1
    w2 = w2
    Workers <- TwoWorkers
    MaxUpgrades = 3
    None = None
INVARIANTS
    BinaryKept
    SuccessRunnable
    OneWorker
PROPERTIES
    WorkerReplaced

SPECIFICATION Spec
CONSTANTS
    w1 = w1
    w2 = w2
    NoWorker = NoWorker
    Deliveries = {1, 2}
    Workers = {w1, w2}
    Mode = "mq"
    MaxAttempts = 2
    BatchSize = 2
    Unsupported = {2}
    Faults = {"crash", "db", "lost", "lock"}
    MaxFaults = 2
INVARIANTS
    TypeOK
    OneOwner
    AttemptBudget
PROPERTIES
    SettledForGood
    NoHandlingAfterSettled
SYMMETRY Symmetry

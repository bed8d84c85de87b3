SPECIFICATION FairSpec
CONSTANTS
    w1 = w1
    w2 = w2
    NoWorker = NoWorker
    Deliveries = {1, 2}
    Workers = {w1, w2}
    Mode = "db"
    MaxAttempts = 2
    BatchSize = 1
    Unsupported = {2}
    Faults = {}
    MaxFaults = 0
PROPERTY EventuallySettled

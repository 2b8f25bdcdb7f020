SPECIFICATION FairSpec
CONSTANTS
    Sockets = {s1, s2, s3}
    Retries = {r1, r2}
    None = None
    MaxFaults = 2
INVARIANTS NobodyForgets StopIsClean
PROPERTIES Repaired
CONSTRAINT
    Untangled
CHECK_DEADLOCK FALSE

SPECIFICATION FairSpec
CONSTANTS
    Calls = {c1, c2, c3, c4}
    FailureThreshold = 2
    RecoveryTimeout = 3
INVARIANTS FieldsAgree
PROPERTIES Heals

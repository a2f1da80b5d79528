SPECIFICATION Spec
CONSTANTS
    MaxBytes = 3
    Deadline = 3
    MaxSent = 5
    MaxInterrupts = 2
INVARIANTS TypeOK HoldIsBounded AcceptedIsComplete RefusalIsJustified
PROPERTY Returns
\* The call ends.
CHECK_DEADLOCK FALSE

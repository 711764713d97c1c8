SPECIFICATION Spec
CONSTANTS
    External = {e1, e2}
    Versions = {2, 4}
    Faults <- AllFaults
INVARIANTS Arbitrated UpWhilePowered
PROPERTY CountEnds

SPECIFICATION Spec
CONSTANTS
    NIrq = 2
    Fault <- MCFault
    MaxFaults = 1
    MaxLends = 3
INVARIANTS TouchesOwn BooksMatch NotStuck
CHECK_DEADLOCK FALSE

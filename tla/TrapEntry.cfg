CONSTANTS
    Tasks = {A, B, C}
    FpTasks = {A, B}
    First = A
SPECIFICATION Spec
INVARIANTS ContextSound ReturnsToTask LastWritten LockBalanced
CHECK_DEADLOCK FALSE

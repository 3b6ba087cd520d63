\* A pool of two io_contexts, called twice by the acceptor thread and twice
\* by the logic thread.  The run ends when the calls are used up.
CONSTANTS
    Size = 2
    Callers = {acceptor, logic}
    MaxCalls = 2
SPECIFICATION Spec
INVARIANT IndexInRange
CHECK_DEADLOCK FALSE

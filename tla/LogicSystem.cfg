\* Two producer threads with two pushes each against the logic thread and
\* its destructor.  The logic thread idles in consume_.wait once the bounded
\* producers are done, so quiescent states are real: no deadlock check.
CONSTANTS
    Producers = {p1, p2}
    MaxPush = 2
    None = None
SPECIFICATION Spec
PROPERTY Delivery
CHECK_DEADLOCK FALSE

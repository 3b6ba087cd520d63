\* Does ~LogicSystem always return?  One producer push is enough context.
CONSTANTS
    Producers = {p1}
    MaxPush = 1
    None = None
SPECIFICATION Spec
PROPERTY ShutdownCompletes
CHECK_DEADLOCK FALSE

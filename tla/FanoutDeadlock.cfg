\* Two TCP players: the second one's DESCRIBE meets the fan-out to the first.
CONSTANTS
    None = None
    c1 = c1
    c2 = c2
    Conns = {c1, c2}
    Script <- ScriptTcp
    FramePkts = 2
    MaxFrames = 2
    SeqStarts = {65535}
    UdpOutcomes = {TRUE}
    SpecWrites = {TRUE}
    WriteOutcomes = {TRUE}
    Closes = {FALSE}
SPECIFICATION Spec
PROPERTY FanoutCompletes
CHECK_DEADLOCK FALSE

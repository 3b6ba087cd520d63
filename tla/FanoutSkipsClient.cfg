\* Two UDP players: a newly described client sits at the front of the round.
CONSTANTS
    None = None
    c1 = c1
    c2 = c2
    Conns = {c1, c2}
    Script <- ScriptUdp
    FramePkts = 2
    MaxFrames = 2
    SeqStarts = {65535}
    UdpOutcomes = {TRUE}
    SpecWrites = {TRUE}
    WriteOutcomes = {TRUE}
    Closes = {FALSE}
SPECIFICATION Spec
INVARIANT PacketsContiguous
CHECK_DEADLOCK FALSE

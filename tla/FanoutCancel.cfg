\* One TCP player that sends TEARDOWN, may close its RTSP socket, and
\* whose RTSP writes may fail.  One frame of two packets.
CONSTANTS
    None = None
    c1 = c1
    c2 = c2
    Conns = {c1}
    Script <- ScriptCancel
    FramePkts = 2
    MaxFrames = 1
    SeqStarts = {0}
    UdpOutcomes = {TRUE}
    SpecWrites = {TRUE}
    WriteOutcomes = {TRUE, FALSE}
    Closes = {FALSE, TRUE}
SPECIFICATION Spec
INVARIANT CancelStopsMedia
CHECK_DEADLOCK FALSE

\* One player that sends SETUP and PLAY too early (500, no answer), plays
\* over TCP, switches its channel to UDP with a second SETUP and sends
\* TEARDOWN; one frame of two packets, the sequence counter starting at
\* 65535 so that it wraps.  Speculative writes complete at once (the
\* partial-write path is the dangling-buffer run's subject); a write, a
\* datagram or the peer may fail.  The run ends when the script and the
\* frames are used up: no deadlock check.
CONSTANTS
    None = None
    c1 = c1
    c2 = c2
    Conns = {c1}
    Script <- ScriptMixed
    FramePkts = 2
    MaxFrames = 1
    SeqStarts = {65535}
    UdpOutcomes = {TRUE, FALSE}
    SpecWrites = {TRUE}
    WriteOutcomes = {TRUE, FALSE}
    Closes = {FALSE, TRUE}
SPECIFICATION Spec
INVARIANT TypeOK
INVARIANT PlayResponseFirst
INVARIANT WireInOrder
PROPERTY TcpDelivered
CHECK_DEADLOCK FALSE

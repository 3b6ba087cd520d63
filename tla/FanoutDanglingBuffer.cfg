\* One UDP player; an initiating async_write (RTSP responses) or
\* async_send_to (RTP datagrams) may leave bytes to be sent later, by an
\* I/O thread, after the buffer it was given is gone.
CONSTANTS
    None = None
    c1 = c1
    c2 = c2
    Conns = {c1}
    Script <- ScriptUdp
    FramePkts = 2
    MaxFrames = 2
    SeqStarts = {65535}
    UdpOutcomes = {TRUE}
    SpecWrites = {TRUE, FALSE}
    WriteOutcomes = {TRUE}
    Closes = {FALSE, TRUE}
SPECIFICATION Spec
INVARIANT SentIntact
CHECK_DEADLOCK FALSE

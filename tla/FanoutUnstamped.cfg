\* One TCP player doing DESCRIBE, SETUP, PLAY while the producer sends a
\* one-packet frame: the PLAY can land between SendRtpPacket's two reads
\* of is_play.  The run ends when the script and the frame are used up.
CONSTANTS
    None = None
    c1 = c1
    c2 = c2
    Conns = {c1}
    Script <- ScriptTcp
    FramePkts = 1
    MaxFrames = 1
    SeqStarts = {0}
    UdpOutcomes = {TRUE}
    SpecWrites = {TRUE}
    WriteOutcomes = {TRUE}
    Closes = {FALSE}
SPECIFICATION Spec
INVARIANT RtpStamped
CHECK_DEADLOCK FALSE

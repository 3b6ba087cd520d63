\* Two connections, one stream "live", three requests each from a set that
\* covers every handler and branch: unknown suffix and UDP bind failure
\* (which end the process), SETUP before DESCRIBE (500), PLAY before
\* DESCRIBE, a request with a malformed URL and no CSeq, RemoveSession.
\* Clients stop after MaxRequests and a crashed server stops, so final
\* states are real: no deadlock check.
CONSTANTS
    Conns = {c1, c2}
    s1 = s1
    None = None
    Sessions <- OneStream
    SessionSuffix <- StreamSuffix
    SessionId <- StreamId
    Sources <- StreamSources
    UrlSuffixes = {"live", "cam"}
    Version = ""
    Times = {1, 2}
    BindOutcomes = {TRUE, FALSE}
    Requests <- ReqsAll
    MaxRequests = 3
SPECIFICATION Spec
INVARIANT TypeOK
INVARIANT ArmedClientRegistered
CHECK_DEADLOCK FALSE

\* Requests that reach the two crash paths: DESCRIBE of a suffix no session
\* is registered under (spec 7: 404) and SETUP over UDP when binding the
\* random RTP/RTCP ports fails (spec 7: 500).  TLC reports the shorter one;
\* with Requests <- ReqsUdpSetup it reports the bind failure.
CONSTANTS
    None = None
    s1 = s1
    Conns = {c1}
    Sessions <- OneStream
    SessionSuffix <- StreamSuffix
    SessionId <- StreamId
    Sources <- StreamSources
    UrlSuffixes = {"live", "cam"}
    Version = ""
    Times = {1}
    BindOutcomes = {TRUE, FALSE}
    Requests <- ReqsCrash
    MaxRequests = 2
SPECIFICATION Spec
INVARIANT
    ServerSurvives
CHECK_DEADLOCK FALSE

------------------------- MODULE MC_RtspConnection -------------------------
(* Model-checking instances of RtspConnection: one registered stream      *)
(* "live" with an H264 source on channel 0 (as main.cpp registers it),    *)
(* and curated request sets that reach *)
(* every parse path of interest without enumerating all header forms.    *)
EXTENDS RtspConnection

CONSTANTS s1

Live0 == [suffix |-> "live", track |-> 0]
Live1 == [suffix |-> "live", track |-> 1]
Cam0  == [suffix |-> "cam", track |-> 0]

Req(m, u, h) == [method |-> m, urlOk |-> TRUE, url |-> u, cseq |-> TRUE, hdr |-> h]

ReqOptions         == Req("OPTIONS", Live0, "none")
ReqDescribe        == Req("DESCRIBE", Live0, "accept_sdp")
ReqDescribeCam     == Req("DESCRIBE", Cam0, "accept_sdp")
ReqSetupTcp        == Req("SETUP", Live0, "tcp")
ReqSetupUdp1       == Req("SETUP", Live1, "udp")
ReqPlay            == Req("PLAY", Live0, "session_ok")
ReqInterleaved     == Req("$", Live0, "none")
\* The head of a DESCRIBE split by TCP, with no complete line in it.
ReqFragment        == Req("fragment", Live0, "none")
\* A request whose URL does not parse and that carries no CSeq: it runs on
\* the URL and CSeq left behind by earlier requests.
ReqDescribeStale   == [Req("DESCRIBE", Cam0, "accept_sdp") EXCEPT !.urlOk = FALSE, !.cseq = FALSE]

OneStream     == {s1}
StreamSuffix  == [s \in Sessions |-> IF s = s1 THEN "live" ELSE "cam"]
StreamId      == [s \in Sessions |-> IF s = s1 THEN 2 ELSE 3]
StreamSources == [s \in Sessions |-> {0}]

ReqsAll == {ReqOptions, ReqDescribe, ReqDescribeCam, ReqSetupTcp, ReqSetupUdp1,
            ReqPlay, ReqInterleaved, ReqDescribeStale, ReqFragment}
ReqsUnknownSuffix == {ReqDescribe, ReqDescribeCam}
ReqsUdpSetup      == {ReqDescribe, ReqSetupUdp1}
ReqsCrash         == ReqsUnknownSuffix \cup ReqsUdpSetup
=============================================================================

--------------------------- MODULE RtspConnection ---------------------------
(***************************************************************************)
(* The RTSP request engine (src/src/net/core/RtspConnect.cpp) as the logic *)
(* thread runs it: LogicSystem::HandleRequest parses one buffered request  *)
(* (ParseRequest) and, if the parse succeeds, runs the handler for its     *)
(* method.  The logic thread runs one request at a time, so each request  *)
(* is one step.  The handlers reach into the server's session registry    *)
(* (RtspServer), the session's client list and SDP (MediaSession) and the *)
(* connection's RtpConnect (setup and play state), all modelled here.     *)
(*                                                                         *)
(* A request is a record of what the keyword-search parser can find in it: *)
(* the method token, the URL and whether the request line parses (urlOk), *)
(* whether a CSeq is present, and the one header form that matters         *)
(* for its method.  Response text is reduced to method, status and body.  *)
(***************************************************************************)
EXTENDS Integers, Sequences, FiniteSets, SequencesExt, Functions

CONSTANTS
    Conns,          \* RTSP connections (RtspConnect objects)
    Sessions,       \* MediaSession objects
    SessionSuffix,  \* Sessions -> URL suffix
    SessionId,      \* Sessions -> MediaSessionId (from ++last_session_id_, > 1)
    Sources,        \* Sessions -> set of channels with a MediaSource
    UrlSuffixes,       \* URL suffixes clients ask for (registered or not)
    Version,        \* RtspServer::version_ passed as SDP session_name ("" or "v")
    Times,          \* values of std::time(nullptr) when an SDP is built
    BindOutcomes,   \* outcomes of binding a random UDP port (TRUE = bound)
    Requests,       \* the requests clients send
    MaxRequests,    \* bound on the requests read on one connection
    None

Channels == {0, 1}                     \* MediaChannelID channel0, channel1
Methods == {"OPTIONS", "DESCRIBE", "SETUP", "PLAY", "TEARDOWN", "GET_PARAMETER"}
HeaderForms ==
    {"none", "accept_sdp", "tcp", "tcp_bad", "udp", "udp_bad", "avp_multicast",
     "session_ok", "session_bad"}
Urls == [suffix : UrlSuffixes, track : Channels]
AllRequests ==
    [method : Methods \cup {"$", "fragment"}, urlOk : BOOLEAN, url : Urls, cseq : BOOLEAN, hdr : HeaderForms]

ASSUME Requests \subseteq AllRequests
ASSUME SessionSuffix \in [Sessions -> UrlSuffixes] /\ SessionId \in [Sessions -> Nat \ {0, 1}]

VARIABLES
    registered,   \* RtspServer media_sessions_ / rtsp_suffix_map_: sessions in the registry
    clients,      \* MediaSession::clients_ : Sessions -> Seq(Conns)
    sdp,          \* MediaSession::sdp_ : Sessions -> memoized SDP (<<>> = "")
    url,          \* Request_line_parmas_ "url"/"url_suffix": last parsed URL or None
    cseqCached,   \* Header_line_parmas_ holds a "cseq"
    transport,    \* RtspConnect::transport_
    channelid,    \* RtspConnect::channelid_
    sessionOf,    \* RtspConnect::session_id_ (0 = unbound)
    connState,    \* RtspConnect::conn_state_
    rtp,          \* RtspConnect::rtp_conn_ : RtpConnect state or None
    out,          \* responses passed to RtspConnect::Send, in order
    nreq,         \* requests read on each connection
    crashed,      \* the server process has died
    lastReq       \* history: <<connection, request>> of the last request read

vars == <<registered, clients, sdp, url, cseqCached, transport, channelid,
          sessionOf, connState, rtp, out, nreq, crashed, lastReq>>

-----------------------------------------------------------------------------
(* RtpConnect as the RTSP handlers see it. *)
NewRtp ==
    [setup |-> [ch \in Channels |-> FALSE], play |-> [ch \in Channels |-> FALSE],
     mode |-> "none", closed |-> FALSE]

\* RtpConnect::SetupRtpOverTcp / SetupRtpOverUdp (success path).
SetupChannel(r, ch, mode) ==
    [r EXCEPT !.setup[ch] = TRUE, !.mode = mode]

\* Mutant: Play arming both channels whether or not they were SETUP.
PlayAllChannels(r) == [r EXCEPT !.play = [ch \in Channels |-> TRUE]]

\* RtpConnect::Play: arm every channel that has been set up.
Play(r) == [r EXCEPT !.play = [ch \in Channels |-> r.setup[ch] \/ r.play[ch]]]

(* RtspServer lookups, under its mutex. *)
SessionBySuffix(sfx) == {s \in registered : SessionSuffix[s] = sfx}
SessionById(id) == {s \in registered : SessionId[s] = id}

\* MediaSession::AddClient: identity-deduplicated append.
AddClient(s, c) ==
    IF \E i \in DOMAIN clients[s] : clients[s][i] = c
    THEN clients
    ELSE [clients EXCEPT ![s] = Append(@, c)]

\* MediaSession::GetSdpMessage: built once from the session line block and
\* one media block per source, then returned unchanged.  With a non-empty
\* session_name the second snprintf writes at the start of the buffer,
\* replacing the o=/t=/a=control lines.
BuildSdp(s, t) ==
    LET head == IF Version = ""
                THEN << <<"o", t>>, <<"t", 0>>, <<"a=control:*", 0>> >>
                ELSE << <<"a=type:broadcast", 0>>, <<"a=rtcp-unicast", 0>> >>
        media(ch) == << <<"m=video", 0>>, <<"a=rtpmap", 0>>, <<"a=control:track", ch>> >>
    IN head \o FlattenSeq([i \in 1..Cardinality(Sources[s]) |->
                               media(SetToSortSeq(Sources[s], <)[i])])

GetSdpMessage(s, t) == IF sdp[s] # << >> THEN sdp[s] ELSE BuildSdp(s, t)

Response(m, code, body) == [method |-> m, code |-> code, body |-> body]

Send(c, resp) == out' = [out EXCEPT ![c] = Append(@, resp)]

-----------------------------------------------------------------------------
(* AsyncRead hands every async_read_some chunk to the logic thread as one *)
(* request.  A chunk without "\r\n" (the head of a request that TCP       *)
(* delivered in two reads) is the record with method "fragment".          *)
(*                                                                         *)
(* ParseRequest.  A chunk starting with '$' is RTCP; a chunk without       *)
(* "\r\n" returns false before anything is parsed.  The method token maps to OPTIONS/DESCRIBE/SETUP/PLAY or  *)
(* NONE; a request line whose URL does not parse returns false, but that  *)
(* result is overwritten by ParseHeaderLine, so the previous URL is kept. *)
MethodOf(r) ==
    CASE r.method = "$"                                          -> "RTCP"
      [] r.method \in {"OPTIONS", "DESCRIBE", "SETUP", "PLAY"}   -> r.method
      [] OTHER                                                   -> "NONE"

ParsedUrl(c, r) == IF r.urlOk THEN r.url ELSE url[c]

HasLine(r) == r.method # "fragment"

UrlSuffix(u) == IF u = None THEN None ELSE u.suffix

\* Mutant: the channel taken as the 1-based track number.
ParseMediaChannelOneBased(u) == IF u = None THEN 0 ELSE u.track + 1

\* ParseMediaChannel: "track1" in the URL selects channel1, else channel0.
ParseMediaChannel(u) == IF u = None THEN 0 ELSE u.track

CSeqOk(c, r) == r.cseq \/ cseqCached[c]

\* ParseHeaderLine: a CSeq (or a cached one), then per method: Accept+sdp
\* for DESCRIBE, a parsable Transport for SETUP, a parsable Session value
\* if present for PLAY; OPTIONS needs nothing else; NONE fails.
ParseOk(c, r) ==
    \/ MethodOf(r) = "RTCP"
    \/ /\ CSeqOk(c, r)
       /\ CASE MethodOf(r) = "DESCRIBE" -> r.hdr = "accept_sdp"
            [] MethodOf(r) = "SETUP"    -> r.hdr \in {"tcp", "udp"}
            [] MethodOf(r) = "PLAY"     -> r.hdr # "session_bad"
            [] MethodOf(r) = "OPTIONS"  -> TRUE
            [] OTHER                    -> FALSE

\* What parsing leaves behind, whether or not it succeeds: the URL, the
\* cached CSeq, transport_ (set as soon as the Transport kind is found) and
\* channelid_ ("track1" in the URL selects channel 1).
ParseEffects(c, r) ==
    IF MethodOf(r) = "RTCP" \/ ~HasLine(r)
    THEN UNCHANGED <<url, cseqCached, transport, channelid>>
    ELSE LET hdrOk == CSeqOk(c, r) /\ MethodOf(r) = "SETUP"
         IN /\ url' = [url EXCEPT ![c] = ParsedUrl(c, r)]
            /\ cseqCached' = [cseqCached EXCEPT ![c] = CSeqOk(c, r)]
            /\ transport' = [transport EXCEPT ![c] =
                   CASE hdrOk /\ r.hdr \in {"tcp", "tcp_bad"} -> "tcp"
                     [] hdrOk /\ r.hdr \in {"udp", "udp_bad"} -> "udp"
                     [] OTHER                                -> @]
            /\ channelid' = [channelid EXCEPT ![c] =
                   IF ~hdrOk \/ r.hdr \notin {"tcp", "udp"} THEN @
                   ELSE ParseMediaChannel(ParsedUrl(c, r))]

\* A request read on connection c and queued to the logic thread.
Receive(c, r) ==
    /\ ~crashed
    /\ nreq[c] < MaxRequests
    /\ nreq' = [nreq EXCEPT ![c] = @ + 1]
    /\ lastReq' = <<c, r>>
    /\ ParseEffects(c, r)

-----------------------------------------------------------------------------
(* The handlers.  Each action is one LogicSystem::HandleRequest call.     *)

\* Parse failure (a chunk without a line, and TEARDOWN and GET_PARAMETER,
\* which parse as NONE):
\* logged and dropped; an interleaved '$' frame parses and does nothing.
DropRequest(c, r) ==
    /\ Receive(c, r)
    /\ ~ParseOk(c, r) \/ MethodOf(r) = "RTCP"
    /\ UNCHANGED <<registered, clients, sdp, sessionOf, connState, rtp, out, crashed>>

HandleOptions(c, r) ==
    /\ Receive(c, r)
    /\ MethodOf(r) = "OPTIONS" /\ ParseOk(c, r)
    /\ Send(c, Response("OPTIONS", 200, << >>))
    /\ UNCHANGED <<registered, clients, sdp, sessionOf, connState, rtp, crashed>>

\* HandleDescribe: create the RtpConnect on first use, look the suffix up.
\* The not-found test is `!rtsp_server && !media_session`, false while the
\* server is alive, so an unknown suffix dereferences a null MediaSession.
HandleDescribe(c, r) ==
    LET found == SessionBySuffix(UrlSuffix(ParsedUrl(c, r)))
    IN /\ Receive(c, r)
       /\ MethodOf(r) = "DESCRIBE" /\ ParseOk(c, r)
       /\ rtp' = [rtp EXCEPT ![c] = IF @ = None THEN NewRtp ELSE @]
       /\ IF found = {}
          THEN /\ crashed' = TRUE
               /\ UNCHANGED <<clients, sdp, sessionOf, out>>
          ELSE \E s \in found, t \in Times :
               /\ sessionOf' = [sessionOf EXCEPT ![c] = SessionId[s]]
               /\ clients' = AddClient(s, c)
               /\ sdp' = [sdp EXCEPT ![s] = GetSdpMessage(s, t)]
               /\ Send(c, Response("DESCRIBE", 200, sdp'[s]))
               /\ UNCHANGED crashed
       /\ UNCHANGED <<registered, connState>>

\* HandleSetup: the session is looked up by the id bound at DESCRIBE time;
\* none -> 500.  UDP: SetupRtpOverUdp binds random ports; a failing bind
\* throws boost::system::system_error, which the catch clauses (written for
\* error_code) do not catch, so it ends the logic thread and the process.
HandleSetup(c, r) ==
    LET ch == channelid'[c]
    IN /\ Receive(c, r)
       /\ MethodOf(r) = "SETUP" /\ ParseOk(c, r)
       /\ IF SessionById(sessionOf[c]) = {}
          THEN /\ Send(c, Response("SETUP", 500, << >>))
               /\ UNCHANGED <<rtp, crashed>>
          ELSE IF transport'[c] = "udp"
          THEN \E bound \in BindOutcomes :
               IF bound
               THEN /\ rtp' = [rtp EXCEPT ![c] = SetupChannel(@, ch, "udp")]
                    /\ Send(c, Response("SETUP", 200, << >>))
                    /\ UNCHANGED crashed
               ELSE /\ crashed' = TRUE
                    /\ UNCHANGED <<rtp, out>>
          ELSE /\ rtp' = [rtp EXCEPT ![c] = SetupChannel(@, ch, "tcp")]
               /\ Send(c, Response("SETUP", 200, << >>))
               /\ UNCHANGED crashed
       /\ UNCHANGED <<registered, clients, sdp, sessionOf, connState>>

\* HandlePlay: without an RtpConnect it returns without a response.
HandlePlay(c, r) ==
    /\ Receive(c, r)
    /\ MethodOf(r) = "PLAY" /\ ParseOk(c, r)
    /\ IF rtp[c] = None
       THEN UNCHANGED <<rtp, connState, out>>
       ELSE /\ connState' = [connState EXCEPT ![c] = "START_PLAY"]
            /\ rtp' = [rtp EXCEPT ![c] = Play(@)]
            /\ Send(c, Response("PLAY", 200, << >>))
    /\ UNCHANGED <<registered, clients, sdp, sessionOf, crashed>>

\* RtspServer::RemoveSession: the registry forgets the session; clients
\* bound to it keep their RtpConnect and their place in its client list.
RemoveSession(s) ==
    /\ ~crashed
    /\ s \in registered
    /\ registered' = registered \ {s}
    /\ UNCHANGED <<clients, sdp, url, cseqCached, transport, channelid,
                   sessionOf, connState, rtp, out, nreq, crashed, lastReq>>

Init ==
    /\ registered = Sessions
    /\ clients = [s \in Sessions |-> << >>]
    /\ sdp = [s \in Sessions |-> << >>]
    /\ url = [c \in Conns |-> None]
    /\ cseqCached = [c \in Conns |-> FALSE]
    /\ transport = [c \in Conns |-> "none"]
    /\ channelid = [c \in Conns |-> 0]
    /\ sessionOf = [c \in Conns |-> 0]
    /\ connState = [c \in Conns |-> "START_CONNECT"]
    /\ rtp = [c \in Conns |-> None]
    /\ out = [c \in Conns |-> << >>]
    /\ nreq = [c \in Conns |-> 0]
    /\ crashed = FALSE
    /\ lastReq = None

Next ==
    \/ \E c \in Conns, r \in Requests :
          \/ DropRequest(c, r) \/ HandleOptions(c, r) \/ HandleDescribe(c, r)
          \/ HandleSetup(c, r) \/ HandlePlay(c, r)
    \/ \E s \in Sessions : RemoveSession(s)

Spec == Init /\ [][Next]_vars

-----------------------------------------------------------------------------
RtpState ==
    [setup : [Channels -> BOOLEAN], play : [Channels -> BOOLEAN],
     mode : {"none", "udp", "tcp"}, closed : BOOLEAN]

TypeOK ==
    /\ registered \subseteq Sessions
    /\ clients \in [Sessions -> Seq(Conns)]
    /\ url \in [Conns -> Urls \cup {None}]
    /\ cseqCached \in [Conns -> BOOLEAN]
    /\ transport \in [Conns -> {"none", "udp", "tcp"}]
    /\ channelid \in [Conns -> Channels]
    /\ sessionOf \in [Conns -> {0} \cup {SessionId[s] : s \in Sessions}]
    /\ connState \in [Conns -> {"START_CONNECT", "START_PLAY"}]
    /\ rtp \in [Conns -> RtpState \cup {None}]
    /\ nreq \in [Conns -> 0..MaxRequests]
    /\ crashed \in BOOLEAN

\* The session a connection is bound to (session_id_), registered or not.
BoundSession(c) == {s \in Sessions : SessionId[s] = sessionOf[c]}

IsClientOf(c, s) == c \in Range(clients[s])

\* Whoever is armed is reachable by a broadcast: a connection with an armed
\* channel has an RtpConnect, that channel was SETUP, and the connection is
\* in the client list of the session its session_id_ names.  DESCRIBE binds
\* the id and registers the client, SETUP looks the session up by that id
\* and PLAY arms set-up channels: the three steps must agree.
ArmedClientRegistered ==
    \A c \in Conns : rtp[c] # None =>
        \A ch \in Channels : rtp[c].play[ch] =>
            /\ rtp[c].setup[ch]
            /\ \E s \in BoundSession(c) : IsClientOf(c, s)

\* Spec 7: no single connection's failure is process-fatal; DESCRIBE of an
\* unknown suffix is answered 404 and a SETUP whose UDP ports cannot be
\* bound is answered 500.
ServerSurvives == ~crashed
=============================================================================

----------------------------- MODULE MediaFanout -----------------------------
(***************************************************************************)
(* The media path and the locks it shares with the control path.           *)
(*                                                                         *)
(*  - The frame producer thread (main's SendFrameThread -> RtspServer::     *)
(*    PushFrame -> MediaSession::HandleFrame -> H264Source::HandleFrame)    *)
(*    runs the fan-out callback of MediaSession::AddSource once per RTP    *)
(*    packet: under client_mutex_ it walks the client list and calls        *)
(*    RtpConnect::SendRtpPacket for each client; a TCP-interleaved packet  *)
(*    is re-routed through LogicSystem::PushMsg, which takes mtx_.         *)
(*  - The logic thread (LogicSystem::DealMsg) pops one message at a time  *)
(*    and runs its callback with mtx_ held: an outbound RTP packet is      *)
(*    written to the RTSP socket; a request runs the RTSP handler, and     *)
(*    DESCRIBE calls MediaSession::AddClient, which takes client_mutex_.  *)
(*  - I/O threads push requests (RtspConnect::AsyncRead) and run the UDP   *)
(*    send completions (RtpConnect::SendRtpOverUdp's handler).             *)
(*                                                                         *)
(* One stream with one H264 source on channel 0, as main.cpp sets it up.   *)
(* Packets are numbered 1..FramePkts*MaxFrames in production order; every *)
(* frame is pushed with type 0, which SetFrameType counts as a key frame.  *)
(* The condition-variable wait of DealMsg is the LogicSystem module; here *)
(* the logic thread simply runs when the queue is non-empty and mtx_ free.*)
(***************************************************************************)
EXTENDS Integers, Sequences, SequencesExt

CONSTANTS
    Conns,       \* RTSP clients (RtspConnect + RtpConnect)
    Script,      \* Conns -> the requests each client sends, in order
    FramePkts,   \* RTP packets per frame (H264Source::HandleFrame output)
    MaxFrames,   \* frames the producer pushes
    SeqStarts,   \* initial packet_seq values (rd() & 0xffff)
    UdpOutcomes, \* outcomes of an async_send_to (TRUE = sent)
    SpecWrites,  \* does an initiating async_write put all bytes out at once
    WriteOutcomes, \* outcomes of the rest of an async_write (TRUE = written)
    Closes,      \* may a client close its RTSP socket ({FALSE} or BOOLEAN)
    None

Reqs == {"DESCRIBE", "SETUP_TCP", "SETUP_UDP", "PLAY", "TEARDOWN"}
ASSUME Script \in [Conns -> Seq(Reqs)]
ASSUME SeqStarts \subseteq 0..65535 /\ UdpOutcomes \subseteq BOOLEAN
ASSUME SpecWrites \subseteq BOOLEAN /\ WriteOutcomes \subseteq BOOLEAN
ASSUME Closes \subseteq BOOLEAN

NPkts == FramePkts * MaxFrames
FirstOfFrame(n) == (n - 1) % FramePkts = 0

VARIABLES
    clients,       \* MediaSession::clients_ (append order)
    client_mutex,  \* holder of MediaSession::client_mutex_, or None
    mtx,           \* holder of LogicSystem::mtx_, or None
    msg_que,       \* LogicSystem::msg_que_
    rtp,           \* RtspConnect::rtp_conn_ (channel 0 state) or None
    bound,         \* RtspConnect::session_id_ is set (DESCRIBE succeeded)
    nreq,          \* requests each client has sent
    lpc, lconn,    \* logic thread: step within a callback, its connection
    ppc, pkt, snap,\* producer: step, current packet, clients left to visit
    cur,           \* producer: the client's packet copy being sent, or None
    udpFlight,     \* UDP datagrams handed to async_send_to, not completed
    sendQue,       \* RtspConnect::send_que_ (the Send_Node copies)
    wst,           \* the RTSP socket's async_write: "none", "caller" (bytes
                   \* left in the caller's buffer), "copy" (left in the
                   \* queued copy), "written" (HandleWrite pending), "failed"
    wire,          \* messages written on each RTSP (TCP) socket, in order
    torn,          \* wire positions whose bytes came from a dead buffer
    sent,          \* history: messages passed to RtspConnect::Send
    gone,          \* the client closed its RTSP socket (AsyncRead saw an error)
    cancelAt,      \* history: Len(stamped[c]) when TEARDOWN, a read error or
                   \* a write error should have closed the connection, or None
    udpRecv,       \* datagrams delivered to each client's RTP port
    stamped        \* history: packets SetRtpHeader stamped for each client

sock == <<sendQue, wst, wire, torn, sent, gone, cancelAt>>
vars == <<clients, client_mutex, mtx, msg_que, rtp, bound, nreq, lpc, lconn,
          ppc, pkt, snap, cur, udpFlight, sock, udpRecv, stamped>>

Resp(m) == [kind |-> "resp", m |-> m]
RtpPkt(n, seq) == [kind |-> "rtp", n |-> n, seq |-> seq]

-----------------------------------------------------------------------------
(* RtpConnect. *)

\* Constructor: every channel gets a random 16-bit starting sequence.
NewRtp(s) ==
    [setup |-> FALSE, play |-> FALSE, mode |-> "none", hasKey |-> FALSE,
     closed |-> FALSE, seq |-> s]

\* Mutant: packet_seq incremented without its 16-bit width.
NextSeqWide(s) == s + 1

\* media_channel_info_[ch].packet_seq++ on a uint16_t.
NextSeq(s) == (s + 1) % 65536

\* Armed: (is_play || is_record) && has_key_frame_ (after SetFrameType).
Armed(r) == r.setup /\ r.play

\* TearDown: idempotent; clears play.
TearDown(r) == IF r.closed THEN r ELSE [r EXCEPT !.closed = TRUE, !.play = FALSE]

\* History: the first event after which spec 5 has the connection closed.
Cancel(c) == cancelAt' = [cancelAt EXCEPT ![c] = IF @ = None THEN Len(stamped[c]) ELSE @]

-----------------------------------------------------------------------------
(* The RTSP socket's write path: RtspConnect::Send and HandleWrite, both   *)
(* under send_mtx_.  Send queues a Send_Node copy and, when nothing was    *)
(* queued, starts async_write on the caller's buffer msg.  Every caller's  *)
(* buffer is gone when its callback returns (a stack array of the handler, *)
(* or the data of the LogicNode that DealMsg pops), which in this model is *)
(* the end of the step that calls Send.  The initiating call may write all *)
(* bytes at once (asio's speculative write); otherwise the rest is written *)
(* later by an I/O thread.                                                  *)

\* Mutant: the pending test dropped; a Send behind a pending write starts
\* a second async_write, which completes at once.
SendNoPendingCheck(c, m) ==
    /\ UNCHANGED <<gone, cancelAt>>
    /\ sent' = [sent EXCEPT ![c] = Append(@, m)]
    /\ sendQue' = [sendQue EXCEPT ![c] = Append(@, m)]
    /\ IF sendQue[c] # << >>
       THEN /\ wire' = [wire EXCEPT ![c] = Append(@, m)]
            /\ UNCHANGED <<wst, torn>>
       ELSE \E all \in SpecWrites :
              /\ wst' = [wst EXCEPT ![c] = IF all THEN "written" ELSE "caller"]
              /\ wire' = IF all THEN [wire EXCEPT ![c] = Append(@, m)] ELSE wire
              /\ UNCHANGED torn

Send(c, m) ==
    /\ UNCHANGED <<gone, cancelAt>>
    /\ sent' = [sent EXCEPT ![c] = Append(@, m)]
    /\ sendQue' = [sendQue EXCEPT ![c] = Append(@, m)]
    /\ IF sendQue[c] # << >>
       THEN UNCHANGED <<wst, wire, torn>>
       ELSE \E all \in SpecWrites :
              /\ wst' = [wst EXCEPT ![c] = IF all THEN "written" ELSE "caller"]
              /\ wire' = IF all THEN [wire EXCEPT ![c] = Append(@, m)] ELSE wire
              /\ UNCHANGED torn

\* An I/O thread writes the rest of the pending async_write.  Bytes read
\* from the caller's dead buffer are whatever now occupies that memory.
\* An error ends the write; HandleWrite then logs it and returns.
WriteRest(c) ==
    /\ wst[c] \in {"caller", "copy"}
    /\ \E ok \in WriteOutcomes, intact \in IF wst[c] = "caller" THEN BOOLEAN ELSE {TRUE} :
          IF ok
          THEN /\ wire' = [wire EXCEPT ![c] = Append(@, Head(sendQue[c]))]
               /\ torn' = [torn EXCEPT ![c] = IF intact THEN @ ELSE @ \cup {Len(wire'[c])}]
               /\ wst' = [wst EXCEPT ![c] = "written"]
               /\ UNCHANGED cancelAt
          ELSE /\ wst' = [wst EXCEPT ![c] = "failed"]
               /\ Cancel(c)
               /\ UNCHANGED <<wire, torn>>
    /\ UNCHANGED <<cur, sendQue, sent, gone, clients, client_mutex, mtx, msg_que, rtp, bound,
                   nreq, lpc, lconn, ppc, pkt, snap, udpFlight, udpRecv, stamped>>

\* HandleWrite without error: pop the written node and start async_write of
\* the next queued copy.
HandleWrite(c) ==
    /\ wst[c] = "written"
    /\ sendQue' = [sendQue EXCEPT ![c] = Tail(@)]
    /\ wst' = [wst EXCEPT ![c] = IF Len(sendQue[c]) > 1 THEN "copy" ELSE "none"]
    /\ UNCHANGED <<cur, wire, torn, sent, gone, cancelAt, clients, client_mutex, mtx, msg_que, rtp,
                   bound, nreq, lpc, lconn, ppc, pkt, snap, udpFlight, udpRecv, stamped>>

-----------------------------------------------------------------------------
(* Requests: RtspConnect::AsyncRead pushes each buffered request. *)
ClientRequest(c) ==
    /\ ~gone[c]
    /\ nreq[c] < Len(Script[c])
    /\ mtx = None
    /\ msg_que' = Append(msg_que, [kind |-> "req", conn |-> c, m |-> Script[c][nreq[c] + 1]])
    /\ nreq' = [nreq EXCEPT ![c] = @ + 1]
    /\ UNCHANGED <<cur, clients, client_mutex, mtx, rtp, bound, lpc, lconn, ppc, pkt,
                   snap, udpFlight, sock, udpRecv, stamped>>

\* The client closes its RTSP socket: the pending async_read_some completes
\* with an error, and the handler logs it and returns.  Nothing is closed.
Disconnect(c) ==
    /\ TRUE \in Closes
    /\ ~gone[c]
    /\ gone' = [gone EXCEPT ![c] = TRUE]
    /\ Cancel(c)
    /\ UNCHANGED <<cur, sendQue, wst, wire, torn, sent, clients, client_mutex, mtx,
                   msg_que, rtp, bound, nreq, lpc, lconn, ppc, pkt, snap, udpFlight,
                   udpRecv, stamped>>

\* Mutant: the RTP_SEND_PKT callback missing, so the node is popped unsent.
HandleSendPacketLost(c, p) == UNCHANGED sock

\* LogicSystem::HandleSendPacket -> RtspConnect::Send: in-order socket write.
HandleSendPacket(c, p) == Send(c, p)

\* DealMsg pops an outbound RTP node and runs its callback under mtx_.
LogicSendPacket ==
    /\ lpc = "idle" /\ mtx = None /\ msg_que # << >>
    /\ Head(msg_que).kind = "pkt"
    /\ HandleSendPacket(Head(msg_que).conn, Head(msg_que).p)
    /\ msg_que' = Tail(msg_que)
    /\ UNCHANGED <<cur, clients, client_mutex, mtx, rtp, bound, nreq, lpc, lconn,
                   ppc, pkt, snap, udpFlight, udpRecv, stamped>>

\* HandleDescribe: create the RtpConnect, bind session_id_, then AddClient,
\* which blocks on client_mutex_ while mtx_ is still held.  The throw of
\* remote_endpoint() on a socket the peer already reset ends the process;
\* this module takes the path that returns (crashes are RtspConnection's).
LogicDescribe ==
    /\ lpc = "idle" /\ mtx = None /\ msg_que # << >>
    /\ Head(msg_que).kind = "req" /\ Head(msg_que).m = "DESCRIBE"
    /\ LET c == Head(msg_que).conn
       IN /\ \E s \in SeqStarts :
                rtp' = [rtp EXCEPT ![c] = IF @ = None THEN NewRtp(s) ELSE @]
          /\ bound' = [bound EXCEPT ![c] = TRUE]
          /\ lconn' = c
    /\ mtx' = "logic" /\ lpc' = "addclient"
    /\ msg_que' = Tail(msg_que)
    /\ UNCHANGED <<cur, clients, client_mutex, nreq, ppc, pkt, snap, udpFlight, sock,
                   udpRecv, stamped>>

\* MediaSession::AddClient (identity-deduplicated append), then the
\* DESCRIBE response is sent and the callback returns, releasing mtx_.
LogicAddClient ==
    /\ lpc = "addclient" /\ client_mutex = None
    /\ clients' = IF lconn \in Range(clients) THEN clients ELSE Append(clients, lconn)
    /\ Send(lconn, Resp("DESCRIBE"))
    /\ mtx' = None /\ lpc' = "idle"
    /\ UNCHANGED <<cur, client_mutex, msg_que, rtp, bound, nreq, lconn, ppc, pkt, snap,
                   udpFlight, udpRecv, stamped>>

\* HandleSetup: no bound session -> 500; otherwise SetupRtpOverTcp/Udp
\* marks channel 0 set up and sets the connection's transport_mode_.  A
\* failed UDP bind throws past the catch clauses (modelled in RtspConnection).
LogicSetup ==
    /\ lpc = "idle" /\ mtx = None /\ msg_que # << >>
    /\ Head(msg_que).kind = "req" /\ Head(msg_que).m \in {"SETUP_TCP", "SETUP_UDP"}
    /\ LET c == Head(msg_que).conn
           mode == IF Head(msg_que).m = "SETUP_TCP" THEN "tcp" ELSE "udp"
       IN IF bound[c]
          THEN /\ rtp' = [rtp EXCEPT ![c] = [@ EXCEPT !.setup = TRUE, !.mode = mode]]
               /\ Send(c, Resp("SETUP"))
          ELSE /\ Send(c, Resp("SETUP_500"))
               /\ UNCHANGED rtp
    /\ msg_que' = Tail(msg_que)
    /\ UNCHANGED <<cur, clients, client_mutex, mtx, bound, nreq, lpc, lconn, ppc, pkt,
                   snap, udpFlight, udpRecv, stamped>>

\* HandlePlay: no RtpConnect -> return; otherwise RtpConnect::Play arms
\* the set-up channel, and only then is the response built and sent.
LogicPlay ==
    /\ lpc = "idle" /\ mtx = None /\ msg_que # << >>
    /\ Head(msg_que).kind = "req" /\ Head(msg_que).m = "PLAY"
    /\ LET c == Head(msg_que).conn
       IN IF rtp[c] = None
          THEN UNCHANGED <<rtp, mtx, lpc, lconn>>
          ELSE /\ rtp' = [rtp EXCEPT ![c].play = @ \/ rtp[c].setup]
               /\ mtx' = "logic" /\ lpc' = "playresp" /\ lconn' = c
    /\ msg_que' = Tail(msg_que)
    /\ UNCHANGED <<cur, clients, client_mutex, bound, nreq, ppc, pkt, snap, udpFlight,
                   sock, udpRecv, stamped>>

\* TEARDOWN: ParseRequestLine has no case for it (Method::NONE), so
\* ParseHeaderLine returns false and LogicSystem::HandleRequest drops the
\* request without a response; RtpConnect::TearDown is never called.
LogicTeardown ==
    /\ lpc = "idle" /\ mtx = None /\ msg_que # << >>
    /\ Head(msg_que).kind = "req" /\ Head(msg_que).m = "TEARDOWN"
    /\ Cancel(Head(msg_que).conn)
    /\ msg_que' = Tail(msg_que)
    /\ UNCHANGED <<cur, sendQue, wst, wire, torn, sent, gone, clients, client_mutex, mtx,
                   rtp, bound, nreq, lpc, lconn, ppc, pkt, snap, udpFlight, udpRecv,
                   stamped>>

LogicPlayRespond ==
    /\ lpc = "playresp"
    /\ Send(lconn, Resp("PLAY"))
    /\ mtx' = None /\ lpc' = "idle"
    /\ UNCHANGED <<cur, clients, client_mutex, msg_que, rtp, bound, nreq, lconn, ppc,
                   pkt, snap, udpFlight, udpRecv, stamped>>

-----------------------------------------------------------------------------
(* The producer thread. *)

\* RtspServer::PushFrame: a frame is dropped when GetNumClient() is 0.
SkipFrame ==
    /\ ppc = "idle" /\ pkt < NPkts /\ FirstOfFrame(pkt + 1)
    /\ clients = << >>
    /\ pkt' = pkt + FramePkts
    /\ UNCHANGED <<cur, clients, client_mutex, mtx, msg_que, rtp, bound, nreq, lpc,
                   lconn, ppc, snap, udpFlight, sock, udpRecv, stamped>>

\* The send callback for the next packet: take client_mutex_ and build the
\* recipient list with emplace_front, i.e. newest client first.  Entries
\* never expire (RtspServer::connections_ keeps every RtpConnect alive), so
\* the prune never fires, and GetRtpSessionId (the object address) makes
\* the per-id packet copies one per client.
Snapshot ==
    /\ ppc = "idle" /\ pkt < NPkts
    /\ FirstOfFrame(pkt + 1) => clients # << >>
    /\ client_mutex = None
    /\ client_mutex' = "producer"
    /\ snap' = Reverse(clients)
    /\ pkt' = pkt + 1
    /\ ppc' = "fanout"
    /\ UNCHANGED <<cur, clients, mtx, msg_que, rtp, bound, nreq, lpc, lconn, udpFlight,
                   sock, udpRecv, stamped>>

\* SendRtpPacket on a closed RtpConnect returns -1: go on to the next one.
VisitClosed ==
    /\ ppc = "fanout" /\ snap # << >>
    /\ rtp[Head(snap)].closed
    /\ snap' = Tail(snap)
    /\ UNCHANGED <<cur, clients, client_mutex, mtx, msg_que, rtp, bound, nreq, lpc,
                   lconn, ppc, pkt, udpFlight, sock, udpRecv, stamped>>

\* SendRtpPacket, first half: SetFrameType records the key frame, and
\* SetRtpHeader reads is_play (unlocked) and, if armed, stamps the next
\* sequence number into the client's packet copy.  Unarmed, the copy keeps
\* the header region H264Source left unstamped (seq None).
VisitStamp ==
    /\ ppc = "fanout" /\ snap # << >>
    /\ LET c == Head(snap)
       IN /\ ~rtp[c].closed
          /\ IF Armed(rtp[c])
             THEN /\ rtp' = [rtp EXCEPT ![c] = [@ EXCEPT !.hasKey = TRUE, !.seq = NextSeq(@)]]
                  /\ stamped' = [stamped EXCEPT ![c] = Append(@, RtpPkt(pkt, rtp[c].seq))]
                  /\ cur' = RtpPkt(pkt, rtp[c].seq)
             ELSE /\ rtp' = [rtp EXCEPT ![c].hasKey = TRUE]
                  /\ cur' = RtpPkt(pkt, None)
                  /\ UNCHANGED stamped
    /\ ppc' = "send"
    /\ UNCHANGED <<clients, client_mutex, mtx, msg_que, bound, nreq, lpc, lconn,
                   pkt, snap, udpFlight, sock, udpRecv>>

\* Second half: is_play is read again.  Not armed (now): nothing is sent,
\* SendRtpPacket returns 0 and `if (ret == 0) break;` ends the round.
VisitUnarmed ==
    /\ ppc = "send" /\ ~Armed(rtp[Head(snap)])
    /\ snap' = << >> /\ ppc' = "fanout" /\ cur' = None
    /\ UNCHANGED <<clients, client_mutex, mtx, msg_que, rtp, bound, nreq, lpc, lconn,
                   pkt, udpFlight, sock, udpRecv, stamped>>

\* Armed over UDP: async_send_to, SendRtpOverUdp returns 1, SendRtpPacket
\* returns -1 and the loop goes on.
VisitUdp ==
    /\ ppc = "send"
    /\ LET c == Head(snap)
       IN /\ Armed(rtp[c]) /\ rtp[c].mode = "udp"
          /\ \E now \in SpecWrites :
                udpFlight' = [udpFlight EXCEPT ![c] = @ \cup {[p |-> cur, read |-> now]}]
    /\ snap' = Tail(snap) /\ ppc' = "fanout" /\ cur' = None
    /\ UNCHANGED <<clients, client_mutex, mtx, msg_que, rtp, bound, nreq, lpc, lconn,
                   pkt, sock, udpRecv, stamped>>

\* Armed over TCP: SendRtpOverTcp calls PushMsg (next step).
VisitTcp ==
    /\ ppc = "send"
    /\ Armed(rtp[Head(snap)]) /\ rtp[Head(snap)].mode = "tcp"
    /\ ppc' = "push"
    /\ UNCHANGED <<clients, client_mutex, mtx, msg_que, rtp, bound, nreq, lpc, lconn,
                   pkt, snap, udpFlight, sock, udpRecv, stamped, cur>>

\* Mutant: the interleaved packet written straight to the socket (the
\* async_send that SendRtpOverTcp has commented out) instead of queued.
SendRtpOverTcpDirect(c, p) ==
    /\ Send(c, p)
    /\ UNCHANGED msg_que

\* SendRtpOverTcp: LogicSystem::PushMsg, which needs mtx_.
SendRtpOverTcp(c, p) ==
    /\ mtx = None
    /\ msg_que' = Append(msg_que, [kind |-> "pkt", conn |-> c, p |-> p])
    /\ UNCHANGED sock

\* ... which returns 0, so `if (ret == 0) break;` ends the round.
PushPacket ==
    /\ ppc = "push"
    /\ SendRtpOverTcp(Head(snap), cur)
    /\ snap' = << >> /\ ppc' = "fanout" /\ cur' = None
    /\ UNCHANGED <<clients, client_mutex, mtx, rtp, bound, nreq, lpc, lconn, pkt,
                   udpFlight, udpRecv, stamped>>

\* End of the callback's scope: client_mutex_ released.
EndRound ==
    /\ ppc = "fanout" /\ snap = << >>
    /\ client_mutex' = None /\ ppc' = "idle"
    /\ UNCHANGED <<cur, clients, mtx, msg_que, rtp, bound, nreq, lpc, lconn, pkt, snap,
                   udpFlight, sock, udpRecv, stamped>>

\* The datagram's bytes are read from pkt.data, the per-session copy in the
\* callback's local packets map (the lambda captures only this).  Unless
\* async_send_to sent it at once, the read happens later on an I/O thread
\* and is intact only while that fan-out round is still running.
LiveCopy(f) == f.read \/ (ppc # "idle" /\ pkt = f.p.n)

\* The completion handler of async_send_to, on an I/O thread: an error
\* tears the RtpConnect down.
UdpComplete(c) ==
    \E f \in udpFlight[c], ok \in UdpOutcomes :
        /\ udpFlight' = [udpFlight EXCEPT ![c] = @ \ {f}]
        /\ IF ok THEN \E intact \in IF LiveCopy(f) THEN {TRUE} ELSE BOOLEAN :
                         /\ udpRecv' = [udpRecv EXCEPT ![c] =
                                          Append(@, [p |-> f.p, intact |-> intact])]
                      /\ UNCHANGED rtp
                 ELSE /\ rtp' = [rtp EXCEPT ![c] = TearDown(@)]
                      /\ UNCHANGED udpRecv
        /\ UNCHANGED <<cur, clients, client_mutex, mtx, msg_que, bound, nreq, lpc, lconn,
                       ppc, pkt, snap, sock, stamped>>

-----------------------------------------------------------------------------
Init ==
    /\ clients = << >>
    /\ client_mutex = None /\ mtx = None
    /\ msg_que = << >>
    /\ rtp = [c \in Conns |-> None]
    /\ bound = [c \in Conns |-> FALSE]
    /\ nreq = [c \in Conns |-> 0]
    /\ lpc = "idle" /\ lconn = None
    /\ ppc = "idle" /\ pkt = 0 /\ snap = << >>
    /\ cur = None
    /\ udpFlight = [c \in Conns |-> {}]
    /\ sendQue = [c \in Conns |-> << >>]
    /\ wst = [c \in Conns |-> "none"]
    /\ wire = [c \in Conns |-> << >>]
    /\ torn = [c \in Conns |-> {}]
    /\ sent = [c \in Conns |-> << >>]
    /\ gone = [c \in Conns |-> FALSE]
    /\ cancelAt = [c \in Conns |-> None]
    /\ udpRecv = [c \in Conns |-> << >>]
    /\ stamped = [c \in Conns |-> << >>]

Logic ==
    \/ LogicSendPacket \/ LogicDescribe \/ LogicAddClient \/ LogicSetup
    \/ LogicPlay \/ LogicPlayRespond \/ LogicTeardown

Producer ==
    \/ SkipFrame \/ Snapshot \/ VisitClosed \/ VisitStamp \/ VisitUnarmed \/ VisitUdp
    \/ VisitTcp \/ PushPacket \/ EndRound

Next ==
    \/ \E c \in Conns : \/ ClientRequest(c) \/ Disconnect(c) \/ UdpComplete(c)
                       \/ WriteRest(c) \/ HandleWrite(c)
    \/ Logic
    \/ Producer

\* The logic and producer threads keep running while they can take the
\* lock they wait for; I/O completions are eventually delivered.  Clients
\* are not obliged to send anything.
Fairness ==
    /\ WF_vars(Logic) /\ WF_vars(Producer)
    /\ \A c \in Conns : WF_vars(UdpComplete(c)) /\ WF_vars(WriteRest(c))
                         /\ WF_vars(HandleWrite(c))

Spec == Init /\ [][Next]_vars /\ Fairness

-----------------------------------------------------------------------------
RtpState ==
    [setup : BOOLEAN, play : BOOLEAN, mode : {"none", "udp", "tcp"},
     hasKey : BOOLEAN, closed : BOOLEAN, seq : 0..65535]

TypeOK ==
    /\ clients \in Seq(Conns)
    /\ rtp \in [Conns -> RtpState \cup {None}]
    /\ pkt \in 0..NPkts
    /\ wst \in [Conns -> {"none", "caller", "copy", "written", "failed"}]
    /\ \A c \in Conns : \A i \in DOMAIN stamped[c] : stamped[c][i].seq \in 0..65535
    /\ cur \in [kind : {"rtp"}, n : 1..NPkts, seq : 0..65535 \cup {None}] \cup {None}

\* Spec 4.4: TCP-interleaved RTP is routed through the logic queue so that
\* it is ordered with the other traffic of the RTSP socket.  HandlePlay arms
\* the channel before it sends the PLAY response; the response must still
\* be on the wire before the first RTP packet.
PlayResponseFirst ==
    \A c \in Conns : \A i \in DOMAIN wire[c] :
        wire[c][i].kind = "rtp" => \E j \in 1..(i - 1) : wire[c][j] = Resp("PLAY")

\* Every interleaved packet SendRtpOverTcp pushes to the logic queue is
\* eventually written on its client's RTSP socket: DealMsg and the send
\* queue neither drop nor strand it, unless a write on that socket has
\* failed (HandleWrite then stops).
TcpDelivered ==
    \A c \in Conns : \A n \in 1..NPkts :
        (\E i \in DOMAIN msg_que : msg_que[i].kind = "pkt" /\ msg_que[i].conn = c
                                  /\ msg_que[i].p.n = n)
            ~> \/ \E j \in DOMAIN wire[c] : wire[c][j].kind = "rtp" /\ wire[c][j].n = n
               \/ wst[c] = "failed"

\* The RTSP socket carries the messages passed to RtspConnect::Send in
\* call order, each once, although Send runs on the logic thread and
\* HandleWrite on an I/O thread: at most one async_write is in progress.
WireInOrder == \A c \in Conns : IsPrefix(wire[c], sent[c])

\* Every byte sent to a client comes from live memory: neither the first
\* async_write of an idle RTSP socket nor an async_send_to of an RTP
\* datagram may outlive the buffer it was given.
SentIntact ==
    \A c \in Conns : /\ torn[c] = {}
                    /\ \A i \in DOMAIN udpRecv[c] : udpRecv[c][i].intact

\* Spec 5: TEARDOWN, or any error on the RTSP socket, marks the connection
\* closed, and a closed RtpConnect sends nothing (SendRtpPacket returns -1).
\* So no RTP packet is stamped for a client after the event that closes it.
CancelStopsMedia ==
    \A c \in Conns : cancelAt[c] # None => Len(stamped[c]) = cancelAt[c]

\* Spec 8: SendRtpPacket stamps the sequence number into every packet it
\* transmits.  The stamp (SetRtpHeader) and the send decision read is_play
\* separately and without a lock, so a PLAY on the logic thread between
\* the two must not let a packet out without its header.
RtpStamped ==
    \A c \in Conns :
        /\ \A i \in DOMAIN wire[c] : wire[c][i].kind = "rtp" => wire[c][i].seq # None
        /\ \A f \in udpFlight[c] : f.p.seq # None
        /\ \A i \in DOMAIN udpRecv[c] : udpRecv[c][i].p.seq # None

\* Every fan-out round ends: the producer never blocks forever inside the
\* send callback (spec 4.4: no blocking inside locks).
FanoutCompletes == (ppc # "idle") ~> (ppc = "idle")

\* Spec 4.3: delivery to the remaining recipients stops only when a
\* recipient fails.  So once a client is being served, every later packet
\* is stamped for it as long as it stays open: its packet numbers are the
\* contiguous range up to the last completed round.
PacketsContiguous ==
    \A c \in Conns :
        ppc = "idle" /\ stamped[c] # << >> /\ ~rtp[c].closed =>
            \A i \in DOMAIN stamped[c] : stamped[c][i].n = stamped[c][1].n + i - 1
                /\ Last(stamped[c]).n = pkt

=============================================================================

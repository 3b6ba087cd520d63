--------------------------- MODULE H264Packetizer ---------------------------
(***************************************************************************)
(* H264Source::HandleFrame (src/src/net/core/H264Source.cpp): one access   *)
(* unit (a NAL unit) is turned into a sequence of RTP payloads, either one *)
(* single-NAL packet or a run of FU-A fragments (RFC 6184, 5.8).  The      *)
(* packetizer is a pure function of the frame; it is written as operators *)
(* and checked against a reference depacketizer over every NAL unit of a  *)
(* bounded length.  The 4-byte TCP prefix and 12-byte RTP header regions  *)
(* of RtpPacket are left out: they are stamped later by RtpConnect.       *)
(***************************************************************************)
EXTENDS Integers, Sequences, SequencesExt, Bitwise

CONSTANTS
    MAX_RTP_PAYLOAD_SIZE, \* payload budget of one RTP packet (const.hpp)
    NalHeaders,           \* first bytes (forbidden|NRI|type) of the NAL units fed in
    PayloadBytes,         \* values of the remaining bytes
    MaxNalSize            \* bound on the length of a NAL unit

ASSUME MAX_RTP_PAYLOAD_SIZE >= 3          \* a fragment carries at least one byte
ASSUME NalHeaders \subseteq 0..255 /\ PayloadBytes \subseteq 0..255
ASSUME MaxNalSize >= 1

VARIABLES
    frame,   \* the AVFrame buffer last handed to HandleFrame
    sent     \* the packets HandleFrame passed to send_frame_cb_, in order

vars == <<frame, sent>>

\* The NAL units the frame producer can hand in (H264File::ReadFrame output).
Frames ==
    { <<h>> \o body : h \in NalHeaders, body \in BoundedSeq(PayloadBytes, MaxNalSize - 1) }

\* One RtpPacket as the packetizer fills it: payload bytes and the `last`
\* flag that RtpConnect copies into the RTP marker bit.
Packet(payload, last) == [payload |-> payload, last |-> last]

\* FU[0] = (frame_buf[0] & 0xE0) | 28 : F and NRI bits of the NAL, type 28.
FuIndicator(b0) == (b0 & 224) | 28

\* FU[1] = 0x80 | (frame_buf[0] & 0x1F) : start bit and the NAL type.
FuHeader(b0) == 128 | (b0 & 31)

\* The fragmentation loop and its final fragment.  `fu` is <<FU[0], FU[1]>>,
\* `rest` the bytes after the stripped NAL header.  While rest + 2 does not
\* fit, a full fragment of MAX-2 bytes is emitted and the start bit cleared
\* (FU[1] &= ~0x80); the remainder goes out with the end bit (FU[1] |= 0x40)
\* and last = 1.
RECURSIVE FragmentsSkipByte(_, _), FragmentsKeepStart(_, _), FragmentsGe(_, _)
\* Mutant: the next fragment starts one byte too far on, dropping a byte.
FragmentsSkipByte(fu, rest) ==
    IF Len(rest) + 2 > MAX_RTP_PAYLOAD_SIZE
    THEN << Packet(fu \o SubSeq(rest, 1, MAX_RTP_PAYLOAD_SIZE - 2), FALSE) >>
         \o FragmentsSkipByte(<< fu[1], fu[2] & 127 >>,
                              SubSeq(rest, MAX_RTP_PAYLOAD_SIZE, Len(rest)))
    ELSE << Packet(<< fu[1], fu[2] | 64 >> \o rest, TRUE) >>

\* Mutant: the start bit is never cleared after the first fragment.
FragmentsKeepStart(fu, rest) ==
    IF Len(rest) + 2 > MAX_RTP_PAYLOAD_SIZE
    THEN << Packet(fu \o SubSeq(rest, 1, MAX_RTP_PAYLOAD_SIZE - 2), FALSE) >>
         \o FragmentsKeepStart(fu, SubSeq(rest, MAX_RTP_PAYLOAD_SIZE - 1, Len(rest)))
    ELSE << Packet(<< fu[1], fu[2] | 64 >> \o rest, TRUE) >>

\* Mutant: the loop test `>=` instead of `>`.
FragmentsGe(fu, rest) ==
    IF Len(rest) + 2 >= MAX_RTP_PAYLOAD_SIZE
    THEN << Packet(fu \o SubSeq(rest, 1, MAX_RTP_PAYLOAD_SIZE - 2), FALSE) >>
         \o FragmentsGe(<< fu[1], fu[2] & 127 >>,
                        SubSeq(rest, MAX_RTP_PAYLOAD_SIZE - 1, Len(rest)))
    ELSE << Packet(<< fu[1], fu[2] | 64 >> \o rest, TRUE) >>

RECURSIVE Fragments(_, _)
Fragments(fu, rest) ==
    IF Len(rest) + 2 > MAX_RTP_PAYLOAD_SIZE
    THEN << Packet(fu \o SubSeq(rest, 1, MAX_RTP_PAYLOAD_SIZE - 2), FALSE) >>
         \o Fragments(<< fu[1], fu[2] & 127 >>,
                      SubSeq(rest, MAX_RTP_PAYLOAD_SIZE - 1, Len(rest)))
    ELSE << Packet(<< fu[1], fu[2] | 64 >> \o rest, TRUE) >>

\* The packets HandleFrame emits for one frame (the send callback of
\* MediaSession::AddSource always returns true, so no early return fires).
HandleFrame(f) ==
    IF Len(f) <= MAX_RTP_PAYLOAD_SIZE
    THEN << Packet(f, TRUE) >>
    ELSE Fragments(<< FuIndicator(f[1]), FuHeader(f[1]) >>, Tail(f))

-----------------------------------------------------------------------------
Init ==
    /\ frame = << >>
    /\ sent = << >>

\* The producer pushes a frame; HandleFrame runs to completion.
PushFrame(f) ==
    /\ frame' = f
    /\ sent' = HandleFrame(f)

Next == \E f \in Frames : PushFrame(f)

Spec == Init /\ [][Next]_vars

-----------------------------------------------------------------------------
(* Reference: the receiver side of RFC 6184.  A lone packet whose type is  *)
(* not 28 is the NAL unit itself; otherwise the NAL header is rebuilt from *)
(* the F/NRI bits of the indicator and the type bits of the FU header, and *)
(* the fragment bodies are concatenated.                                   *)
IsFuA(p) == (p.payload[1] & 31) = 28

Depacketize(ps) ==
    IF Len(ps) = 1 /\ ~IsFuA(ps[1])
    THEN ps[1].payload
    ELSE << (ps[1].payload[1] & 224) | (ps[1].payload[2] & 31) >>
         \o FlattenSeq([i \in DOMAIN ps |-> Tail(Tail(ps[i].payload))])

StartBit(p) == (p.payload[2] & 128) # 0
EndBit(p)   == (p.payload[2] & 64) # 0

CeilDiv(a, b) == (a + b - 1) \div b

\* A receiver that reassembles the packets of HandleFrame gets back exactly
\* the NAL unit that was handed in: no byte is lost, duplicated or moved by
\* the fragment loop, and the rebuilt NAL header equals the original one.
RoundTrip == frame # << >> => Depacketize(sent) = frame

\* FU-A framing of a fragmented unit: every packet is an FU-A packet, only
\* the first carries the start bit, only the last carries the end bit, and
\* the RTP marker (`last`) is set on the final packet and on no other.
FuFraming ==
    frame # << >> /\ Len(frame) > MAX_RTP_PAYLOAD_SIZE =>
        \A i \in DOMAIN sent :
            /\ IsFuA(sent[i])
            /\ StartBit(sent[i]) <=> i = 1
            /\ EndBit(sent[i]) <=> i = Len(sent)
            /\ sent[i].last <=> i = Len(sent)

\* Sizing: a unit that fits goes out as one marked packet; a larger one as
\* ceil((S-1)/(MAX-2)) fragments, every one within the payload budget and
\* every one but the last completely filled.
FragmentSizing ==
    frame # << >> =>
        /\ \A i \in DOMAIN sent : Len(sent[i].payload) <= MAX_RTP_PAYLOAD_SIZE
        /\ IF Len(frame) <= MAX_RTP_PAYLOAD_SIZE
           THEN Len(sent) = 1 /\ sent[1].last
           ELSE /\ Len(sent) = CeilDiv(Len(frame) - 1, MAX_RTP_PAYLOAD_SIZE - 2)
                /\ \A i \in 1..(Len(sent) - 1) :
                       Len(sent[i].payload) = MAX_RTP_PAYLOAD_SIZE
=============================================================================

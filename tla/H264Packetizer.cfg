\* FU-A packetizer over every NAL unit of 1..8 bytes with a 4-byte payload
\* budget: single packets, 2, 3 and 4 fragments, and the exact-fit case.
CONSTANTS
    MAX_RTP_PAYLOAD_SIZE = 4
    NalHeaders = {101, 65}
    PayloadBytes = {7, 200}
    MaxNalSize = 8
SPECIFICATION Spec
INVARIANT RoundTrip
INVARIANT FuFraming
INVARIANT FragmentSizing

----------------------------- MODULE UartFrames -----------------------------
(***************************************************************************)
(* The bytes of the UART link (docs/protocol.md).  The header is shortened *)
(* to magic, version and length; the type goes with the payload.  The CRC  *)
(* is one byte, of any value, the start byte's as well.  A byte knows      *)
(* which frame it was sent in and at which place: the CRC of a candidate   *)
(* is right exactly when the candidate is a frame as it was sent.          *)
(***************************************************************************)
EXTENDS Integers, Sequences

CONSTANTS
    Values,     \* what line noise may make of a byte
    FrameCount, \* bound: frames sent
    MaxPayload, \* PICO_UART_PROTOCOL_MAX_PAYLOAD
    Crc(_)      \* pico_uart_crc16 over the frame with this payload

\* Values that are not a length a frame may have.
Magic == MaxPayload + 1
Version == MaxPayload + 2

HeaderLen == 3
FrameLen(payloadLen) == HeaderLen + payloadLen + 1

Raw(payload) == <<Magic, Version, Len(payload)>> \o payload \o <<Crc(payload)>>

\* pico_uart_encode_frame, encode_frame
Encode(n, payload) ==
    [i \in 1..FrameLen(Len(payload)) |->
        [frame |-> n, at |-> i, last |-> i = FrameLen(Len(payload)), value |-> Raw(payload)[i]]]

Damaged(value) == [frame |-> 0, at |-> 0, last |-> FALSE, value |-> value]

\* The frames of a script (their payloads, each a sequence of byte values), one
\* after the other.
Stream(script) ==
    LET bytes[n \in 0..FrameCount] ==
            IF n = 0 THEN <<>> ELSE bytes[n - 1] \o Encode(n, script[n])
    IN  bytes[FrameCount]

CrcRight(candidate) ==
    /\ candidate[Len(candidate)].last
    /\ \A i \in DOMAIN candidate : candidate[i].frame = candidate[1].frame /\ candidate[i].at = i

=============================================================================

---------------------------- MODULE StreamDecoder ----------------------------
(***************************************************************************)
(* The Zero's IncrementalDecoder (zero/app/uart_protocol.py) on a stream   *)
(* that it may join in the middle of a frame, that line noise damages, and *)
(* that arrives in chunks of any size.  A candidate that fails costs one   *)
(* byte, and the search for a frame goes on behind it.                     *)
(***************************************************************************)
EXTENDS UartFrames, SequencesExt

CONSTANTS
    Sequences,  \* payloads of the frames the Pico sends
    MaxNoise    \* bound: bytes damaged or lost

\* pico_uart_encode_frame refuses a longer payload.
ASSUME SequenceAssumption ==
    /\ Values \subseteq Nat /\ FrameCount \in Nat /\ MaxPayload \in Nat
    /\ \A payloads \in Sequences : \A n \in 1..FrameCount :
           payloads[n] \in Seq(Nat) /\ Len(payloads[n]) =< MaxPayload /\ Crc(payloads[n]) \in Nat

VARIABLES
    sequence, line, \* what is sent, and the bytes still to arrive
    noise,          \* bytes damaged or lost so far
    buffer,         \* decoder._buffer
    frames,         \* frames returned so far
    errors,         \* errors noted so far
    fed             \* history: all bytes fed

sending == <<sequence, line, noise>>
decoder == <<buffer, frames, errors>>
decoderVars == <<sending, decoder, fed>>

-----------------------------------------------------------------------------
(* feed() *)

\* Fault: a candidate that fails is dropped whole.
RejectAll(bytes) == <<>>

\* _reject
Reject(bytes) == Tail(bytes)

Started(bytes) == bytes # <<>> /\ Head(bytes).value = Magic

LengthAllowed(bytes) == bytes[HeaderLen].value =< MaxPayload

HeaderRight(bytes) == bytes[2].value = Version /\ LengthAllowed(bytes)

Whole(bytes) == Len(bytes) >= FrameLen(bytes[HeaderLen].value)

\* The loop breaks: the rest of the header, or of the frame, is yet to come.
Waits(bytes) ==
    \/ bytes = <<>>
    \/ Started(bytes) /\ (Len(bytes) < HeaderLen \/ (HeaderRight(bytes) /\ ~Whole(bytes)))

\* One turn of the loop.  What is in front of the next magic byte goes byte by
\* byte; a turn that breaks changes nothing.
Turn(state) ==
    LET bytes == state.buffer
        length == FrameLen(bytes[HeaderLen].value)
    IN  IF Waits(bytes) THEN state
        ELSE IF ~Started(bytes) THEN [state EXCEPT !.buffer = Tail(bytes)]
        ELSE IF HeaderRight(bytes) /\ CrcRight(SubSeq(bytes, 1, length))
        THEN [state EXCEPT !.buffer = SubSeq(bytes, length + 1, Len(bytes)),
                           !.frames = Append(@, bytes[1].frame)]
        ELSE [state EXCEPT !.buffer = Reject(bytes), !.errors = @ + 1]

\* A turn that does not break takes a byte at least, so these are enough.
Decode(state) ==
    LET after[n \in 0..Len(state.buffer)] == IF n = 0 THEN state ELSE Turn(after[n - 1])
    IN  after[Len(state.buffer)]

Feed(n) ==
    LET data == SubSeq(line, 1, n)
        state == Decode([buffer |-> buffer \o data, frames |-> frames, errors |-> errors])
    IN  /\ line' = SubSeq(line, n + 1, Len(line))
        /\ fed' = fed \o data
        /\ buffer' = state.buffer /\ frames' = state.frames /\ errors' = state.errors
        /\ UNCHANGED <<sequence, noise>>

-----------------------------------------------------------------------------
(* The line. *)

Noise ==
    /\ noise < MaxNoise
    /\ noise' = noise + 1
    /\ \E i \in DOMAIN line :
          \/ line' = RemoveAt(line, i)
          \/ \E value \in Values : line' = [line EXCEPT ![i] = Damaged(value)]
    /\ UNCHANGED <<sequence, decoder, fed>>

\* A process that starts may open the port in the middle of anything.
DecoderInit ==
    /\ sequence \in Sequences
    /\ \E i \in 1..Len(Stream(sequence)) : line = SubSeq(Stream(sequence), i, Len(Stream(sequence)))
    /\ noise = 0 /\ buffer = <<>> /\ frames = <<>> /\ errors = 0 /\ fed = <<>>

DecoderNext == Noise \/ \E n \in 1..Len(line) : Feed(n)

DecoderSpec == DecoderInit /\ [][DecoderNext]_decoderVars

-----------------------------------------------------------------------------
(* Properties. *)

\* What is kept between two chunks is the start of one frame, never a whole
\* one, whatever the line makes of the length bytes.
DecoderTypeOK ==
    /\ buffer # <<>> => Head(buffer).value = Magic
    /\ Len(buffer) < FrameLen(MaxPayload)
    /\ errors \in Nat

\* How the serial port cuts the stream into chunks makes no difference.
ChunksDoNotMatter ==
    [buffer |-> buffer, frames |-> frames, errors |-> errors]
        = Decode([buffer |-> fed, frames |-> <<>>, errors |-> 0])

Within(n, bytes) ==
    LET whole == Encode(n, sequence[n])
    IN  \E i \in 0..(Len(bytes) - Len(whole)) : SubSeq(bytes, i + 1, i + Len(whole)) = whole

\* A frame that arrives as it was sent is returned, or waits in the buffer
\* for the end of what looks like a frame around it: junk before it, and
\* payloads that read like a header, never cost it.
IntactFramesSurvive ==
    /\ \A n \in 1..FrameCount : Within(n, fed) => n \in ToSet(frames) \/ Within(n, buffer)
    /\ \A i, j \in DOMAIN frames : i < j => frames[i] < frames[j]

\* On a line without noise, joined at the start of a frame, a frame is
\* returned as soon as its last byte is there, and nothing is rejected.
UpToDate ==
    noise = 0 /\ fed # <<>> /\ fed[1].at = 1 =>
        /\ errors = 0
        /\ \A n \in 1..FrameCount : Within(n, fed) => n \in ToSet(frames)

\* What the Zero is to get from its decoder, however the stream is cut, joined
\* and damaged.
FramesAreDecoded == DecoderTypeOK /\ ChunksDoNotMatter /\ IntactFramesSurvive /\ UpToDate

=============================================================================

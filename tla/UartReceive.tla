----------------------------- MODULE UartReceive -----------------------------
(***************************************************************************)
(* The Pico's receive path (pico/src/uart_transport.c): the UART interrupt *)
(* fills a byte ring with free-running counters while the main loop parses *)
(* it, puts the commands into a ring of their own, takes the fault and     *)
(* pops the commands.  The interrupt may run between any two steps, also   *)
(* between the read of a byte and the advance of the tail.                 *)
(***************************************************************************)
EXTENDS UartFrames

CONSTANTS
    Scripts,          \* payloads of the frames the Zero sends
    MaxTrouble,       \* bound: bytes damaged or lost
    RxCapacity,       \* PICO_UART_RX_RING_CAPACITY
    RxWrap,           \* 2^16: rx_head and rx_tail are uint16_t
    CommandCapacity,  \* PICO_UART_COMMAND_CAPACITY
    CommandWrap       \* 2^8: command_head and command_tail are uint8_t

ASSUME WrapAssumption ==
    /\ RxCapacity \in Nat \ {0} /\ RxWrap \in Nat /\ RxWrap % RxCapacity = 0 /\ RxWrap > RxCapacity
    /\ CommandCapacity \in Nat \ {0} /\ CommandWrap \in Nat
    /\ CommandWrap % CommandCapacity = 0 /\ CommandWrap > CommandCapacity

ASSUME LineAssumption ==
    /\ Values \subseteq Nat
    /\ {FrameCount, MaxPayload, MaxTrouble} \subseteq Nat
    /\ \A payloads \in Scripts : \A n \in 1..FrameCount :
           payloads[n] \in Seq(Nat) /\ Crc(payloads[n]) \in Nat

\* The encoder refuses a longer payload.
ASSUME ScriptAssumption ==
    \A payloads \in Scripts :
        DOMAIN payloads = 1..FrameCount /\ \A n \in 1..FrameCount : Len(payloads[n]) =< MaxPayload

VARIABLES
    script, wire,              \* what is sent, and the bytes still to arrive
    ring, head, tail,          \* rx_bytes, rx_head, rx_tail
    loop, byte,                \* what the main loop does next; the byte in hand
    parser,                    \* parser[0 .. parser_len)
    commands, cHead, cTail,    \* the command ring
    fault,                     \* fault_pending
    rxOverflow, cmdOverflow,   \* stats.rx_overflow, stats.command_overflow
    delivered,                 \* history: the frames handed to the main loop
    faults,                    \* history: a fault was ever latched
    damage                     \* history: places of bytes damaged or lost

sender == <<script, wire, damage>>
rx == <<ring, head, tail, rxOverflow>>
commandRing == <<commands, cHead, cTail, cmdOverflow>>
latch == <<fault, faults>>
receiveVars == <<sender, rx, loop, byte, parser, commandRing, latch, delivered>>

NoByte == Damaged(-1)

LatchIf(condition) ==
    /\ fault' = (fault \/ condition)
    /\ faults' = (faults \/ condition)

-----------------------------------------------------------------------------
(* The interrupt. *)

\* Fault: the difference is not narrowed to the width of the counters.
InRingUncast == head - tail

InRing == (head - tail) % RxWrap

\* pico_uart_transport_rx_push_isr, after the error bits were looked at.
Push(new, error) ==
    IF InRing >= RxCapacity
    THEN /\ rxOverflow' = rxOverflow + 1
         /\ LatchIf(TRUE)
         /\ UNCHANGED <<ring, head, tail>>
    ELSE /\ ring' = [ring EXCEPT ![head % RxCapacity] = new]
         /\ head' = (head + 1) % RxWrap
         /\ LatchIf(error)
         /\ UNCHANGED <<tail, rxOverflow>>

Interrupt ==
    /\ wire # <<>>
    /\ wire' = Tail(wire)
    /\ UNCHANGED <<script, loop, byte, parser, commandRing, delivered>>

ByteArrives == Interrupt /\ Push(Head(wire), FALSE) /\ UNCHANGED damage

\* Line noise changes a byte, and is noticed as a framing error or not.
ByteDamaged ==
    /\ Interrupt
    /\ Len(damage) < MaxTrouble
    /\ damage' = Append(damage, Head(wire))
    /\ \E value \in Values, error \in BOOLEAN : Push(Damaged(value), error)

ByteLost ==
    /\ Interrupt
    /\ Len(damage) < MaxTrouble
    /\ damage' = Append(damage, Head(wire))
    /\ UNCHANGED <<rx, latch>>

-----------------------------------------------------------------------------
(* pico_uart_transport_poll *)

ReadByte ==
    /\ loop = "poll" /\ byte = NoByte
    /\ tail # head
    /\ byte' = ring[tail % RxCapacity]
    /\ UNCHANGED <<sender, rx, loop, parser, commandRing, latch, delivered>>

Queued == (cHead - cTail) % CommandWrap

CommandsFull == Queued >= CommandCapacity

\* Fault: a candidate that fails is dropped and not noted.
DiscardQuietly == parser' = <<>> /\ UNCHANGED <<latch, commandRing>>

\* note_decode_error
Discard == parser' = <<>> /\ LatchIf(TRUE) /\ UNCHANGED commandRing

\* enqueue_command
Enqueue(frame) ==
    /\ parser' = <<>>
    /\ IF CommandsFull
       THEN cmdOverflow' = cmdOverflow + 1 /\ LatchIf(TRUE) /\ UNCHANGED <<commands, cHead, cTail>>
       ELSE /\ commands' = [commands EXCEPT ![cHead % CommandCapacity] = frame]
            /\ cHead' = (cHead + 1) % CommandWrap
            /\ UNCHANGED <<cTail, cmdOverflow, latch>>

\* Fault: the version is looked at when the frame is complete.
BadVersionAtTheEnd(bytes) ==
    /\ Len(bytes) >= HeaderLen
    /\ Len(bytes) >= FrameLen(bytes[HeaderLen].value)
    /\ bytes[2].value # Version

BadVersion(bytes) == Len(bytes) = 2 /\ bytes[2].value # Version

BadLength(bytes) == Len(bytes) = HeaderLen /\ bytes[HeaderLen].value > MaxPayload

Complete(bytes) == Len(bytes) >= HeaderLen /\ Len(bytes) = FrameLen(bytes[HeaderLen].value)

\* A first byte that is not the magic one is noted and skipped; a candidate
\* that fails is dropped whole.
Parse(bytes) ==
    IF bytes[1].value # Magic \/ BadVersion(bytes) \/ BadLength(bytes)
    THEN Discard
    ELSE IF ~Complete(bytes) THEN parser' = bytes /\ UNCHANGED <<commandRing, latch>>
    ELSE IF CrcRight(bytes) THEN Enqueue(bytes[1].frame)
    ELSE Discard

AdvanceAndParse ==
    /\ byte # NoByte
    /\ byte' = NoByte
    /\ tail' = (tail + 1) % RxWrap
    /\ Parse(Append(parser, byte))
    /\ UNCHANGED <<sender, ring, head, rxOverflow, loop, delivered>>

PollDone ==
    /\ loop = "poll" /\ byte = NoByte /\ tail = head
    /\ loop' = "fault"
    /\ UNCHANGED <<sender, rx, byte, parser, commandRing, latch, delivered>>

\* take_fault exchanges the latch with false.
TakeFault ==
    /\ loop = "fault"
    /\ loop' = "dispatch"
    /\ fault' = FALSE
    /\ UNCHANGED <<sender, rx, byte, parser, commandRing, faults, delivered>>

PopCommand ==
    /\ loop = "dispatch"
    /\ cTail # cHead
    /\ delivered' = Append(delivered, commands[cTail % CommandCapacity])
    /\ cTail' = (cTail + 1) % CommandWrap
    /\ UNCHANGED <<sender, rx, loop, byte, parser, commands, cHead, cmdOverflow, latch>>

DispatchDone ==
    /\ loop = "dispatch" /\ cTail = cHead
    /\ loop' = "poll"
    /\ UNCHANGED <<sender, rx, byte, parser, commandRing, latch, delivered>>

ReceiveInit ==
    /\ script \in Scripts /\ wire = Stream(script) /\ damage = <<>>
    /\ ring = [i \in 0..(RxCapacity - 1) |-> NoByte] /\ head = 0 /\ tail = 0 /\ rxOverflow = 0
    /\ commands = [i \in 0..(CommandCapacity - 1) |-> 0]
    /\ cHead = 0 /\ cTail = 0 /\ cmdOverflow = 0
    /\ loop = "poll" /\ byte = NoByte /\ parser = <<>> /\ delivered = <<>>
    /\ fault = FALSE /\ faults = FALSE

ReceiveNext ==
    \/ ByteArrives \/ ByteDamaged \/ ByteLost
    \/ ReadByte \/ AdvanceAndParse \/ PollDone \/ TakeFault \/ PopCommand \/ DispatchDone

ReceiveSpec == ReceiveInit /\ [][ReceiveNext]_receiveVars

-----------------------------------------------------------------------------
(* Properties. *)

ReceiveTypeOK ==
    /\ InRing \in 0..RxCapacity
    /\ Queued \in 0..CommandCapacity
    /\ Len(parser) < FrameLen(MaxPayload)
    /\ head \in 0..(RxWrap - 1) /\ tail \in 0..(RxWrap - 1)

\* Both rings are first in, first out and refuse an item only when they are
\* full, through any number of wraps of their counters and with the interrupt
\* between any two steps of the main loop.
InOrder(array, first, count, capacity) == [i \in 1..count |-> array[(first + i - 1) % capacity]]

Received == InOrder(ring, tail, InRing, RxCapacity)

ToDispatch == InOrder(commands, cTail, Queued, CommandCapacity)

RxFifo == INSTANCE BoundedFifo WITH
    items <- Received, refused <- rxOverflow, Capacity <- RxCapacity

CommandFifo == INSTANCE BoundedFifo WITH
    items <- ToDispatch, refused <- cmdOverflow, Capacity <- CommandCapacity

RxRingKept == RxFifo!Spec
CommandRingKept == CommandFifo!Spec
RingsKept == RxRingKept /\ CommandRingKept

\* A command is never lost in silence: once everything has been received, all
\* commands were delivered, or a fault was latched, or the parser still waits
\* for the rest of a frame.
Quiescent == wire = <<>> /\ tail = head /\ byte = NoByte /\ cTail = cHead

NoSilentLoss ==
    Quiescent => \/ delivered = [i \in 1..FrameCount |-> i]
                 \/ faults \/ parser # <<>>

\* What is delivered was sent, in that order, each once, whatever happened to
\* the bytes and whichever rings have overflowed.
DeliveredInOrder == \A i, j \in DOMAIN delivered : i < j => delivered[i] < delivered[j]

\* A command arrives in its place, or its loss is noticed, and no ring holds
\* more than it has room for.
CommandsAccountedFor == ReceiveTypeOK /\ DeliveredInOrder /\ NoSilentLoss

\* A damaged version costs the one frame it is in: what follows is received
\* (uart_transport.c, "could consume a following valid frame"), unless the rest
\* of that frame holds a start byte: a candidate that begins in its payload or
\* with its CRC takes bytes of the frame behind it, and costs that one, too.
LooksPlain(payload) == Crc(payload) # Magic /\ \A i \in DOMAIN payload : payload[i] # Magic
VersionDamaged == Len(damage) = 1 /\ damage[1].at = 2

DamageCostsOneFrame ==
    /\ Quiescent /\ rxOverflow + cmdOverflow = 0
    /\ VersionDamaged /\ LooksPlain(script[damage[1].frame])
    =>
        \A n \in 1..FrameCount : n # damage[1].frame => \E i \in DOMAIN delivered : delivered[i] = n

=============================================================================

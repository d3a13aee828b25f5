---------------------------- MODULE UartProtocol ----------------------------
(***************************************************************************)
(* The version-2 wire vocabulary shared by the Pico firmware and the Pi    *)
(* Zero: modes, reasons, message types, encoded frame sizes, and the state *)
(* guard of the queue commands (pico/include/uart_protocol.h and           *)
(* pico/src/uart_protocol.c).  A frame is abstracted to its type and the   *)
(* payload fields some state machine branches on; magic, version and CRC   *)
(* are what turns a damaged frame into a latched fault and are left to the *)
(* receiving transport.                                                    *)
(***************************************************************************)
EXTENDS Naturals

CONSTANT Reports     \* the 8-byte Boot Keyboard reports, up to renaming

Modes == {"PASS", "RECORD", "ARMED", "PLAYING", "ERROR"}

\* The only modes MODE_SET may ask for: values up to PICO_UART_MODE_ARMED.
SettableModes == {"PASS", "RECORD", "ARMED"}

Reasons == {"OK", "INVALID_TRANSITION", "INVALID_TARGET", "PROTOCOL_ERROR",
            "UART_FAULT", "ABORTED", "UNDERRUN", "FINISHED"}

(***************************************************************************)
(* Payload bytes of each Pico-to-Zero message.  ERROR (0x09) is reserved:  *)
(* the firmware never sends it.                                            *)
(***************************************************************************)
PayloadLen ==
    [RECORD_EVENT  |-> 17, PICO_STATUS   |->  5, BUFFER_STATUS |-> 5,
     PLAY_READY    |->  0, PLAY_STARTED  |->  8, PLAY_FINISHED |-> 0,
     PLAY_ABORTED  |->  0, PLAY_UNDERRUN |-> 10, PONG          |-> 0,
     MODE_CHANGED  |->  2, PLAY_METRICS  |-> 33]

PicoToZero == DOMAIN PayloadLen

\* Magic, version, type, two length bytes and two CRC bytes around the payload.
FrameBytes(type) == 7 + PayloadLen[type]

QueueCommands == {"QUEUE_CLEAR", "QUEUE_EVENT", "QUEUE_END"}

(***************************************************************************)
(* Every well-formed Zero-to-Pico command.  A MODE_SET target outside      *)
(* SettableModes is well formed: the mode machine answers it.              *)
(***************************************************************************)
Commands ==
    [type : {"MODE_SET"}, target : Modes]
        \cup [type : {"QUEUE_EVENT"}, report : Reports]
        \cup [type : {"QUEUE_CLEAR", "QUEUE_END", "PLAY_START", "PLAY_ABORT",
                      "STATUS_REQUEST", "PING"}]

QueueCommandAllowed(type, state) ==
    \/ type = "QUEUE_CLEAR" /\ state = "ARMED"
    \/ type \in {"QUEUE_EVENT", "QUEUE_END"} /\ state \in {"ARMED", "PLAYING"}

(***************************************************************************)
(* Frames with the payload fields that matter.                             *)
(***************************************************************************)
ModeChanged(state, reason) ==
    [type |-> "MODE_CHANGED", state |-> state, reason |-> reason]

BufferStatus(state, free) ==
    [type |-> "BUFFER_STATUS", state |-> state, free |-> free]

PlayUnderrun(free) == [type |-> "PLAY_UNDERRUN", free |-> free]

RecordEvent(report) == [type |-> "RECORD_EVENT", report |-> report]

PicoStatus(state) == [type |-> "PICO_STATUS", state |-> state]

Plain(type) == [type |-> type]

=============================================================================

-------------------------------- MODULE MCUart --------------------------------
(***************************************************************************)
(* Both receiving ends of the UART link: the Pico's UartReceive and the    *)
(* Zero's StreamDecoder share the form of the bytes (UartFrames) and no    *)
(* state, so in each behaviour one of them runs.  Among the frames are     *)
(* some whose payload reads like the start of a shorter or a longer one,   *)
(* and one whose CRC is the start byte.                                    *)
(***************************************************************************)
EXTENDS UartReceive, StreamDecoder

VARIABLE end    \* the end that runs

uartVars == <<end, receiveVars, decoderVars>>

MCCrc(payload) == IF payload = <<1>> THEN Magic ELSE Len(payload)

MCScripts == {<<<<>>, <<1>>, <<>>>>, <<<<Magic, Version, 1>>, <<>>, <<>>>>}
MCSequences == {<<<<>>, <<1>>, <<>>>>, <<<<>>, <<Magic, Version, 3>>, <<>>>>,
                <<<<Magic, Version, 1>>, <<Magic, Version, 2>>, <<1>>>>}
MCValues == {0, MaxPayload, Magic, Version}

Shortest == <<<<>>, <<1>>, <<>>>>

UartInit ==
    /\ ReceiveInit /\ DecoderInit
    /\ \/ end = "pico" /\ sequence = Shortest /\ line = Stream(Shortest)
       \/ end = "zero" /\ script = Shortest

UartNext ==
    \/ end = "pico" /\ ReceiveNext /\ UNCHANGED <<end, decoderVars>>
    \/ end = "zero" /\ DecoderNext /\ UNCHANGED <<end, receiveVars>>

UartSpec == UartInit /\ [][UartNext]_uartVars

===============================================================================

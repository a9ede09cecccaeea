------------------------------- MODULE MCUart -------------------------------
(***************************************************************************)
(* UartLink with scaled-down payloads.  Towards the vehicle the ratio of   *)
(* the longest payload (28 bytes, here 6) to the shortest frame (20 bytes, *)
(* here 5) is such that a false header touches two frames, as with the     *)
(* real sizes; towards the host a status header (255 bytes, here 15; the   *)
(* shortest frame 20 bytes, here 6) touches three (thirteen).              *)
(***************************************************************************)
EXTENDS UartLink, TLC, Bitwise

CommandLens == (1 :> {1}) @@ (2 :> {2}) @@ (3 :> {6})

\* Type 6 is the status, of any length a byte of the line can announce.
TelemetryLens == CommandLens @@ (4 :> {3}) @@ (6 :> 0..15)

Lens == ("bot" :> CommandLens) @@ ("host" :> TelemetryLens)

Packet(t, p) == [type |-> t, payload |-> p]

\* To the vehicle commands and a pose, to the host a telemetry packet and a
\* status, and a status that send_frame drops.  Some hold a Sync and half a
\* header; two end in a Sync and a check byte that is a type (3 and 6), so that
\* these are not harmless.
SentFrames ==
    ("bot" :> {Packet(1, <<7>>), Packet(2, <<165, 1>>), Packet(2, <<102, 165>>),
               Packet(3, <<0, 1, 165, 1, 3, 6>>)})
    @@ ("host" :> {Packet(4, <<1, 165, 3>>), Packet(6, <<7, 2>>),
                   Packet(6, <<14, 165>>), Packet(6, <<1, 1, 1, 1, 1, 1, 1, 1>>)})

LineBytes == {0, 1, 2, 3, 6, 7, 15, 165}

\* Xor8 is the exclusive or of the bits.
ASSUME XorIsBitwise == \A a, b \in Byte : Xor8(a, b) = a ^^ b
=============================================================================

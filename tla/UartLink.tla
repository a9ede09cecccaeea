------------------------------ MODULE UartLink ------------------------------
(***************************************************************************)
(* The UART link in both directions: the framing automaton of uart_link.c  *)
(* at the vehicle and its mirror of uart_sniff.py at the host, fed one     *)
(* byte at a time by a line that may lose, damage or invent bytes.         *)
(*                                                                         *)
(* A frame is [Sync][type][len][payload][crc].  The vehicle accepts the    *)
(* command types, the host all types; each type has one length, except     *)
(* the status string, of which the host accepts any.  The read timeout     *)
(* (100 ms, 500 ms) is not an action: it leaves the automaton as it is, so *)
(* a pause on the line does not end a frame that was cut short.            *)
(***************************************************************************)
EXTENDS Crc8, FiniteSetsExt

CONSTANTS
    Sync,           \* UGV_UART_SYNC
    Ends,           \* the receivers: "bot" and "host"
    PayloadLen,     \* receiver -> accepted type -> the payload sizes accepted
    MaxPayload,     \* UART_MAX_PAYLOAD
    Frames,         \* receiver -> the frames it is sent
    Bytes,          \* the byte values a disturbance may produce
    Faults,         \* the disturbances of the line: "lose" "damage" "invent"
    MaxFaults,      \* bound of the model: how many disturbances there are
    NoFrame

Encode(f) ==
    LET body == <<f.type, Len(f.payload)>> \o f.payload
    IN  <<Sync>> \o body \o <<crc8(body)>>

\* The payload sizes that a receiver accepts.
Sizes(e) == UNION {PayloadLen[e][t] : t \in DOMAIN PayloadLen[e]}

\* A type and a size are one byte each; a command fits the buffer.  Sync is no
\* accepted type, and only among longer sizes (of a status) an accepted size.
ASSUME SizesAssumption ==
    /\ Ends \subseteq {"bot", "host"}
    /\ Sync \in Byte
    /\ MaxPayload \in Nat
    /\ \A e \in Ends :
          /\ DOMAIN PayloadLen[e] \subseteq Byte
          /\ Sizes(e) \subseteq Byte
          /\ e = "bot" => Sizes(e) \subseteq 0..MaxPayload
          /\ Sync \notin DOMAIN PayloadLen[e]
          /\ Sync \in Sizes(e) => \E n \in Sizes(e) : Sync < n

\* The frames sent: of an accepted type and its length, whatever the payload.
ASSUME FramesAssumption ==
    /\ \A e \in Ends :
          /\ Frames[e] # {}
          /\ \A f \in Frames[e] :
                /\ f \in [type: DOMAIN PayloadLen[e], payload: Seq(Byte)]
                /\ f # NoFrame
                /\ Len(f.payload) \in PayloadLen[e][f.type]
    /\ Bytes \subseteq Byte
    /\ Faults \subseteq {"lose", "damage", "invent"}
    /\ MaxFaults \in Nat

\* Nothing is escaped: a payload, a size or a check byte may be equal to Sync,
\* and a receiver that is out of step takes it for the first byte of a frame.
\* The harmless frames are those in which what follows such a byte, within the
\* frame, is no type that the receiver accepts or no size of it.
Harmless ==
    [e \in Ends |->
        {f \in Frames[e] :
            LET w == Encode(f)
            IN  \A i \in 2..Len(w) : w[i] = Sync =>
                    \/ i + 1 <= Len(w) /\ w[i + 1] \notin DOMAIN PayloadLen[e]
                    \/ /\ i + 2 <= Len(w)
                       /\ w[i + 1] \in DOMAIN PayloadLen[e]
                       /\ w[i + 2] \notin PayloadLen[e][w[i + 1]]}]

VARIABLES
    end,        \* which receiver this behaviour is about
    rx,         \* its state, cur_type, cur_len and payload[0..payload_idx-1]
    wire,       \* what is still to come of the frame being sent
    sent,       \* the frame being (or last) sent
    got,        \* what was dispatched since that frame began
    intact,     \* history: no disturbance since that frame began
    lost,       \* history: harmless intact frames in a row, before this one,
                \* that were not dispatched
    faults      \* how many disturbances there were

vars == <<end, rx, wire, sent, got, intact, lost, faults>>

Init ==
    /\ end \in Ends
    /\ rx = [st |-> "ST_WAIT_SYNC", type |-> 0, len |-> 0, payload |-> <<>>]
    /\ wire = <<>>
    /\ sent = NoFrame
    /\ got = NoFrame
    /\ intact = FALSE
    /\ lost = 0
    /\ faults = 0

-----------------------------------------------------------------------------
(***************************************************************************)
(* The automaton, one of its states per operator.                          *)
(***************************************************************************)

\* expected_payload_len, SIZE_BY_TYPE.
Lengths == PayloadLen[end]

Goto(r, st) == [r EXCEPT !.st = st]

WaitSync(r, b) == IF b = Sync THEN Goto(r, "ST_READ_TYPE") ELSE r

\* A type that is not accepted sends the automaton back, and the byte is not
\* looked at again, even if it is a Sync.
ReadType(r, b) ==
    IF b \in DOMAIN Lengths
    THEN [Goto(r, "ST_READ_LEN") EXCEPT !.type = b]
    ELSE Goto(r, "ST_WAIT_SYNC")

Collect(r, n) ==
    [Goto(r, IF n > 0 THEN "ST_READ_PAYLOAD" ELSE "ST_READ_CRC") EXCEPT !.len = n]

\* Mutant: payload_idx is not reset.
ReadLenKeepingPayload(r, b) ==
    IF b \in Lengths[r.type] THEN Collect(r, b) ELSE Goto(r, "ST_WAIT_SYNC")

ReadLen(r, b) ==
    IF b \in Lengths[r.type]
    THEN [Collect(r, b) EXCEPT !.payload = <<>>]
    ELSE Goto(r, "ST_WAIT_SYNC")

\* Mutant: one byte more than the payload.
ReadPayloadAndOne(r, b) ==
    LET p == Append(r.payload, b)
    IN  [r EXCEPT !.payload = p,
                  !.st = IF Len(p) > r.len THEN "ST_READ_CRC" ELSE r.st]

ReadPayload(r, b) ==
    LET p == Append(r.payload, b)
    IN  [r EXCEPT !.payload = p,
                  !.st = IF Len(p) >= r.len THEN "ST_READ_CRC" ELSE r.st]

ReadCrc(r) == Goto(r, "ST_WAIT_SYNC")

RxByte(r, b) ==
    CASE r.st = "ST_WAIT_SYNC"    -> WaitSync(r, b)
      [] r.st = "ST_READ_TYPE"    -> ReadType(r, b)
      [] r.st = "ST_READ_LEN"     -> ReadLen(r, b)
      [] r.st = "ST_READ_PAYLOAD" -> ReadPayload(r, b)
      [] r.st = "ST_READ_CRC"     -> ReadCrc(r)

\* Mutant: the check byte is not looked at.
AcceptsAny(r, b) == r.st = "ST_READ_CRC"

\* The byte b ends a frame whose check byte fits: the vehicle calls dispatch,
\* the host prints the packet.
Accepts(r, b) ==
    /\ r.st = "ST_READ_CRC"
    /\ b = crc8(<<r.type, r.len>> \o r.payload)

Receive(b) ==
    /\ rx' = RxByte(rx, b)
    /\ got' = IF Accepts(rx, b)
              THEN [type |-> rx.type, payload |-> rx.payload] ELSE got

-----------------------------------------------------------------------------
(***************************************************************************)
(* The sender and the line.                                                *)
(***************************************************************************)

\* A harmless frame that nothing disturbed is, or is to be, dispatched.
Missed == intact /\ got = NoFrame /\ sent \in Harmless[end]

\* send_frame, which drops what is too long for its buffer, and the frames the
\* host's tools write, which never are.
SendFrame(f) ==
    /\ wire = <<>>
    /\ Len(f.payload) <= MaxPayload
    /\ wire' = Encode(f)
    /\ sent' = f
    /\ got' = NoFrame
    /\ intact' = TRUE
    /\ lost' = IF Missed THEN lost + 1 ELSE 0
    /\ UNCHANGED <<end, rx, faults>>

Deliver ==
    /\ wire # <<>>
    /\ Receive(Head(wire))
    /\ wire' = Tail(wire)
    /\ UNCHANGED <<end, sent, intact, lost, faults>>

Disturbed(kind) ==
    /\ kind \in Faults
    /\ faults < MaxFaults
    /\ faults' = faults + 1
    /\ intact' = FALSE
    /\ lost' = 0
    /\ UNCHANGED <<end, sent>>

Lose ==
    /\ wire # <<>>
    /\ Disturbed("lose")
    /\ wire' = Tail(wire)
    /\ UNCHANGED <<rx, got>>

Damage(b) ==
    /\ wire # <<>>
    /\ b # Head(wire)
    /\ Disturbed("damage")
    /\ Receive(b)
    /\ wire' = Tail(wire)

Invent(b) ==
    /\ Disturbed("invent")
    /\ Receive(b)
    /\ UNCHANGED wire

Next ==
    \/ \E f \in Frames[end] : SendFrame(f)
    \/ Deliver
    \/ Lose
    \/ \E b \in Bytes : Damage(b) \/ Invent(b)

Spec == Init /\ [][Next]_vars

-----------------------------------------------------------------------------
Frame == [type: DOMAIN Lengths, payload: Seq(Byte)]

\* The payload collected never outgrows the length announced, nor, at the
\* vehicle, the buffer that payload[payload_idx++] writes to.
TypeOK ==
    /\ end \in Ends
    /\ rx.st \in {"ST_WAIT_SYNC", "ST_READ_TYPE", "ST_READ_LEN",
                  "ST_READ_PAYLOAD", "ST_READ_CRC"}
    /\ rx.st \in {"ST_READ_LEN", "ST_READ_PAYLOAD", "ST_READ_CRC"}
          => rx.type \in DOMAIN Lengths
    /\ rx.payload \in Seq(Byte)
    /\ rx.st = "ST_READ_PAYLOAD" => Len(rx.payload) < rx.len
    /\ rx.st = "ST_READ_CRC" => Len(rx.payload) = rx.len
    /\ end = "bot" => Len(rx.payload) <= MaxPayload
    /\ wire \in Seq(Byte)
    /\ sent \in Frame \cup {NoFrame}
    /\ got \in Frame \cup {NoFrame}
    /\ intact \in BOOLEAN
    /\ lost \in Nat
    /\ faults \in 0..MaxFaults

\* The longest payload a header can announce, and the shortest frame sent.
Longest == Max(Sizes(end))
Shortest == Min({Len(f.payload) + 4 : f \in Frames[end]})

\* The frames that a false header, which swallows Longest + 1 bytes, can touch.
LossBound == (Longest + Shortest) \div Shortest

(***************************************************************************)
(* However the line was disturbed, and although neither a pause nor a      *)
(* mismatch makes a receiver look at a byte twice, it loses at most        *)
(* LossBound undisturbed frames in a row before it accepts one again: two  *)
(* at the vehicle, more at the host, where a damaged status header         *)
(* announces what length it will.  That is so for frames that harbour no   *)
(* false header; one that does (a check byte equal to Sync is enough) ends *)
(* the row, as it can put a receiver that is out of step there again.      *)
(***************************************************************************)
LossBounded ==
    lost + (IF Missed /\ wire = <<>> THEN 1 ELSE 0) <= LossBound

(***************************************************************************)
(* After one lost, damaged or invented byte a receiver only ever accepts   *)
(* the frame being sent, and only once its last byte has arrived (or an    *)
(* invented byte in its place, which is then the last but one): nothing    *)
(* damaged is believed, nothing is dispatched twice.  One damaged byte     *)
(* never makes a false frame of types that have one size (OneDamagedByte   *)
(* in UartLink_proofs).  For the rest it is a property of the instance's   *)
(* frames as well: two damaged bytes can make a false frame whose check    *)
(* byte fits, and so can one, if the bytes a displaced header or a changed *)
(* status length spans happen to end in their check byte.                  *)
(***************************************************************************)
NoForgery ==
    faults <= 1 /\ got # NoFrame =>
        /\ got = sent
        /\ Len(wire) <= (IF "invent" \in Faults THEN 1 ELSE 0)

(***************************************************************************)
(* The bytewise loop of crc8, for every payload a receiver can have        *)
(* collected, computes the remainder of the message, shifted by eight      *)
(* bits, modulo the documented polynomial 0x07 with initial value 0.       *)
(***************************************************************************)
IsPolynomialRemainder ==
    rx.st = "ST_READ_CRC" => crc8(rx.payload) = Remainder(Dividend(rx.payload))
=============================================================================

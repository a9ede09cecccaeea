SPECIFICATION Spec
CONSTANTS
    Sync = 165
    NoFrame = NoFrame
    MaxFaults = 2
    Faults = {"lose", "damage", "invent"}
    Ends = {"bot", "host"}
    MaxPayload = 7
    PayloadLen <- Lens
    Frames <- SentFrames
    Bytes <- LineBytes
INVARIANTS
    TypeOK
    LossBounded
    NoForgery
    IsPolynomialRemainder

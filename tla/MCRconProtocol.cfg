SPECIFICATION Spec
CONSTANTS
    MaxPacket = 12
    Ids <- MCIds
    Payloads <- MCPayloads
    Garbage <- MCGarbage
    MaxSent = 2
INVARIANTS
    PacketsSurvive
    ErrorsAreReal
    NothingIsStuck
CHECK_DEADLOCK FALSE

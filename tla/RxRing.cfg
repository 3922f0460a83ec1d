SPECIFICATION FairSpec
CONSTANTS
    RX_FRAME_NR = 3
    NumPackets = 8
INVARIANTS
    IInv
    FrameHasOneOwner
    EveryPacketCounted
PROPERTIES
    ImplementsFifo
    AllPacketsParsed
CHECK_DEADLOCK FALSE

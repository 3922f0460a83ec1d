SPECIFICATION Spec
CONSTANTS
    Orders = {o1, o2, o3}
    PacketLen = 3
    NoOrder = NoOrder
INVARIANTS
    BytesAccountedFor
CHECK_DEADLOCK FALSE

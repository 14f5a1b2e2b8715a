SPECIFICATION MsgSpec
CONSTANTS
    Gates = {4}
    EffectiveSlot <- MCEffective
    LegacyStarts <- MCLegacy
    FirstSlot = 75
    LastSlot = 240
    Stride = 15
    Windows = {}
    Messages <- MCMessages
    RecordSizes = {1, 2}
    MaxOrderId = 5
    MaxOpenOrders = 3
    Collateral = 2
CHECK_DEADLOCK FALSE
INVARIANT BundleIsWhole

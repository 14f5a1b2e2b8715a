CONSTANTS
    taker = taker
    maker = maker
    Users <- MCUsers
    Requests <- MCLateRequests
    Bases <- MCBases
    MaxOrderId <- MCMaxOrderId
    Distressed = {taker}
    Slots = 2
    MaxAmount = 2
    MaxBase = 2
    MaxTime = 2
SPECIFICATION PlacingSpec
CHECK_DEADLOCK FALSE
PROPERTY
    PlaceAndMakeClosesOnlyItsOrder

\* A plan changed after its reduction has come due.
SPECIFICATION SeatSpec
CONSTANTS
    Colleagues = {c1, c2}
    Included = 1
    SelfServeMax = 2
    LegacySeats = 0
    NoChange = NoChange
INVARIANTS
    SeatsArePaidFor

\* Three colleagues, at most two additional seats, one of which may be carried over
\* from the old plan.  A fortnight is a day, and so the thirty days of a fresh profile
\* and of a link are two: two recruiters, two stages of reminders; the profile is
\* hidden on the day the second is due, and a link outlives a question.
\* No symmetry, since liveness is checked.
SPECIFICATION CalendarSpec
CONSTANTS
    Colleagues = {c1, c2, c3}
    Included = 1
    SelfServeMax = 2
    LegacySeats = 1
    NoChange = NoChange
    Recruiters = {r1, r2}
    Reminders = {2, 3}
    FreshDays = 2
    HideDays = 3
    TokenDays = 2
    CheckDays = 1
    MaxRestarts = 1
INVARIANTS
    SeatsAreSound
    FreshIsSound
    NotRemindedTwice
PROPERTIES
    PaidMonthIsKept
    NewestGoFirst
    ReductionComesDue
    SilenceEnds

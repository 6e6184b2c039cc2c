SPECIFICATION Spec
CONSTANTS
    a = a  b = b  r1 = r1  r2 = r2  o1 = o1  o2 = o2
    None = None
    Rosters <- TwoRosters
    Users <- TwoUsers
    OverrideIds <- TwoOverrides
    PerDay = 4
    Foundings <- Mixed
    Updates <- ToThursday
    Froms <- FromWednesday
    Ahead = 2
    Duties <- EitherOne
    Edits <- ByHand
    Shapes <- Covers
    Timestamps <- AroundHandoff
    Windows <- TwoWindows
    Today = 12
    MaxEvents = 3
SYMMETRY Interchangeable
INVARIANTS TypeOK OneWeekPerDay AnswerWasTrue CoverageAgrees GapsAreExact RelayHasNoGap CalendarAgrees

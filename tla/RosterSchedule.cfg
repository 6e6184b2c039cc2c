SPECIFICATION Spec
CONSTANTS
    a = a  b = b  request = request  topUp = topUp
    None = None
    Users <- TwoUsers
    Founders <- TwoFounders
    Windows <- FirstTwoWeeks
    Edits <- ThirdWeekByHand
    LastWeek = 4
    Ahead = 2
    MaxConsecutive = 2
    Requests <- OneRequest
    Worker = topUp
    MaxEvents = 2
INVARIANTS TypeOK  EvenTurns NoLongRun
PROPERTIES AnnouncedWeeksStay DutyFollowsMembers

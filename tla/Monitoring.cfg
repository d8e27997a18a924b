SPECIFICATION MonitoringSpec
CONSTANTS
    Kind = "grade"
    Users <- OneTeacher
    Students <- OneStudent
    Items <- TwoItems
    Periods <- TwoPeriods
    Grades <- OneGrade
    Ids <- TwoIds
    NoId = NoId
    Slots <- OneSlot
    Endpoints = {"post", "patch", "bulk"}
    Recipients <- TwoPeople
    Staff <- Heads
    Admins <- Heads
    Plans <- TwoPlans
    NoticeKinds <- TwoKinds
    Lookahead = 1
    Lists <- TwoSlots
    LastDay = 2
    MaxPlanChanges = 2
    Persons <- TwoPersons
    EnrolmentIds <- ThreeEnrolments
    StudentOf <- Owner
    Workers <- TwoSlots
    TopFactors <- TwoFactors
    MaxPredictions = 2
    MaxTransfers = 3
    Enrolments <- TwoEnrolments
    MonthDays <- TwoDays
    MonthLabels <- TwoLabels
    SchoolDates <- TwoDays
    Today = 2
    NoTime = NoWindow
    Clash <- Windows
    NoPlace = nowhere
    SchoolWide = school
    Bodies <- FourBodies
    DateLists <- BothDates
    Rules <- ThreeRules
    Holidays <- FourHolidays
    Editors <- TwoSlots
    MaxDays = 3
    Desks <- TwoSlots
    Found <- TwoTables
    MaxRecords = 3
    MaxChanges = 2
    u1 = u1
    a1 = a1
    a2 = a2
    i1 = i1
    i2 = i2
    q1 = q1
    q2 = q2
    v1 = v1
    v2 = v2
    NoWindow = NoWindow
    morning = morning
    noon = noon
    gym = gym
    nowhere = nowhere
    school = school
    c1 = c1
    c2 = c2
    ana = ana
    ben = ben
    s0 = s0
    s1 = s1
    s2 = s2
INVARIANTS
    RecordsInOrder
    CalendarInOrder
    CountedOnce
    ListTellsAll

    
    
    
SYMMETRY Symmetry
CHECK_DEADLOCK FALSE

SPECIFICATION ClientSpec
CONSTANTS
    Cases = {"student"}
    p1 = p1
    p2 = p2
    b1 = b1
    b2 = b2
    v1 = v1
    l1 = l1
    o1 = o1
    c1 = c1
    c2 = c2
    none = none
    e1 = e1
    e2 = e2
    e3 = e3
    d1 = d1
    d2 = d2
    m1 = m1
    blank = blank
    ana = ana
    ben = ben
    Pages <- TwoPages
    Boots <- TwoBoots
    Saves <- OneSave
    Logins <- OneLogin
    Logouts <- OneLogout
    Lossy = TRUE
    MaxTardy = 1
    Learners <- TwoStudents
    NoStudent = NoStudent
    Features = {1, 2}
    PageSize = 4
    Visits <- HurryingVisit
    Sheets <- FourSheets
    Classes = {c1, c2}
    NoClass = none
    Periods <- TwoDates
    Roster <- ClassLists
    Marks = {m1}
    NoMark = blank
    ListSize = 2
    Students <- TwoStudents
    Types = {"continuing", "transferee"}
    Fits <- FitsTypes
    OneByOne = {"transferee"}
    Levels = {"junior", "senior"}
    Senior = "senior"
    Grades = {"g7", "g11"}
    levelOf <- BothLevels
    Strands = {"STEM", "ABM"}
    Sections = {"rizal", "stem", "shared"}
    gradeOf <- GradeOf
    strandOf <- StrandsOf
    Nothing = ""
    Queries = {"", "b"}
    Blank = ""
    Found <- FoundBy
    WaitsForSubmission = TRUE
    OthersEnrol = TRUE
INVARIANT GeneratedShown
CHECK_DEADLOCK FALSE

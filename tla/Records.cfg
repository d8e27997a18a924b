SPECIFICATION RecordsSpec
CONSTANTS
    y1 = y1
    y2 = y2
    g7 = g7
    g11 = g11
    st1 = st1
    n1 = n1
    a1 = a1
    a2 = a2
    c1 = c1
    c2 = c2
    e1 = e1
    e2 = e2
    e3 = e3
    e4 = e4
    e5 = e5
    s0 = s0
    s1 = s1
    s2 = s2
    t1 = t1
    t2 = t2
    m1 = m1
    c3 = c3
    c4 = c4
    NoStrand = NoStrand
    NoSection = NoSection
    NoId = NoId
    Years <- TwoYears
    Grades <- BothSchools
    Senior <- SeniorSchool
    Strands <- OneStrand
    Names <- OneName
    Students <- TwoStudents
    SectionIds <- TwoSections
    EnrolIds <- TwoEnrolments
    Slots <- OneSlot
    SectionsMove = FALSE
    Clears = FALSE
    Teachers <- TwoTeachers
    NoTeacher = NoTeacher
    SchoolYears <- ThreeYears
    Spans <- YearSpans
    Levels <- OneLevel
    Classes <- TwoClasses
    Learners <- TwoStudents
    YearOf <- ClassYear
    LevelOf <- ClassLevel
    Courses <- OneCourse
    NoCourse = NoCourse
    RollIds <- TwoEnrolments
    MaxEdits = 6
INVARIANTS
    EnrolmentsInOrder
    OverlappingInOrder
    PagesAgree
PROPERTIES
    ArchivedYearKept
SYMMETRY Symmetry

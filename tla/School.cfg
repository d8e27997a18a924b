SPECIFICATION SchoolSpec
CONSTANTS
    g7 = g7
    g11 = g11
    st1 = st1
    n1 = n1
    n2 = n2
    k1 = k1
    j1 = j1
    j2 = j2
    a1 = a1
    a2 = a2
    p1 = p1
    p2 = p2
    q1 = q1
    r1 = r1
    u1 = u1
    t1 = t1
    t2 = t2
    c1 = c1
    c2 = c2
    s1 = s1
    s2 = s2
    Nothing = Nothing
    NoSlot = NoSlot
    NoTeacher = NoTeacher
    NoSection = NoSection
    Kinds <- FiveKinds
    Primary <- TwoNames
    Secondary <- OneEmail
    Refs <- OneReference
    Rows <- EveryRow
    MaxRows = 2
    MaxCopies = 2
    Users <- OneUser
    Slots <- OneSlot
    Grades <- BothSchools
    Strands <- OneStrand
    NoStrand = NoStrand
    Names <- OneName
    Codes <- NoCodes
    NoCode = NoCode
    NoGrade = NoGrade
    SubjectIds <- TwoSubjects
    Teachers <- OneTeacher
    Sections <- OneSection
    gradeOf <- SectionGrade
    strandOf <- SectionStrand
    AssignmentIds <- OneAssignment
    NoId = NoId
    Workers <- OneSlot
    Archivable <- SeniorGrade
    LevelsMove = FALSE
    Crashes = FALSE
INVARIANTS
    
    
    RegisteredOnce
PROPERTIES
    GivenSubjectFits
    GivenAfterCrash
    ImportedAsShown
SYMMETRY Symmetry

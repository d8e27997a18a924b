SPECIFICATION Spec
CONSTANTS
    t1 = t1
    t2 = t2
    c1 = c1
    c2 = c2
    s1 = s1
    s2 = s2
    NoTeacher = NoTeacher
    NoSection = NoSection
    NoId = NoId
    Teachers <- MCTeachers
    Sections <- MCSections
    Ids <- MCIds
    Legacy <- MCLegacy
    Slots <- TwoSlots
    Endpoints = {"assignments", "sections", "import"}
INVARIANTS
    TypeOK
    OneActiveAdviser
    AdviserCanAccess
PROPERTIES
    ImportNeverReplaces
    FollowsAppointments
SYMMETRY Symmetry

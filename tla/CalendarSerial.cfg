SPECIFICATION Spec
CONSTANTS
    a1 = a1
    a2 = a2
    t1 = t1
    v1 = v1
    v2 = v2
    s1 = s1
    s2 = s2
    NoUser = NoUser
    NoContent = NoContent
    Admins <- MCAdmins
    Staff <- MCStaff
    Contents <- MCContents
    Slots <- OneSlot
    Edits <- EveryEdit
    Kind = "occurrence"
INVARIANTS
    TypeOK
    EndorsedOnShow
PROPERTIES
    AuditNamesReplacedStatus
    FollowsWorkflow
SYMMETRY Symmetry

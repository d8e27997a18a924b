-------------------------- MODULE AdviserAssignment --------------------------
(***************************************************************************)
(* The class adviser of a section.  It is stored twice: as the active      *)
(* ADVISER row of TeacherAssignment, and as the column Section.adviser     *)
(* that older code reads.  The two services of adviser_assignments.py lock *)
(* the section's row and change both in one transaction, so a call of one  *)
(* is one step; what the handlers read before they call it may be stale.   *)
(***************************************************************************)
EXTENDS Integers

CONSTANTS
    Teachers,   \* users who may advise
    NoTeacher,  \* SQL NULL in Section.adviser
    Sections,   \* sections of the active academic year, of one grade level
    NoSection,  \* the section of an assignment not yet inserted
    Ids,        \* primary keys of TeacherAssignment; its size is a bound
    NoId,       \* replacing_assignment=None
    Slots,      \* requests that may be in flight together
    Legacy,     \* Section.adviser as older code set it, without an assignment
    Endpoints   \* those in use: "assignments", "sections", "import"

ASSUME AdviserConstants ==
    /\ Ids \subseteq Nat /\ NoId \notin Ids
    /\ NoTeacher \notin Teachers /\ NoSection \notin Sections
    /\ Legacy \in [Sections -> Teachers \cup {NoTeacher}]
    /\ Endpoints \subseteq {"assignments", "sections", "import"}

VARIABLES
    rows,       \* the ADVISER rows of TeacherAssignment
    adviser,    \* Section.adviser
    access,     \* UserProfile.assigned_sections
    req         \* req[s]: the local variables of the handler in slot s

vars == <<rows, adviser, access, req>>

\* From the INSERT on, a row names its section and its teacher (NOT NULL).
Row == {r \in [section: Sections \cup {NoSection}, teacher: Teachers \cup {NoTeacher},
               active: BOOLEAN] : r.section = NoSection <=> r.teacher = NoTeacher}
NoRow == [section |-> NoSection, teacher |-> NoTeacher, active |-> FALSE]

\* id is the assignment being PATCHed, seen the adviser a section PATCH read.
Request == [pc: {"idle", "post", "reassign", "remove", "import", "section"},
            section: Sections \cup {NoSection}, teacher: Teachers \cup {NoTeacher},
            id: Ids \cup {NoId}, seen: Teachers \cup {NoTeacher}]
Idle == [pc |-> "idle", section |-> NoSection, teacher |-> NoTeacher,
         id |-> NoId, seen |-> NoTeacher]

TypeOK ==
    /\ rows \in [Ids -> Row]
    /\ adviser \in [Sections -> Teachers \cup {NoTeacher}]
    /\ access \in [Teachers -> SUBSET Sections]
    /\ req \in [Slots -> Request]

Init ==
    /\ rows = [i \in Ids |-> NoRow]
    /\ adviser = Legacy
    /\ access = [t \in Teachers |-> {}]
    /\ req = [s \in Slots |-> Idle]

-----------------------------------------------------------------------------
(* The services                                                            *)

\* The active adviser assignments of a section in the table r.
Active(r, sec) == {i \in Ids : r[i].section = sec /\ r[i].active}

First(is) == CHOOSE i \in is : \A j \in is : i <= j

Deactivated(r, is) ==
    [i \in Ids |-> IF i \in is THEN [r[i] EXCEPT !.active = FALSE] ELSE r[i]]

\* The teacher of the first active assignment, for Section.adviser.
AdviserIn(r, sec) ==
    IF Active(r, sec) = {} THEN NoTeacher ELSE r[First(Active(r, sec))].teacher

\* INSERT under the next primary key.
Insert(r, row) ==
    \E i \in Ids :
        /\ r[i].section = NoSection
        /\ \A j \in Ids : j < i => r[j].section # NoSection
        /\ rows' = [r EXCEPT ![i] = row]

\* Mutant: the previous adviser's assignment stays active.
AssignBeside(mirror, sec, t, src) ==
    /\ Insert(rows, [section |-> sec, teacher |-> t, active |-> TRUE])
    /\ adviser' = [mirror EXCEPT ![sec] = t]
    /\ access' = [access EXCEPT ![t] = @ \cup {sec}]

\* Mutant: an assignment that replaces another gives no access.
AssignWithoutAccess(mirror, sec, t, src) ==
    LET kept == {i \in Active(rows, sec) : rows[i].teacher = t}
        r == Deactivated(rows, (Active(rows, sec) \ kept) \cup ({src} \cap Ids))
    IN  /\ \/ kept # {} /\ rows' = r
           \/ kept = {} /\ Insert(r, [section |-> sec, teacher |-> t, active |-> TRUE])
        /\ adviser' = [mirror EXCEPT ![sec] = t]
        /\ access' = IF src \in Ids THEN access ELSE [access EXCEPT ![t] = @ \cup {sec}]

\* assign_section_adviser, over a Section.adviser column that reads mirror.
\* src is the assignment replaced; when it was active in another section, that
\* section is left with whoever else advises it.
Assign(mirror, sec, t, src) ==
    LET same == {i \in Active(rows, sec) : rows[i].teacher = t}
        kept == IF same = {} THEN {} ELSE {First(same)}
        left == IF src \in Ids /\ rows[src].active /\ rows[src].section # sec
                THEN {src} ELSE {}
        r == IF src \in kept THEN rows
             ELSE Deactivated(rows, (Active(rows, sec) \ kept) \cup left)
    IN  /\ \/ kept # {} /\ rows' = r
           \/ kept = {} /\ Insert(r, [section |-> sec, teacher |-> t, active |-> TRUE])
        /\ adviser' = [x \in Sections |->
                         IF x = sec THEN t
                         ELSE IF \E i \in left : rows[i].section = x THEN AdviserIn(r, x)
                         ELSE mirror[x]]
        /\ access' = [access EXCEPT ![t] = @ \cup {sec}]

\* Mutant: Section.adviser is refreshed for legacy sections only.
RemoveForgetsMirror(mirror, sec, who, clearLegacy) ==
    LET matches == {i \in Active(rows, sec) : rows[i].teacher \in who}
    IN  /\ rows' = Deactivated(rows, matches)
        /\ adviser' = IF clearLegacy THEN [mirror EXCEPT ![sec] = NoTeacher] ELSE mirror
        /\ UNCHANGED access

\* Mutant: the filter on the section is missing.
RemoveEverywhere(mirror, sec, who, clearLegacy) ==
    /\ rows' = Deactivated(rows, {i \in Ids : rows[i].teacher \in who})
    /\ adviser' = [mirror EXCEPT ![sec] = NoTeacher]
    /\ UNCHANGED access

\* remove_section_adviser, for the assignments of the teachers in who.
Remove(mirror, sec, who, clearLegacy) ==
    LET matches == {i \in Active(rows, sec) : rows[i].teacher \in who}
        r == Deactivated(rows, matches)
    IN  /\ rows' = r
        /\ adviser' = IF matches # {} \/ clearLegacy
                      THEN [mirror EXCEPT ![sec] = AdviserIn(r, sec)] ELSE mirror
        /\ UNCHANGED access

-----------------------------------------------------------------------------
(* The handlers: what they read and check, then the service they call      *)

Start(s, r) ==
    /\ req[s].pc = "idle"
    /\ req' = [req EXCEPT ![s] = r]
    /\ UNCHANGED <<rows, adviser, access>>

Finish(s) == req' = [req EXCEPT ![s] = Idle]

\* validate(): no other teacher advises the section.
AdviserFree(sec, t, id) ==
    \A i \in Active(rows, sec) \ {id} : rows[i].teacher = t

\* POST /teacher-assignments/ with assignment_type ADVISER: validation.  A body
\* with is_active=false is not checked against the present adviser, although
\* the service makes the assignment active all the same.
Post(s) ==
    /\ "assignments" \in Endpoints
    /\ \E sec \in Sections, t \in Teachers, isActive \in BOOLEAN :
         /\ isActive => AdviserFree(sec, t, NoId)
         /\ Start(s, [Idle EXCEPT !.pc = "post", !.section = sec, !.teacher = t])

PostAssign(s) ==
    /\ req[s].pc = "post"
    /\ Assign(adviser, req[s].section, req[s].teacher, NoId)
    /\ Finish(s)

\* PATCH of an assignment that stays, or becomes, active: validation.
Reassign(s) ==
    /\ "assignments" \in Endpoints
    /\ \E i \in Ids, sec \in Sections, t \in Teachers :
         /\ rows[i].section # NoSection
         /\ AdviserFree(sec, t, i)
         /\ Start(s, [Idle EXCEPT !.pc = "reassign", !.id = i,
                                  !.section = sec, !.teacher = t])

ReassignSave(s) ==
    /\ req[s].pc = "reassign"
    /\ Assign(adviser, req[s].section, req[s].teacher, req[s].id)
    /\ Finish(s)

\* PATCH with is_active=false of an assignment that the handler read active.
Deactivate(s) ==
    /\ "assignments" \in Endpoints
    /\ \E i \in Ids : rows[i].active /\ Start(s, [Idle EXCEPT !.pc = "remove", !.id = i])

\* The section and the teacher of an assignment never change.
DeactivateSave(s) ==
    /\ req[s].pc = "remove"
    /\ LET row == rows[req[s].id]
       IN  Remove(adviser, row.section, {row.teacher}, FALSE)
    /\ Finish(s)

\* PATCH /sections/: the row is read whole.  A body without an adviser names,
\* in effect, the adviser just read.
PatchSection(s) ==
    /\ "sections" \in Endpoints
    /\ \E sec \in Sections, t \in Teachers \cup {NoTeacher} :
         Start(s, [Idle EXCEPT !.pc = "section", !.section = sec,
                               !.teacher = t, !.seen = adviser[sec]])

\* Mutant: a cleared adviser is assigned like any other.
PatchAssignsNull(s) ==
    /\ req[s].pc = "section"
    /\ LET sec == req[s].section
           mirror == [adviser EXCEPT ![sec] = req[s].seen]
       IN  \/ req[s].teacher = req[s].seen /\ adviser' = mirror /\ UNCHANGED <<rows, access>>
           \/ req[s].teacher # req[s].seen /\ Assign(mirror, sec, req[s].teacher, NoId)
    /\ Finish(s)

\* One transaction: the save of every column, then the service if the adviser
\* differs from the one read.
PatchSectionSave(s) ==
    /\ req[s].pc = "section"
    /\ LET sec == req[s].section
           t == req[s].teacher
           mirror == [adviser EXCEPT ![sec] = req[s].seen]
       IN  \/ t = req[s].seen /\ adviser' = mirror /\ UNCHANGED <<rows, access>>
           \/ t # req[s].seen /\ t # NoTeacher /\ Assign(mirror, sec, t, NoId)
           \/ t # req[s].seen /\ t = NoTeacher /\ Remove(mirror, sec, Teachers, TRUE)
    /\ Finish(s)

\* The preview of a spreadsheet row: the section must have no adviser at all.
ImportPreview(s) ==
    /\ "import" \in Endpoints
    /\ \E sec \in Sections, t \in Teachers :
         /\ adviser[sec] = NoTeacher /\ Active(rows, sec) = {}
         /\ Start(s, [Idle EXCEPT !.pc = "import", !.section = sec, !.teacher = t])

\* Mutant: the confirmation trusts the preview.
ConfirmUnchecked(s) ==
    /\ req[s].pc = "import"
    /\ Assign(adviser, req[s].section, req[s].teacher, NoId)
    /\ Finish(s)

\* The confirmation looks again with the section locked.
ImportConfirm(s) ==
    /\ req[s].pc = "import"
    /\ adviser[req[s].section] = NoTeacher /\ Active(rows, req[s].section) = {}
    /\ Assign(adviser, req[s].section, req[s].teacher, NoId)
    /\ Finish(s)

\* The request is refused, its preview expires, or its worker dies; whatever a
\* transaction had written is rolled back.
Abandon(s) ==
    /\ req[s].pc # "idle"
    /\ Finish(s)
    /\ UNCHANGED <<rows, adviser, access>>

Next == \E s \in Slots :
    \/ Post(s) \/ PostAssign(s)
    \/ Reassign(s) \/ ReassignSave(s)
    \/ Deactivate(s) \/ DeactivateSave(s)
    \/ PatchSection(s) \/ PatchSectionSave(s)
    \/ ImportPreview(s) \/ ImportConfirm(s)
    \/ Abandon(s)

Spec == Init /\ [][Next]_vars

-----------------------------------------------------------------------------
(* Properties *)

\* However POST, PATCH, import and section PATCH overlap, a section has at
\* most one active adviser assignment.  The conditional unique constraint that
\* says so is not enforced by MySQL: only the locking of the services does it.
OneActiveAdviser ==
    \A sec \in Sections : \A i, j \in Active(rows, sec) : i = j

\* However they overlap, whoever actively advises a section can open it: the
\* section is among the profile's assigned sections (_grant_adviser_section_access).
AdviserCanAccess ==
    \A i \in Ids : rows[i].active => rows[i].section \in access[rows[i].teacher]

\* Section.adviser names the adviser of the active assignment; without one it
\* is empty, or still what older code wrote (_set_section_adviser).
MirrorAgrees ==
    \A sec \in Sections :
        IF Active(rows, sec) = {} THEN adviser[sec] \in {NoTeacher, Legacy[sec]}
        ELSE \E i \in Active(rows, sec) : adviser[sec] = rows[i].teacher

\* No teacher loses a section to the end of a request of kind pc.
NeverReplaces(pc) ==
    \A s \in Slots : req[s].pc = pc /\ req'[s].pc = "idle" =>
        \A i \in Ids : rows[i].active => rows'[i].active

\* "the import will not replace an existing assignment", however old its preview.
ImportNeverReplaces == [][NeverReplaces("import")]_vars

\* "This section already has an active class adviser for the academic year":
\* a POST does not take a section from its adviser.
PostNeverReplaces == [][NeverReplaces("post")]_vars

\* The adviser of each section, as its active assignment says.
Current == [sec \in Sections |-> AdviserIn(rows, sec)]

Appointments == INSTANCE AdviserAppointments WITH current <- Current

\* Each request appoints, dismisses or transfers at most one adviser.
FollowsAppointments == Appointments!Spec
=============================================================================

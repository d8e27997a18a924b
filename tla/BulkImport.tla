------------------------------- MODULE BulkImport -------------------------------
(***************************************************************************)
(* Registration of records from a workbook: the panel of the browser asks  *)
(* for a preview, which reviews the rows and signs a token for the         *)
(* workbook, and then for a confirmation, which reviews them again, checks *)
(* once more in its transaction and inserts.  Meanwhile other requests     *)
(* register records and archive what the rows refer to.  Six importers     *)
(* share the two views and differ in what they check when.                 *)
(***************************************************************************)
EXTENDS Naturals, FiniteSets, Sequences

CONSTANTS
    Kinds,      \* the importers under study
    Primary,    \* usernames, LRNs, names of grade levels, of sections in a grade
                \* level and year, of subjects in a grade level, or the teacher,
                \* section and subject of an assignment
    Secondary,  \* emails and employee ids, codes of grade levels, official codes
    Nothing,    \* the column is empty
    Refs,       \* grade levels, strands, teachers, sections a row refers to
    Rows,       \* the rows that workbooks are made of
    MaxRows,    \* bounds the rows of a workbook
    MaxCopies,  \* bounds the copies of a row in the table
    Users, Slots, NoSlot

AllKinds == {"teachers", "grades", "students", "sections", "assignments", "subjects"}

Row == [p: Primary \cup {Nothing}, q: Secondary \cup {Nothing}, ref: Refs \cup {Nothing}]

ImportConstants ==
    /\ Kinds \subseteq AllKinds
    /\ Nothing \notin Primary \cup Secondary \cup Refs /\ NoSlot \notin Slots
    /\ Primary \cap Secondary = {}
    /\ Rows \subseteq Row
    /\ MaxRows \in Nat /\ MaxCopies \in Nat

ASSUME ImportAssumption == ImportConstants

VARIABLES
    kind,   \* the importer
    table,  \* how often each row has been registered
    live,   \* the references in use
    panel,  \* panel[u]: the import panel in u's browser
    job,    \* job[s]: the confirmation that slot s works on
    raced   \* (history) a record was registered between a check and its INSERT

vars == <<kind, table, live, panel, job, raced>>

\* The columns that an importer has, and those it requires.
Column(r) ==
    /\ r.p = Nothing => kind = "subjects" /\ r.q = Nothing
    /\ r.q = Nothing => kind # "grades"
    /\ r.q # Nothing => kind \in {"teachers", "grades", "subjects"}
    /\ r.ref # Nothing => kind \in {"sections", "assignments", "subjects"}

\* What parsing returns; a workbook that cannot be read is refused (400) and
\* changes nothing.
Workbook == UNION {[1..n -> {r \in Rows : Column(r)}] : n \in 1..MaxRows}

\* The student importer reads its workbook with code of its own.
StudentWorkbook == UNION {[1..n -> {r \in Rows : Column(r)}] : n \in 1..MaxRows}

File == IF kind = "students" THEN StudentWorkbook ELSE Workbook

\* No workbook chosen; `shown' are the rows a preview shows as valid, `since'
\* (history) says what has happened since: "register", "archive".
Empty == [file |-> <<>>, shown |-> {}, token |-> "none", wait |-> NoSlot, since |-> {}]
Idle == [file |-> <<>>]

TypeOK ==
    /\ kind \in Kinds
    /\ table \in [Rows -> 0..MaxCopies]
    /\ live \subseteq Refs
    /\ panel \in [Users -> [file: File \cup {<<>>}, shown: SUBSET (1..MaxRows),
                            token: {"none", "signed", "expired"},
                            wait: Slots \cup {NoSlot},
                            since: SUBSET {"register", "archive"}]]
    /\ job \in [Slots -> {Idle} \cup
                [file: File, records: SUBSET (1..MaxRows), checked: BOOLEAN]]
    /\ raced \in BOOLEAN

Init ==
    /\ kind \in Kinds
    /\ table = [r \in Rows |-> 0]
    /\ live = Refs
    /\ panel = [u \in Users |-> Empty]
    /\ job = [s \in Slots |-> Idle]
    /\ raced = FALSE

-----------------------------------------------------------------------------
(* Review                                                                  *)

\* What a row claims for itself.
Claims(r) == {r.p, r.q} \ {Nothing}

Taken(c) == \E r \in Rows : table[r] > 0 /\ c \in Claims(r)
Free(r) == \A c \in Claims(r) : ~Taken(c)
Usable(r) == r.ref \in live \cup {Nothing}
Alike(r, q) == Claims(r) \cap Claims(q) # {}

\* Mutant: rows are not compared with the other rows of the workbook.
ReviewAlone(f) == {n \in DOMAIN f : Free(f[n]) /\ Usable(f[n])}

\* Counters over the whole workbook: a claim made twice is an error in both rows.
ReviewTeachers(f) ==
    {n \in DOMAIN f : Free(f[n]) /\ \A m \in DOMAIN f \ {n} : ~Alike(f[m], f[n])}

ReviewGrades(f) ==
    {n \in DOMAIN f : Free(f[n]) /\ \A m \in DOMAIN f \ {n} : ~Alike(f[m], f[n])}

ReviewStudents(f) ==
    {n \in DOMAIN f : Free(f[n]) /\ \A m \in DOMAIN f \ {n} : f[m].p # f[n].p}

\* Mutant: rows are numbered as in the worksheet, where the first is the header.
ReviewSectionsFromHeader(f) == {n + 1 : n \in {m \in DOMAIN f : Free(f[m]) /\ Usable(f[m])}}

\* A set of what was seen, of rows whose references were found: the first of two
\* rows stands, also when it has another error.
ReviewSections(f) ==
    {n \in DOMAIN f : /\ Free(f[n]) /\ Usable(f[n])
                      /\ \A m \in 1..(n - 1) : Usable(f[m]) => ~Alike(f[m], f[n])}

ReviewAssignments(f) ==
    {n \in DOMAIN f : /\ Free(f[n]) /\ Usable(f[n])
                      /\ \A m \in 1..(n - 1) : Usable(f[m]) => ~Alike(f[m], f[n])}

\* Only official codes are compared, with those of the valid rows before.
ReviewSubjects(f) ==
    LET valid[n \in DOMAIN f] ==
            /\ Free(f[n]) /\ Usable(f[n])
            /\ \A m \in 1..(n - 1) : valid[m] => f[n].q = Nothing \/ f[m].q # f[n].q
    IN {n \in DOMAIN f : valid[n]}

Review(f) ==
    CASE kind = "teachers"    -> ReviewTeachers(f)
      [] kind = "grades"      -> ReviewGrades(f)
      [] kind = "students"    -> ReviewStudents(f)
      [] kind = "sections"    -> ReviewSections(f)
      [] kind = "assignments" -> ReviewAssignments(f)
      [] kind = "subjects"    -> ReviewSubjects(f)

-----------------------------------------------------------------------------
(* The panel                                                               *)

\* Another workbook, or none: the preview goes.
ChooseFile(u) ==
    /\ panel[u].wait = NoSlot
    /\ \E f \in File \cup {<<>>} :
         /\ f # panel[u].file
         /\ panel' = [panel EXCEPT ![u] = [Empty EXCEPT !.file = f]]
    /\ UNCHANGED <<kind, table, live, job, raced>>

\* "Preview workbook".  A token is signed if a row is valid; nothing is stored.
Preview(u) ==
    /\ panel[u].wait = NoSlot /\ panel[u].file # <<>>
    /\ LET valid == Review(panel[u].file) IN
       panel' = [panel EXCEPT ![u] =
         [@ EXCEPT !.shown = valid, !.since = {},
                   !.token = IF valid = {} THEN "none" ELSE "signed"]]
    /\ UNCHANGED <<kind, table, live, job, raced>>

\* Thirty minutes pass.
Expire(u) ==
    /\ panel[u].token = "signed" /\ panel[u].wait = NoSlot
    /\ panel' = [panel EXCEPT ![u].token = "expired"]
    /\ UNCHANGED <<kind, table, live, job, raced>>

\* A confirmation that fails, or whose answer is lost: the workbook stays.
Cleared(u) == [Empty EXCEPT !.file = panel[u].file]

\* Mutant: the digest of the workbook is not compared.
ConfirmAny(u, s) ==
    /\ panel[u].wait = NoSlot /\ panel[u].token = "signed" /\ job[s] = Idle
    /\ \E f \in File :
         job' = [job EXCEPT ![s] = [file |-> f, records |-> Review(f), checked |-> FALSE]]
    /\ panel' = [panel EXCEPT ![u].wait = s]
    /\ UNCHANGED <<kind, table, live, raced>>

\* "Import n valid rows": the workbook is uploaded again; the token must be of
\* this user, this workbook and the last thirty minutes.  A second review.
Confirm(u, s) ==
    /\ panel[u].wait = NoSlot /\ panel[u].token = "signed" /\ job[s] = Idle
    /\ job' = [job EXCEPT ![s] = [file |-> panel[u].file,
                                  records |-> Review(panel[u].file), checked |-> FALSE]]
    /\ panel' = [panel EXCEPT ![u].wait = s]
    /\ UNCHANGED <<kind, table, live, raced>>

\* The token has expired: 400.
ConfirmLate(u) ==
    /\ panel[u].wait = NoSlot /\ panel[u].token = "expired"
    /\ panel' = [panel EXCEPT ![u] = Cleared(u)]
    /\ UNCHANGED <<kind, table, live, job, raced>>

\* The connection is lost while the server works on.
GiveUp(u) ==
    /\ panel[u].wait # NoSlot
    /\ panel' = [panel EXCEPT ![u] = Cleared(u)]
    /\ UNCHANGED <<kind, table, live, job, raced>>

-----------------------------------------------------------------------------
(* The transaction of a confirmation                                       *)

\* One look-up for all the records together, before the first INSERT.
CheckTeachers(f, recs) == IF \A n \in recs : Free(f[n]) THEN recs ELSE {}

CheckGrades(f, recs) == IF \A n \in recs : Free(f[n]) THEN recs ELSE {}

\* A serializer for each record, after the INSERT of the records before it: one
\* that is refused ends the transaction ...
CheckSections(f, recs) ==
    IF \A n \in recs : /\ Free(f[n]) /\ Usable(f[n])
                       /\ \A m \in recs : m < n => ~Alike(f[m], f[n])
    THEN recs ELSE {}

CheckAssignments(f, recs) ==
    IF \A n \in recs : /\ Free(f[n]) /\ Usable(f[n])
                       /\ \A m \in recs : m < n => ~Alike(f[m], f[n])
    THEN recs ELSE {}

CheckSubjects(f, recs) ==
    IF \A n \in recs : /\ Free(f[n]) /\ Usable(f[n])
                       /\ \A m \in recs : m < n => ~Alike(f[m], f[n])
    THEN recs ELSE {}

\* ... except for students, where it is skipped.
CheckStudents(f, recs) ==
    {n \in recs : Free(f[n]) /\ \A m \in recs : m < n => f[m].p # f[n].p}

\* Mutant: what cannot be registered any more is left out.
AcceptedEach(f, recs) == {n \in recs : Free(f[n])}

\* The records that are inserted; none when the transaction is rolled back.
Accepted(f, recs) ==
    CASE kind = "teachers"    -> CheckTeachers(f, recs)
      [] kind = "grades"      -> CheckGrades(f, recs)
      [] kind = "students"    -> CheckStudents(f, recs)
      [] kind = "sections"    -> CheckSections(f, recs)
      [] kind = "assignments" -> CheckAssignments(f, recs)
      [] kind = "subjects"    -> CheckSubjects(f, recs)

\* The answer of a confirmation reaches the panel that still waits for it.
Answer(s, imported) ==
    [u \in Users |-> IF panel[u].wait # s THEN panel[u]
                     ELSE IF imported THEN Empty ELSE Cleared(u)]

Check(s) ==
    /\ job[s] # Idle /\ ~job[s].checked
    /\ LET ok == Accepted(job[s].file, job[s].records) IN
       IF ok # {}
       THEN /\ job' = [job EXCEPT ![s].records = ok, ![s].checked = TRUE]
            /\ UNCHANGED panel
       ELSE /\ job' = [job EXCEPT ![s] = Idle]
            /\ panel' = Answer(s, FALSE)
    /\ UNCHANGED <<kind, table, live, raced>>

\* The claims under a unique constraint: not emails, not subjects, and not
\* assignments, whose constraint has a condition and is not created by MySQL.
Constrained(r) ==
    CASE kind \in {"subjects", "assignments"} -> {}
      [] kind = "teachers" -> {r.p}
      [] OTHER -> Claims(r)

\* Previews do not know of what happens after them.
Outdated(p, event) ==
    [u \in Users |-> IF p[u].token = "none" THEN p[u]
                     ELSE [p[u] EXCEPT !.since = @ \cup {event}]]

\* Somebody else is between the check and the INSERTs.
Pending(slots) == \E s \in slots : job[s] # Idle /\ job[s].checked

Added(s) == [r \in Rows |-> Cardinality({n \in job[s].records : job[s].file[n] = r})]

\* Mutant: the unique constraints are missing.
InsertUnchecked(s) ==
    /\ job[s] # Idle /\ job[s].checked
    /\ table' = [r \in Rows |-> table[r] + Added(s)[r]]
    /\ \A r \in Rows : table'[r] <= MaxCopies
    /\ panel' = Outdated(Answer(s, TRUE), "register")
    /\ job' = [job EXCEPT ![s] = Idle]
    /\ raced' = (raced \/ Pending(Slots \ {s}))
    /\ UNCHANGED <<kind, live>>

\* The INSERTs of the records, and COMMIT.
Insert(s) ==
    /\ job[s] # Idle /\ job[s].checked
    /\ \A n \in job[s].records : \A c \in Constrained(job[s].file[n]) : ~Taken(c)
    /\ table' = [r \in Rows |-> table[r] + Added(s)[r]]
    /\ \A r \in Rows : table'[r] <= MaxCopies
    /\ panel' = Outdated(Answer(s, TRUE), "register")
    /\ job' = [job EXCEPT ![s] = Idle]
    /\ raced' = (raced \/ Pending(Slots \ {s}))
    /\ UNCHANGED <<kind, live>>

\* A unique constraint refuses an INSERT (409), or the worker dies: rolled back.
RollBack(s) ==
    /\ job[s] # Idle /\ job[s].checked
    /\ job' = [job EXCEPT ![s] = Idle]
    /\ panel' = Answer(s, FALSE)
    /\ UNCHANGED <<kind, table, live, raced>>

-----------------------------------------------------------------------------

\* Another request registers a record, checked as a confirmation would.
Register(r) ==
    /\ Column(r)
    /\ Free(r) /\ Usable(r) /\ table[r] < MaxCopies
    /\ table' = [table EXCEPT ![r] = @ + 1]
    /\ panel' = Outdated(panel, "register")
    /\ raced' = (raced \/ Pending(Slots))
    /\ UNCHANGED <<kind, live, job>>

\* What rows refer to is archived or restored.
ArchiveOrRestore(x) ==
    /\ live' = IF x \in live THEN live \ {x} ELSE live \cup {x}
    /\ panel' = Outdated(panel, "archive")
    /\ UNCHANGED <<kind, table, job, raced>>

Next ==
    \/ \E u \in Users : \/ ChooseFile(u) \/ Preview(u) \/ Expire(u)
                        \/ ConfirmLate(u) \/ GiveUp(u)
                        \/ \E s \in Slots : Confirm(u, s)
    \/ \E s \in Slots : Check(s) \/ Insert(s) \/ RollBack(s)
    \/ \E r \in Rows : Register(r)
    \/ \E x \in Refs : ArchiveOrRestore(x)

Spec == Init /\ [][Next]_vars

-----------------------------------------------------------------------------
(* Properties                                                              *)

Holders(c) == {r \in Rows : c \in Claims(r) /\ table[r] > 0}

\* A claim belongs to one record.
Single(c) == \A r, q \in Holders(c) : r = q /\ table[r] = 1

\* "Usernames and any supplied email address or employee ID must be unique", and
\* the same for LRNs, names and codes: no preview, confirmation, repetition of a
\* confirmation or request in between registers a claim twice.
ClaimedOnce == \A c \in Primary \cup Secondary : Single(c)

\* What the database keeps unique is so however confirmations overlap.
ConstraintsHold ==
    \A r \in Rows : table[r] > 0 => \A c \in Constrained(r) : Single(c)

\* Nothing is registered twice: what the database keeps unique never, and nothing
\* else until a record is registered between the check of a confirmation and its
\* INSERTs.
RegisteredOnce == ConstraintsHold /\ (~raced => ClaimedOnce)

\* "Import n valid rows": if nothing was registered or archived since the preview,
\* the confirmation accepts the rows that were shown, all of them and no other.
PreviewKept ==
    \A u \in Users, s \in Slots :
      panel[u].wait = s /\ panel[u].since = {} /\ ~job[s].checked /\ job'[s] # job[s]
      => job'[s] # Idle /\ job'[s].records = panel[u].shown

\* "Rows with errors will be skipped": a row that was shown with an error is not
\* imported by the confirmation of that preview, whatever was registered since,
\* if what rows refer to stayed as it was.
ShownImported ==
    \A u \in Users, s \in Slots :
      panel[u].wait = s /\ "archive" \notin panel[u].since
        /\ job[s].checked /\ job'[s] = Idle /\ table' # table
      => job[s].records \subseteq panel[u].shown

\* "The import was rolled back": of the rows that the review of a confirmation
\* found valid all are registered or none, unless they are students.
AllOrNone ==
    \A s \in Slots :
      kind # "students" /\ job[s] # Idle /\ job'[s] \notin {Idle, job[s]} => job'[s].records = job[s].records

\* What a confirmation saves is what its preview showed as valid (of subjects the
\* names are not compared in a preview), whole or not at all.
ImportedAsShown == [][(kind # "subjects" => PreviewKept /\ ShownImported) /\ AllOrNone]_vars
=============================================================================

------------------------------ MODULE MCRecords ------------------------------
(***************************************************************************)
(* Instances of Enrolment and of Listings for TLC.  A behaviour is one of  *)
(* the case it begins with: requests one at a time and the pages are those *)
(* of the modules extended, and requests that overlap write tables of      *)
(* their own.                                                              *)
(***************************************************************************)
EXTENDS Enrolment, Listings, TLC

CONSTANTS
    y1, y2, g7, g11, st1, n1, a1, a2, c1, c2, e1, e2, e3, e4, e5, s0, s1, s2,
    t1, t2, c3, c4, m1  \* of the pages

VARIABLES case,
          live2, sections2, enrolments2, req2  \* where requests overlap

enrolmentVars == vars
overlapVars == <<live2, sections2, enrolments2, req2>>
recordVars == <<case, enrolmentVars, overlapVars, listingVars>>
Off == "off"

\* Two years of a Junior and a Senior High School, one request at a time; sections
\* stay where they are and columns keep a value.
TwoYears == {y1, y2}
BothSchools == {g7, g11}
SeniorSchool == {g11}
OneStrand == {st1}
OneName == {n1}
TwoStudents == {a1, a2}
TwoSections == {c1, c2}
TwoEnrolments == {e1, e2}
OneSlot == {s0}

\* Two teachers and students, a section in each of the first two of three years.
TwoTeachers == {t1, t2}
OneLevel == {g7}
TwoClasses == {c3, c4}
OneCourse == {m1}
ThreeYears == 1..3
\* The second year follows the first, precedes it, or begins with it; the third begins
\* before a second one that follows is over.
YearSpans == 1 :> {<<3, 4>>} @@ 2 :> {<<5, 6>>, <<1, 2>>, <<3, 6>>} @@ 3 :> {<<6, 8>>}
ClassYear == c3 :> 1 @@ c4 :> 2
ClassLevel == [c \in TwoClasses |-> g7]

\* Two requests at a time, which may move sections and clear columns.
Overlapping == INSTANCE Enrolment WITH
    Grades <- {g7}, Senior <- {}, Strands <- {}, EnrolIds <- {e3, e4, e5}, Slots <- {s1, s2},
    SectionsMove <- TRUE, Clears <- TRUE,
    live <- live2, sections <- sections2, enrolments <- enrolments2, req <- req2

ASSUME OverlappingConstants == Overlapping!EnrolmentConstants

OverlapOff == live2 = Off /\ sections2 = Off /\ enrolments2 = Off /\ req2 = Off

NoPages == ActiveYears = {} /\ dates[2] = <<5, 6>>

RecordsInit ==
    /\ Init /\ ListingInit
    /\ \/ case = "listing" /\ OverlapOff
       \/ case = "placing" /\ OverlapOff /\ NoPages
       \/ case = "overlapping" /\ Overlapping!Init /\ NoPages

RecordsNext ==
    \/ case = "placing" /\ Next /\ UNCHANGED <<case, overlapVars, listingVars>>
    \/ case = "overlapping" /\ Overlapping!Next /\ UNCHANGED <<case, enrolmentVars, listingVars>>
    \/ case = "listing" /\ ListingNext /\ UNCHANGED <<case, enrolmentVars, overlapVars>>

RecordsSpec == RecordsInit /\ [][RecordsNext]_recordVars

Symmetry ==
    Permutations({s1, s2}) \cup Permutations({c1, c2}) \cup Permutations({e1, e2}) \cup Permutations({e3, e4, e5})
        \cup Permutations({y1, y2}) \cup Permutations({a1, a2})

-----------------------------------------------------------------------------
\* However requests overlap, a student is enrolled once in a year and in a section
\* of that year, even where sections move and columns are cleared.
OverlappingInOrder == case = "overlapping" => Overlapping!EnrolmentsInOrder
=============================================================================

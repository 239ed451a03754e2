------------------------------- MODULE MCSite -------------------------------
(* Instances of Site: the whole course in one tab, and a part of it in two. *)
EXTENDS Site, CourseContent

CONSTANTS t1, t2

TwoTabs == {t1, t2}
Symmetry == {[t \in TwoTabs |-> t], [t \in TwoTabs |-> IF t = t1 THEN t2 ELSE t1]}

\* The home page, a second text of the address of a lesson, and an address
\* without a lesson.  Links lead to the rest.
CoursePaths == {Home, Padded(0, 1), LessonPath(7, NaN)}

AllPhases == PhaseIds

\* Phase 0 has one lesson; phase 3, reduced to its first two, has a pager.
TwoPhases ==
  [l \in DOMAIN PHASE_CONTENT |->
     [p \in {0, 3} |-> [PHASE_CONTENT[l][p] EXCEPT !.lessons = SubSeq(@, 1, IF p = 0 THEN 1 ELSE 2)]]]
TwoPhasesPaths == {Home, Elsewhere, LessonPath(3, 1)}
=============================================================================

------------------------------- MODULE Pages -------------------------------
(***************************************************************************)
(* What the two pages of the website show for a given address, language    *)
(* and page state: CourseRoadmap.tsx and LessonPage.tsx, with the lookups  *)
(* of data/index.ts.  Layout and wording are left out.                     *)
(***************************************************************************)
EXTENDS Integers, Sequences, Phases

CONSTANT Content   \* Content[locale][phaseId]: the lessons, PHASE_CONTENT in index.ts

\* The title of a lesson tells it from all others.
Title(lesson) == <<lesson.phaseId, lesson.lessonId>>

\* The types a content block may have.
BlockTypes == {"paragraph", "heading", "code", "diagram", "table", "callout", "list"}

CodeExercise == [id : STRING, hints : Nat, pseudocode : BOOLEAN, labFile : STRING]

LessonData ==
  [phaseId : Int, lessonId : Int, objectives : Nat, acceptanceCriteria : Nat,
   references : Nat, sections : Seq(Seq(BlockTypes)), exercises : Seq(CodeExercise)]

ASSUME ContentAssumption ==
  /\ DOMAIN Content = {"zh-CN", "zh-TW", "en"}
  /\ \A l \in DOMAIN Content :
       /\ DOMAIN Content[l] \subseteq Int
       /\ \A p \in DOMAIN Content[l] : Content[l][p].lessons \in Seq(LessonData)

\* Every phase has lessons, and a lesson's number is its position.
ASSUME NumberedAssumption ==
  \A l \in DOMAIN Content : \A p \in DOMAIN Content[l] :
    /\ Content[l][p].lessons # <<>>
    /\ \A i \in DOMAIN Content[l][p].lessons :
         Title(Content[l][p].lessons[i]) = <<p, i>>

None == -1
Undefined == [lessons |-> <<>>]

-----------------------------------------------------------------------------
(***************************************************************************)
(* Addresses and the routes of App.tsx.  The parts of an address are text: *)
(* LessonPage compares the texts and shows the lesson of the numbers that  *)
(* Number() makes of them.  The field zeros tells two texts of one number  *)
(* apart; a text that is no number gives NaN, which no lesson has.         *)
(***************************************************************************)
NaN == -1
Address(page, p, n, z) == [page |-> page, phaseId |-> p, lessonId |-> n, zeros |-> z]

Home == Address("home", 0, 0, 0)
LessonPath(p, n) == Address("lesson", p, n, 0)
Padded(p, n) == Address("lesson", p, n, 1)      \* "01" for 1
Elsewhere == Address("none", 0, 0, 0)           \* no route matches

-----------------------------------------------------------------------------
(***************************************************************************)
(* data/index.ts.                                                          *)
(***************************************************************************)
\* The lessons of a phase in a language, in zh-CN if that language lacks them.
PhaseIn(content, p, l) ==
  IF p \in DOMAIN content[l] THEN content[l][p]
  ELSE IF p \in DOMAIN content["zh-CN"] THEN content["zh-CN"][p]
  ELSE Undefined

getPhaseContent(p, l) == PhaseIn(Content, p, l)

\* The positions of the lessons with that number; find() takes the first.
Positions(ls, n) == {i \in DOMAIN ls : ls[i].lessonId = n}

First(at) == CHOOSE i \in at : \A j \in at : i <= j

Find(ls, n) == ls[First(Positions(ls, n))]

HasLesson(p, n, l) == Positions(getPhaseContent(p, l).lessons, n) # {}

getLesson(p, n, l) == Find(getPhaseContent(p, l).lessons, n)

hasLessons(p) == p \in DOMAIN Content["zh-CN"]

-----------------------------------------------------------------------------
(***************************************************************************)
(* LessonPage.tsx.  The page state is a record of the three sets of open   *)
(* panels and whether the window is scrolled away from the top.            *)
(***************************************************************************)
NothingOpen == [sections |-> {}, hints |-> {}, pseudo |-> {}, scrolled |-> FALSE]

IsLesson(path, l) == path.page = "lesson" /\ HasLesson(path.phaseId, path.lessonId, l)

LessonAt(path, l) == getLesson(path.phaseId, path.lessonId, l)

hasPrev(path) == path.lessonId > 1
hasNext(path, l) == path.lessonId < Len(getPhaseContent(path.phaseId, l).lessons)

\* A link: where it leads, and the lesson whose title it shows, <<>> if none.
Link(to, names) == [to |-> to, names |-> names]

\* A plausible bug: the title on the link to the next lesson is off by one.
NextTitledByNumber(path, l) ==
  LET ls == getPhaseContent(path.phaseId, l).lessons
      p  == path.phaseId
      n  == path.lessonId
  IN  {Link(Home, <<>>)}
        \cup (IF hasPrev(path) THEN {Link(LessonPath(p, n - 1), Title(ls[n - 1]))} ELSE {})
        \cup (IF hasNext(path, l) THEN {Link(LessonPath(p, n + 1), Title(ls[n]))} ELSE {})

\* The links of a lesson: back, complete, and the neighbours.  A neighbour's
\* address is made from the number, its title is taken by position.
LessonLinks(path, l) ==
  LET ls == getPhaseContent(path.phaseId, l).lessons
      p  == path.phaseId
      n  == path.lessonId
  IN  {Link(Home, <<>>)}
        \cup (IF hasPrev(path) THEN {Link(LessonPath(p, n - 1), Title(ls[n - 1]))} ELSE {})
        \cup (IF hasNext(path, l) THEN {Link(LessonPath(p, n + 1), Title(ls[n + 1]))} ELSE {})

\* RenderBlock: every block type has its case, an unknown one shows nothing.
RenderBlock(type) ==
  IF type \in {"paragraph", "heading", "code", "diagram", "table", "callout", "list"}
    THEN <<type>> ELSE <<>>

\* The blocks a section shows when it is open.
RenderBlocks(blocks) == [i \in DOMAIN blocks |-> RenderBlock(blocks[i])]

\* The sections, each closed or with its blocks.
SectionsShown(lesson, st) ==
  [i \in DOMAIN lesson.sections |->
     IF i - 1 \in st.sections THEN RenderBlocks(lesson.sections[i]) ELSE <<>>]

\* The exercises, each with its pseudocode and its hints if they are open.
\* The panels of an exercise are found by its id.
ExercisesShown(lesson, st) ==
  [i \in DOMAIN lesson.exercises |->
     LET ex == lesson.exercises[i]
     IN  [labFile |-> ex.labFile,
          pseudo  |-> ex.pseudocode /\ ex.id \in st.pseudo,
          hints   |-> IF ex.hints > 0 /\ ex.id \in st.hints THEN ex.hints ELSE 0]]

\* The parts of a lesson that no state of the page changes, by their lengths.
Objectives(lesson) == lesson.objectives
AcceptanceCriteria(lesson) == lesson.acceptanceCriteria
References(lesson) == lesson.references

\* What a lesson is made of, whatever is open.
Shape(path, l) ==
  IF IsLesson(path, l)
    THEN LET lesson == LessonAt(path, l)
         IN  <<Objectives(lesson), lesson.sections, lesson.exercises,
               AcceptanceCriteria(lesson), References(lesson)>>
    ELSE <<>>

\* The keys of the texts about the exercises, each with or without its panels.
ExerciseKeys(exercises, st) ==
  UNION {(IF e.pseudocode
            THEN {IF e.id \in st.pseudo THEN "lesson.hidePseudo" ELSE "lesson.showPseudo"} ELSE {})
         \cup (IF e.hints > 0
            THEN {IF e.id \in st.hints THEN "lesson.hideHints" ELSE "lesson.showHints"} ELSE {}) :
           e \in {exercises[i] : i \in DOMAIN exercises}}

\* The keys of the texts of a lesson that is found, with its two neighbours.
FoundKeys(lesson, prev, next, st) ==
  LET key(k, shown) == IF shown THEN {k} ELSE {}
  IN  {"lesson.back", "lesson.objectives"}
        \cup key("lesson.prev", prev)
        \cup {IF next THEN "lesson.next" ELSE "lesson.complete"}
        \cup key("lesson.content", lesson.sections # <<>>)
        \cup key("lesson.exercises", lesson.exercises # <<>>)
        \cup key("lesson.criteria", AcceptanceCriteria(lesson) > 0)
        \cup key("lesson.references", References(lesson) > 0)
        \cup ExerciseKeys(lesson.exercises, st)

\* The keys of the texts on a lesson page.
LessonKeys(path, l, st) ==
  IF IsLesson(path, l)
    THEN FoundKeys(LessonAt(path, l), hasPrev(path), hasNext(path, l), st)
    ELSE {"lesson.back", "lesson.notFound"}

-----------------------------------------------------------------------------
(***************************************************************************)
(* CourseRoadmap.tsx.  The page state is the open phase and the tab.       *)
(***************************************************************************)
Fresh == [activePhase |-> None, activeTab |-> "roadmap"]

TABS == {"roadmap", "arch", "principles"}

PhaseIds == {PHASES_ZH_CN[i].id : i \in DOMAIN PHASES_ZH_CN}

PhaseList(l, open) ==
  LET ps == getPhases(l)
  IN  [i \in DOMAIN ps |->
         [id |-> ps[i].id, color |-> ps[i].color,
          details |-> IF open = ps[i].id
                        THEN <<ps[i].concepts, ps[i].readings, ps[i].acceptance>> ELSE <<>>]]

\* A plausible bug: the top layer is given the number after the last phase.
LayersFromOne == [i \in DOMAIN ARCHITECTURE |-> <<Len(ARCHITECTURE) - i + 1, ARCHITECTURE[i]>>]

\* Layer i from the top is labelled "Phase {layers.length - 1 - i}".
Layers == [i \in DOMAIN ARCHITECTURE |-> <<Len(ARCHITECTURE) - i, ARCHITECTURE[i]>>]

\* A line is drawn below the first four principles.
PrincipleList(l) == [i \in DOMAIN getPrinciples(l) |-> <<getPrinciples(l)[i], i - 1 < 4>>]

RoadmapView(l, st) ==
  [phases     |-> IF st.activeTab = "roadmap" THEN PhaseList(l, st.activePhase) ELSE <<>>,
   layers     |-> IF st.activeTab = "arch" THEN Layers ELSE <<>>,
   principles |-> IF st.activeTab = "principles" THEN PrincipleList(l) ELSE <<>>]

\* The only link: "enter course" in the open phase, if it has lessons.
RoadmapLinks(st) ==
  IF st.activeTab = "roadmap" /\ st.activePhase # None /\ hasLessons(st.activePhase)
    THEN {Link(LessonPath(st.activePhase, 1), <<>>)} ELSE {}

\* The keys of the texts on the roadmap page and in the LanguageSwitcher.
RoadmapKeys(st) ==
  {"header.badge", "header.title", "header.subtitle1", "header.subtitle2", "tab.roadmap",
   "tab.architecture", "tab.principles", "lang.zhCN", "lang.zhTW", "lang.en"}
    \cup (IF st.activeTab = "arch" THEN {"arch.desc", "arch.dataflow"} ELSE {})
    \cup (IF st.activeTab = "principles" THEN {"principles.desc"} ELSE {})
    \cup (IF st.activeTab = "roadmap" /\ st.activePhase # None
            THEN {"phase.concepts", "phase.references", "phase.deliverable", "phase.acceptance"}
            ELSE {})
    \cup (IF RoadmapLinks(st) # {} THEN {"phase.enter"} ELSE {})
=============================================================================

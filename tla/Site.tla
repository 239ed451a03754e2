-------------------------------- MODULE Site --------------------------------
(***************************************************************************)
(* The website in the tabs of one browser: the router with its history,    *)
(* the state of the roadmap page, the state of the lesson page with the    *)
(* effect that resets it, and the language.                                *)
(*                                                                         *)
(* LessonPage is one route, so React keeps the component, and the panels   *)
(* the reader has opened, when the reader goes from one lesson to another. *)
(* The first render of the new lesson still has the old panels.  The       *)
(* effect on [phaseId, lessonId] runs after it and closes them.  React     *)
(* runs a pending effect before it renders again, so no second navigation  *)
(* overtakes it, but a click may.  The scroll position belongs to the      *)
(* window and survives every navigation; the lesson page resets it.        *)
(***************************************************************************)
EXTENDS Locale, Pages, FiniteSets

CONSTANTS TypedPaths,    \* the addresses a reader may type or have bookmarked
          ClickedPhases, \* the phases a reader opens on the roadmap page
          MAX_ENTRIES,   \* entries of the session history; the browser drops the oldest
          MAX_PANELS     \* bound: panels opened, or scrolling, on one visit of a lesson

Paths == [page : {"home", "lesson", "none"}, phaseId : Int, lessonId : Int, zeros : Nat]

ASSUME SiteAssumption ==
  /\ TypedPaths \subseteq Paths
  /\ ClickedPhases \subseteq PhaseIds
  /\ MAX_ENTRIES \in Nat \ {0}
  /\ MAX_PANELS \in Nat

VARIABLES entries,       \* entries[t]: the session history, a sequence of addresses
          at,            \* at[t]: the position in it
          roadmap,       \* roadmap[t]: state of the mounted CourseRoadmap
          lesson,        \* lesson[t]: state of the mounted LessonPage
          deps,          \* deps[t]: the dependencies at the last run of the effect
          opened         \* history: what the reader did since arriving at the address

pageVars == <<entries, at, roadmap, lesson, deps, opened>>
vars == <<localeVars, pageVars>>

Path(t) == entries[t][at[t]]
OnHome(t) == IsOpen(t) /\ Path(t).page = "home"
OnLesson(t) == IsOpen(t) /\ Path(t).page = "lesson"

\* A plausible bug: the effect depends on the lesson number alone.
PendingByNumber(t) == OnLesson(t) /\ deps[t].lessonId # Path(t).lessonId

\* A plausible bug: the effect has no dependencies and runs after every render.
PendingAlways(t) == OnLesson(t)

\* The effect has not run since the address changed or the page was mounted.
Pending(t) == OnLesson(t) /\ deps[t] # Path(t)

Init ==
  /\ LocaleInit
  /\ entries = [t \in Tabs |-> <<Home>>]
  /\ at = [t \in Tabs |-> 1]
  /\ roadmap = [t \in Tabs |-> Fresh]
  /\ lesson = [t \in Tabs |-> NothingOpen]
  /\ deps = [t \in Tabs |-> Elsewhere]
  /\ opened = [t \in Tabs |-> NothingOpen]

-----------------------------------------------------------------------------
(***************************************************************************)
(* Loading, leaving and moving between pages.                              *)
(***************************************************************************)

\* Every component of the tab is new: main.tsx renders the whole tree.
MountAll(t) ==
  /\ roadmap' = [roadmap EXCEPT ![t] = Fresh]
  /\ lesson' = [lesson EXCEPT ![t] = NothingOpen]
  /\ deps' = [deps EXCEPT ![t] = Elsewhere]
  /\ opened' = [opened EXCEPT ![t] = NothingOpen]

Open(t) ==
  /\ ~IsOpen(t)
  /\ LoadLocale(t)
  /\ \E p \in TypedPaths : entries' = [entries EXCEPT ![t] = <<p>>]
  /\ at' = [at EXCEPT ![t] = 1]
  /\ MountAll(t)

Reload(t) ==
  /\ IsOpen(t)
  /\ LoadLocale(t)
  /\ MountAll(t)
  /\ UNCHANGED <<entries, at>>

Close(t) ==
  /\ IsOpen(t)
  /\ CloseLocale(t)
  /\ entries' = [entries EXCEPT ![t] = <<Home>>]
  /\ at' = [at EXCEPT ![t] = 1]
  /\ MountAll(t)

\* Showing address p: the component of its route is kept if it is mounted
\* already, otherwise it starts anew.
Show(t, p) ==
  /\ roadmap' = [roadmap EXCEPT ![t] = IF Path(t).page = p.page THEN @ ELSE Fresh]
  /\ lesson' = [lesson EXCEPT ![t] = IF Path(t).page = p.page THEN @
                                      ELSE [NothingOpen EXCEPT !.scrolled = lesson[t].scrolled]]
  /\ deps' = [deps EXCEPT ![t] = IF Path(t).page = p.page THEN @ ELSE Elsewhere]
  /\ opened' = [opened EXCEPT ![t] = NothingOpen]
  /\ UNCHANGED localeVars

\* A new entry replaces those in front of it.
Push(t, p) ==
  LET kept == SubSeq(entries[t], 1, at[t])
      base == IF Len(kept) < MAX_ENTRIES THEN kept ELSE Tail(kept)
  IN  /\ entries' = [entries EXCEPT ![t] = Append(base, p)]
      /\ at' = [at EXCEPT ![t] = Len(base) + 1]

Links(t) ==
  CASE OnHome(t)                                     -> RoadmapLinks(roadmap[t])
    [] OnLesson(t) /\ IsLesson(Path(t), locale[t])   -> LessonLinks(Path(t), locale[t])
    [] OnLesson(t) /\ ~IsLesson(Path(t), locale[t])  -> {Link(Home, <<>>)}
    [] OTHER                                         -> {}

FollowLink(t) ==
  /\ ~Pending(t)
  /\ \E k \in Links(t) : Push(t, k.to) /\ Show(t, k.to)

\* The reader changes the address by hand.
TypeAddress(t) ==
  /\ IsOpen(t)
  /\ ~Pending(t)
  /\ \E p \in TypedPaths \ {Path(t)} : Push(t, p) /\ Show(t, p)

\* The browser's back and forward buttons.
Go(t) ==
  /\ IsOpen(t)
  /\ ~Pending(t)
  /\ \E i \in {at[t] - 1, at[t] + 1} \cap DOMAIN entries[t] :
       /\ at' = [at EXCEPT ![t] = i]
       /\ Show(t, entries[t][i])
  /\ UNCHANGED entries

-----------------------------------------------------------------------------
(***************************************************************************)
(* CourseRoadmap.                                                          *)
(***************************************************************************)

\* A plausible bug: a change of tab closes the open phase.
TabClosesPhase(t) ==
  /\ OnHome(t)
  /\ \E k \in TABS : roadmap' = [roadmap EXCEPT ![t] = [Fresh EXCEPT !.activeTab = k]]
  /\ UNCHANGED <<localeVars, entries, at, lesson, deps, opened>>

SetActiveTab(t) ==
  /\ OnHome(t)
  /\ \E k \in TABS : roadmap' = [roadmap EXCEPT ![t].activeTab = k]
  /\ UNCHANGED <<localeVars, entries, at, lesson, deps, opened>>

SetActivePhase(t) ==
  /\ OnHome(t)
  /\ roadmap[t].activeTab = "roadmap"
  /\ \E id \in ClickedPhases :
       roadmap' = [roadmap EXCEPT ![t].activePhase = IF @ = id THEN None ELSE id]
  /\ UNCHANGED <<localeVars, entries, at, lesson, deps, opened>>

\* The LanguageSwitcher is part of the roadmap page only.
SetLocale(t) ==
  /\ OnHome(t)
  /\ \E l \in Locales : handleSetLocale(t, l)
  /\ UNCHANGED pageVars

-----------------------------------------------------------------------------
(***************************************************************************)
(* LessonPage.                                                             *)
(***************************************************************************)
Flip(S, x) == IF x \in S THEN S \ {x} ELSE S \cup {x}

\* The effect scrolls to the top and closes every panel.
Effect(t) ==
  /\ Pending(t)
  /\ lesson' = [lesson EXCEPT ![t] = NothingOpen]
  /\ deps' = [deps EXCEPT ![t] = Path(t)]
  /\ UNCHANGED <<localeVars, entries, at, roadmap, opened>>

\* The bound on what the reader does on one visit.
Allowed(st) ==
  Cardinality(st.sections) + Cardinality(st.hints) + Cardinality(st.pseudo)
    + (IF st.scrolled THEN 1 ELSE 0) <= MAX_PANELS

toggleSection(t) ==
  /\ OnLesson(t) /\ IsLesson(Path(t), locale[t])
  /\ \E i \in DOMAIN LessonAt(Path(t), locale[t]).sections :
       /\ lesson' = [lesson EXCEPT ![t].sections = Flip(@, i - 1)]
       /\ opened' = [opened EXCEPT ![t].sections = @ \cup {i - 1}]
  /\ Allowed(opened'[t])
  /\ UNCHANGED <<localeVars, entries, at, roadmap, deps>>

Exercises(t) == LET exs == LessonAt(Path(t), locale[t]).exercises IN {exs[i] : i \in DOMAIN exs}

\* The button is there when the exercise has hints.
toggleHint(t) ==
  /\ OnLesson(t) /\ IsLesson(Path(t), locale[t])
  /\ \E e \in Exercises(t) :
       /\ e.hints > 0
       /\ lesson' = [lesson EXCEPT ![t].hints = Flip(@, e.id)]
       /\ opened' = [opened EXCEPT ![t].hints = @ \cup {e.id}]
  /\ Allowed(opened'[t])
  /\ UNCHANGED <<localeVars, entries, at, roadmap, deps>>

\* The button is there when the exercise has pseudocode.
togglePseudo(t) ==
  /\ OnLesson(t) /\ IsLesson(Path(t), locale[t])
  /\ \E e \in Exercises(t) :
       /\ e.pseudocode
       /\ lesson' = [lesson EXCEPT ![t].pseudo = Flip(@, e.id)]
       /\ opened' = [opened EXCEPT ![t].pseudo = @ \cup {e.id}]
  /\ Allowed(opened'[t])
  /\ UNCHANGED <<localeVars, entries, at, roadmap, deps>>

\* The reader scrolls; the browser does, no code of the site.
Scroll(t) ==
  /\ IsOpen(t)
  /\ lesson' = [lesson EXCEPT ![t].scrolled = TRUE]
  /\ opened' = [opened EXCEPT ![t].scrolled = TRUE]
  /\ Allowed(opened'[t])
  /\ UNCHANGED <<localeVars, entries, at, roadmap, deps>>

-----------------------------------------------------------------------------
Next ==
  \E t \in Tabs :
    \/ Open(t) \/ Reload(t) \/ Close(t)
    \/ FollowLink(t) \/ TypeAddress(t) \/ Go(t)
    \/ SetActiveTab(t) \/ SetActivePhase(t) \/ SetLocale(t)
    \/ Effect(t) \/ toggleSection(t) \/ toggleHint(t) \/ togglePseudo(t) \/ Scroll(t)

Spec == Init /\ [][Next]_vars

\* React's scheduler runs the effects of a committed render.
FairSpec == Spec /\ \A t \in Tabs : WF_vars(Effect(t))

-----------------------------------------------------------------------------
(***************************************************************************)
(* Properties.                                                             *)
(***************************************************************************)
PanelState == [sections : SUBSET Nat, hints : SUBSET STRING, pseudo : SUBSET STRING,
               scrolled : BOOLEAN]

\* The types of all variables, and that every tab shows an entry of its
\* history.
TypeOK ==
  /\ LocaleTypeOK
  /\ entries \in [Tabs -> Seq(Paths)]
  /\ at \in [Tabs -> Nat]
  /\ roadmap \in [Tabs -> [activePhase : PhaseIds \cup {None}, activeTab : TABS]]
  /\ lesson \in [Tabs -> PanelState]
  /\ deps \in [Tabs -> Paths]
  /\ opened \in [Tabs -> PanelState]
  /\ \A t \in Tabs : at[t] \in DOMAIN entries[t] /\ Len(entries[t]) <= MAX_ENTRIES

\* Once the effect of LessonPage has run, the lesson is at its top and only
\* panels are open that the reader opened on this visit: nothing is carried
\* over from the lesson the reader came from, whose sections have the same
\* numbers and whose exercises may have the same ids.
NothingCarriedOver ==
  \A t \in Tabs : OnLesson(t) /\ ~Pending(t) =>
    /\ lesson[t].sections \subseteq opened[t].sections
    /\ lesson[t].hints \subseteq opened[t].hints
    /\ lesson[t].pseudo \subseteq opened[t].pseudo
    /\ lesson[t].scrolled => opened[t].scrolled

\* Going back or forward by one entry always changes the address, so it
\* always makes the effect of LessonPage run or mounts another page: no link
\* of the site leads to the page it is on.
BackAndForwardMove ==
  \A t \in Tabs : \A i \in 1..Len(entries[t]) - 1 : entries[t][i] # entries[t][i + 1]

\* Every link on a page leads to a lesson that exists in the reader's
\* language, and shows the title of the lesson it leads to: LessonPage makes
\* the address from the number and takes the title by position.
LinksLeadWhereTheySay ==
  \A t \in Tabs : \A k \in Links(t) :
    k.to.page = "lesson" =>
      /\ IsLesson(k.to, locale[t])
      /\ k.names # <<>> => k.names = Title(LessonAt(k.to, locale[t]))

\* Every text on the page is in the tab's own language: no key is missing in
\* one dictionary, which t() would hide by taking another one.
TextsInOwnLanguage ==
  \A t \in Tabs : IsOpen(t) =>
    \A key \in (IF OnHome(t) THEN RoadmapKeys(roadmap[t])
                ELSE IF OnLesson(t) THEN LessonKeys(Path(t), locale[t], lesson[t]) ELSE {}) :
      Translation(locale[t], key) = locale[t]

\* An open section shows all its blocks: RenderBlock has a case for every
\* type the lessons use.
OpenSectionsAreComplete ==
  \A t \in Tabs : OnLesson(t) /\ IsLesson(Path(t), locale[t]) =>
    LET shown == SectionsShown(LessonAt(Path(t), locale[t]), lesson[t])
    IN  \A i \in DOMAIN shown : \A j \in DOMAIN shown[i] : shown[i][j] # <<>>

\* The page a reader sees lacks nothing, in any language and whatever is open:
\* no text of LessonPage, CourseRoadmap or LanguageSwitcher falls back to
\* another language, and RenderBlock drops no block.
PagesAreComplete == TextsInOwnLanguage /\ OpenSectionsAreComplete

\* The panels of a lesson that are open, by their place on the page.
OpenPanels(le, st) ==
  LET s == SectionsShown(le, st)
      e == ExercisesShown(le, st)
  IN  {<<"section", i>> : i \in {j \in DOMAIN s : s[j] # <<>>}}
        \cup {<<"hints", i>> : i \in {j \in DOMAIN e : e[j].hints > 0}}
        \cup {<<"pseudo", i>> : i \in {j \in DOMAIN e : e[j].pseudo}}

\* While a reader stays on a lesson whose effect has run, one step opens or
\* closes at most one panel on the page: a click never moves a panel of
\* another exercise, and no effect takes back what the reader opened.
OnePanelAtATime ==
  [][\A t \in Tabs :
       /\ OnLesson(t) /\ IsLesson(Path(t), locale[t]) /\ ~Pending(t)
       /\ OnLesson(t)' /\ Path(t)' = Path(t) /\ deps'[t] = deps[t]
       /\ <<lesson'[t], locale'[t]>> # <<lesson[t], locale[t]>>
       => LET was == OpenPanels(LessonAt(Path(t), locale[t]), lesson[t])
              is  == OpenPanels(LessonAt(Path(t), locale'[t]), lesson'[t])
          IN  Cardinality((was \ is) \cup (is \ was)) <= 1]_vars

\* A choice of language, in the LanguageSwitcher or by a reload after another
\* tab chose, changes the language of the lessons in the history and nothing
\* else: each address still has its lesson, with the same sections, kinds of
\* blocks, exercises and lists.
LessonsSurviveTheSwitch ==
  [][\A t \in Tabs : IsOpen(t) /\ IsOpen(t)' /\ locale'[t] # locale[t] =>
       \A i \in DOMAIN entries[t] : Shape(entries[t][i], locale[t]) = Shape(entries[t][i], locale'[t])]_vars

\* The effect of LessonPage runs after every change of lesson, however the
\* reader goes on clicking.
EffectEventuallyRuns == \A t \in Tabs : Pending(t) ~> ~Pending(t)

-----------------------------------------------------------------------------
(***************************************************************************)
(* The roadmap page against the prototype it was made from.                *)
(***************************************************************************)
ATab == CHOOSE t \in Tabs : TRUE     \* all tabs run the same code

Proto == INSTANCE Prototype WITH
  activePhase <- IF OnHome(ATab) THEN roadmap[ATab].activePhase ELSE None,
  activeTab   <- IF OnHome(ATab) THEN roadmap[ATab].activeTab ELSE "roadmap"

\* The roadmap page of a tab behaves like course-roadmap.jsx, whatever happens
\* to the language, the lessons and the history: leaving the page and coming
\* back is a new mount, and nothing else disturbs its state.
BehavesLikePrototype == Proto!Spec

\* In every language the roadmap page shows the phases, the details of the
\* open phase, the layers with the phases they belong to, and the principles
\* that the prototype shows in the same state.  The data flow under the
\* layers is not the same and is left out of both views.
ShowsWhatPrototypeShows ==
  OnHome(ATab) => RoadmapView(locale[ATab], roadmap[ATab]) = Proto!View

=============================================================================

----------------------------- MODULE SiteProofs -----------------------------
(***************************************************************************)
(* Proofs about the website for every course, any number of tabs and every *)
(* bound on the history.                                                   *)
(***************************************************************************)
EXTENDS Site, FiniteSetTheorems, TLAPS

-----------------------------------------------------------------------------
(***************************************************************************)
(* The language.                                                           *)
(***************************************************************************)

\* A choice the LanguageSwitcher offers is what a load makes of it.
LEMMA StoredIsTaken ==
  ASSUME NEW l \in Locales, NEW lang
  PROVE  Initial(l, lang) = l
  BY DEF Initial

\* The language of a browser is one of the site's.
LEMMA InitialIsLocale ==
  ASSUME NEW saved, NEW lang
  PROVE  Initial(saved, lang) \in Locales
  BY DEF Initial, FromBrowser, Locales

LocaleInv ==
  /\ locale \in [Tabs -> Locales \cup {Closed}]
  /\ ReloadKeepsLanguage

LEMMA ClosedIsNoLocale == Closed \notin Locales
  BY DEF Closed, Locales

LEMMA LoadStep ==
  ASSUME NEW t \in Tabs, LocaleInv, LoadLocale(t)
  PROVE  LocaleInv'
  BY InitialIsLocale DEF LocaleInv, ReloadKeepsLanguage, LoadLocale, IsOpen

LEMMA CloseStep ==
  ASSUME NEW t \in Tabs, LocaleInv, CloseLocale(t)
  PROVE  LocaleInv'
  BY ClosedIsNoLocale DEF LocaleInv, ReloadKeepsLanguage, CloseLocale, IsOpen

LEMMA ChoiceStep ==
  ASSUME NEW t \in Tabs, NEW l \in Locales, LocaleInv, handleSetLocale(t, l)
  PROVE  LocaleInv'
<1>1. CASE stored' = l /\ behind' = (behind \cup {u \in Tabs : IsOpen(u)}) \ {t}
  BY <1>1, StoredIsTaken, ClosedIsNoLocale
     DEF LocaleInv, ReloadKeepsLanguage, handleSetLocale, IsOpen
<1>2. CASE unsaved' = unsaved \cup {t} /\ UNCHANGED <<stored, behind>>
  BY <1>2, ClosedIsNoLocale DEF LocaleInv, ReloadKeepsLanguage, handleSetLocale, IsOpen
<1> QED  BY <1>1, <1>2 DEF handleSetLocale

LEMMA LocaleStays ==
  ASSUME LocaleInv, UNCHANGED localeVars
  PROVE  LocaleInv'
  BY DEF LocaleInv, ReloadKeepsLanguage, localeVars, IsOpen

LEMMA LocaleStep ==
  ASSUME LocaleInv, [Next]_vars
  PROVE  LocaleInv'
<1>1. CASE UNCHANGED vars
  BY <1>1, LocaleStays DEF vars
<1>2. ASSUME NEW t \in Tabs, Open(t) \/ Reload(t)
      PROVE  LocaleInv'
  BY <1>2, LoadStep DEF Open, Reload
<1>3. ASSUME NEW t \in Tabs, Close(t)
      PROVE  LocaleInv'
  BY <1>3, CloseStep DEF Close
<1>4. ASSUME NEW t \in Tabs, FollowLink(t) \/ TypeAddress(t) \/ Go(t)
      PROVE  LocaleInv'
  BY <1>4, LocaleStays DEF FollowLink, TypeAddress, Go, Show
<1>5. ASSUME NEW t \in Tabs, SetLocale(t)
      PROVE  LocaleInv'
  BY <1>5, ChoiceStep DEF SetLocale
<1>6. ASSUME NEW t \in Tabs,
             \/ SetActiveTab(t) \/ SetActivePhase(t) \/ Effect(t) \/ toggleSection(t)
             \/ toggleHint(t) \/ togglePseudo(t) \/ Scroll(t)
      PROVE  LocaleInv'
  BY <1>6, LocaleStays
     DEF SetActiveTab, SetActivePhase, Effect, toggleSection, toggleHint, togglePseudo, Scroll
<1> QED  BY <1>1, <1>2, <1>3, <1>4, <1>5, <1>6 DEF Next

\* For any number of tabs and any browser language: a tab whose choice was
\* stored, and not overtaken by another tab's, shows the language that a
\* reload of LocaleProvider gives.
THEOREM ReloadIsFaithful == Spec => []ReloadKeepsLanguage
<1>1. Init => LocaleInv
  BY DEF Init, LocaleInit, LocaleInv, ReloadKeepsLanguage, IsOpen
<1>2. LocaleInv /\ [Next]_vars => LocaleInv'
  BY LocaleStep
<1>3. LocaleInv => ReloadKeepsLanguage
  BY DEF LocaleInv
<1> QED  BY <1>1, <1>2, <1>3, PTL DEF Spec

-----------------------------------------------------------------------------
(***************************************************************************)
(* The history.  Its entries are addresses and neighbours differ, since no *)
(* link leads to the page it is on.                                        *)
(***************************************************************************)

Differ(s) == \A i \in 1..Len(s) - 1 : s[i] # s[i + 1]

LEMMA KeptHistory ==
  ASSUME NEW S, NEW s \in Seq(S), NEW n \in 1..Len(s), Differ(s)
  PROVE  /\ SubSeq(s, 1, n) \in Seq(S)
         /\ Len(SubSeq(s, 1, n)) = n
         /\ SubSeq(s, 1, n)[n] = s[n]
         /\ Differ(SubSeq(s, 1, n))
  BY DEF Differ

LEMMA DroppedHistory ==
  ASSUME NEW S, NEW s \in Seq(S), s # <<>>, Differ(s)
  PROVE  /\ Tail(s) \in Seq(S)
         /\ Len(Tail(s)) = Len(s) - 1
         /\ Tail(s) # <<>> => Tail(s)[Len(Tail(s))] = s[Len(s)]
         /\ Differ(Tail(s))
<1> DEFINE u == Tail(s)
<1> DEFINE k == Len(s)
<1>1. k \in Nat /\ k > 0
  OBVIOUS
<1>2. u \in Seq(S) /\ Len(u) = k - 1 /\ (u # <<>> <=> k - 1 > 0)
  <2>1. u \in Seq(S) /\ Len(u) = k - 1
    OBVIOUS
  <2> HIDE DEF u, k
  <2>2. u # <<>> <=> Len(u) > 0
    BY <2>1
  <2> QED  BY <2>1, <2>2
<1>3. \A i \in 1..k - 1 : u[i] = s[i + 1]
  OBVIOUS
<1>4. \A i \in 1..k - 1 : s[i] # s[i + 1]
  BY DEF Differ
<1> HIDE DEF u, k
<1>5. u # <<>> => u[k - 1] = s[k]
  <2>1. k - 1 > 0 => k - 1 \in 1..k - 1 /\ (k - 1) + 1 = k
    BY <1>1
  <2> QED  BY <1>2, <1>3, <2>1
<1>6. \A i \in 1..(k - 1) - 1 : u[i] # u[i + 1]
  <2> SUFFICES ASSUME NEW i \in 1..(k - 1) - 1
               PROVE  u[i] # u[i + 1]
    OBVIOUS
  <2>1. i \in 1..k - 1 /\ i + 1 \in 1..k - 1
    BY <1>1
  <2>2. u[i] = s[i + 1] /\ u[i + 1] = s[(i + 1) + 1]
    BY <2>1, <1>3
  <2>3. s[i + 1] # s[(i + 1) + 1]
    BY <2>1, <1>4
  <2> QED  BY <2>2, <2>3
<1>7. Differ(u)
  BY <1>2, <1>6 DEF Differ
<1> QED  BY <1>2, <1>5, <1>7 DEF u, k

LEMMA LongerHistory ==
  ASSUME NEW S, NEW s \in Seq(S), NEW p \in S, s # <<>> => s[Len(s)] # p, Differ(s)
  PROVE  /\ Append(s, p) \in Seq(S)
         /\ Len(s) + 1 \in 1..Len(Append(s, p))
         /\ Append(s, p)[Len(s) + 1] = p
         /\ Differ(Append(s, p))
<1> DEFINE u == Append(s, p)
<1> DEFINE k == Len(s)
<1>1. k \in Nat /\ (s # <<>> <=> k > 0)
  OBVIOUS
<1>2. u \in Seq(S) /\ Len(u) = k + 1
  OBVIOUS
<1>3. u[k + 1] = p
  OBVIOUS
<1>4. \A i \in 1..k : u[i] = s[i]
  OBVIOUS
<1>5. (\A i \in 1..k - 1 : s[i] # s[i + 1]) /\ (s # <<>> => s[k] # p)
  BY DEF Differ
<1> HIDE DEF u, k
<1>6. \A i \in 1..(k + 1) - 1 : u[i] # u[i + 1]
  <2> SUFFICES ASSUME NEW i \in 1..(k + 1) - 1
               PROVE  u[i] # u[i + 1]
    OBVIOUS
  <2>1. CASE i = k
    <3>1. k > 0 /\ k \in 1..k
      BY <2>1, <1>1
    <3> QED  BY <2>1, <3>1, <1>1, <1>3, <1>4, <1>5
  <2>2. CASE i # k
    <3>1. i \in 1..k - 1 /\ i \in 1..k /\ i + 1 \in 1..k
      BY <2>2, <1>1
    <3> QED  BY <3>1, <1>4, <1>5
  <2> QED  BY <2>1, <2>2
<1>7. Differ(u)
  BY <1>2, <1>6 DEF Differ
<1>8. k + 1 \in 1..k + 1
  BY <1>1
<1> QED  BY <1>2, <1>3, <1>7, <1>8 DEF u, k

\* What a push at position n leaves of the history s.
Base(s, n) ==
  IF Len(SubSeq(s, 1, n)) < MAX_ENTRIES THEN SubSeq(s, 1, n) ELSE Tail(SubSeq(s, 1, n))

LEMMA PushedHistory ==
  ASSUME NEW S, NEW s \in Seq(S), NEW n \in 1..Len(s), NEW p \in S, p # s[n], Differ(s)
  PROVE  /\ Append(Base(s, n), p) \in Seq(S)
         /\ Len(Base(s, n)) + 1 \in 1..Len(Append(Base(s, n), p))
         /\ Append(Base(s, n), p)[Len(Base(s, n)) + 1] = p
         /\ n <= MAX_ENTRIES => Len(Append(Base(s, n), p)) <= MAX_ENTRIES
         /\ Differ(Append(Base(s, n), p))
<1> DEFINE base == Base(s, n)
<1> DEFINE kept == SubSeq(s, 1, n)
<1>1. kept \in Seq(S) /\ Len(kept) = n /\ kept[n] = s[n] /\ Differ(kept) /\ kept # <<>>
  <2>1. kept \in Seq(S) /\ Len(kept) = n /\ kept[n] = s[n] /\ Differ(kept)
    BY KeptHistory
  <2> HIDE DEF kept
  <2> QED  BY <2>1
<1> HIDE DEF kept, base
<1>2. base \in Seq(S) /\ Differ(base) /\ (base # <<>> => base[Len(base)] = s[n])
  <2>1. CASE base = kept
    BY <1>1, <2>1
  <2>2. CASE base = Tail(kept)
    BY <1>1, <2>2, DroppedHistory
  <2> QED  BY <2>1, <2>2 DEF kept, base, Base
<1>3. base # <<>> => base[Len(base)] # p
  BY <1>2
<1>4. base \in Seq(S) /\ Differ(base)
  BY <1>2
<1>5. p \in S
  OBVIOUS
<1>6. Append(base, p) \in Seq(S)
  BY <1>4, <1>5
<1>7. Len(base) + 1 \in 1..Len(Append(base, p))
  BY <1>4
<1>8. Append(base, p)[Len(base) + 1] = p
  BY <1>4
<1>9. Differ(Append(base, p))
  BY <1>3, <1>4, <1>5, LongerHistory
<1>10. n <= MAX_ENTRIES => Len(Append(base, p)) <= MAX_ENTRIES
  <2> DEFINE k == Len(base)
  <2>1. k \in Nat /\ Len(Append(base, p)) = k + 1
    BY <1>4
  <2>2. (n < MAX_ENTRIES /\ k = n) \/ k = n - 1
    <3>1. CASE n < MAX_ENTRIES
      BY <1>1, <3>1 DEF base, Base, kept
    <3>2. CASE ~(n < MAX_ENTRIES)
      <4>1. base = Tail(kept)
        BY <1>1, <3>2 DEF base, Base, kept
      <4> QED  BY <1>1, <4>1, DroppedHistory
    <3> QED  BY <3>1, <3>2
  <2> HIDE DEF k
  <2> QED  BY <2>1, <2>2, SiteAssumption
<1> QED  BY <1>6, <1>7, <1>8, <1>9, <1>10 DEF base

-----------------------------------------------------------------------------
(***************************************************************************)
(* The lessons.                                                            *)
(***************************************************************************)

\* getPhaseContent finds the lessons of a phase in one of the languages, all
\* with their numbers, or no lesson.
LEMMA PhaseLessons ==
  ASSUME NEW l \in Locales, NEW p
  PROVE  /\ getPhaseContent(p, l).lessons \in Seq(LessonData)
         /\ \A i \in DOMAIN getPhaseContent(p, l).lessons :
              Title(getPhaseContent(p, l).lessons[i]) = <<p, i>>
         /\ p \in DOMAIN Content["zh-CN"] => getPhaseContent(p, l).lessons # <<>>
<1>1. l \in DOMAIN Content /\ "zh-CN" \in DOMAIN Content
  BY ContentAssumption DEF Locales
<1>2. CASE p \in DOMAIN Content[l]
  <2>1. getPhaseContent(p, l) = Content[l][p]
    BY <1>2 DEF getPhaseContent, PhaseIn
  <2> QED  BY <1>1, <1>2, <2>1, ContentAssumption, NumberedAssumption
<1>3. CASE p \notin DOMAIN Content[l] /\ p \in DOMAIN Content["zh-CN"]
  <2>1. getPhaseContent(p, l) = Content["zh-CN"][p]
    BY <1>3 DEF getPhaseContent, PhaseIn
  <2> QED  BY <1>1, <1>3, <2>1, ContentAssumption, NumberedAssumption
<1>4. CASE p \notin DOMAIN Content[l] /\ p \notin DOMAIN Content["zh-CN"]
  <2>1. getPhaseContent(p, l) = Undefined
    BY <1>4 DEF getPhaseContent, PhaseIn
  <2>2. getPhaseContent(p, l).lessons = <<>>
    BY <2>1 DEF Undefined
  <2> QED  BY <1>4, <2>2
<1> QED  BY <1>2, <1>3, <1>4

\* getLesson finds a lesson by its number at the position of that number.
LEMMA LessonByNumber ==
  ASSUME NEW l \in Locales, NEW p, NEW n
  PROVE  /\ HasLesson(p, n, l) <=> n \in 1..Len(getPhaseContent(p, l).lessons)
         /\ HasLesson(p, n, l) => /\ getLesson(p, n, l) = getPhaseContent(p, l).lessons[n]
                                  /\ getLesson(p, n, l) \in LessonData
                                  /\ Title(getLesson(p, n, l)) = <<p, n>>
<1> DEFINE ls == getPhaseContent(p, l).lessons
<1>1. /\ ls \in Seq(LessonData)
      /\ \A i \in DOMAIN ls : Title(ls[i]) = <<p, i>>
  BY PhaseLessons
<1>2. \A i \in DOMAIN ls : ls[i].lessonId = i
  BY <1>1 DEF Title
<1>3. /\ HasLesson(p, n, l) <=> Positions(ls, n) # {}
      /\ getLesson(p, n, l) = ls[First(Positions(ls, n))]
  BY DEF HasLesson, getLesson, Find
<1> HIDE DEF ls
<1>4. DOMAIN ls = 1..Len(ls)
  BY <1>1
<1>5. Positions(ls, n) = {i \in 1..Len(ls) : i = n}
  BY <1>2, <1>4 DEF Positions
<1>6. HasLesson(p, n, l) <=> n \in 1..Len(ls)
  BY <1>3, <1>5
<1>7. ASSUME n \in 1..Len(ls)
      PROVE  /\ getLesson(p, n, l) = ls[n]
             /\ getLesson(p, n, l) \in LessonData
             /\ Title(getLesson(p, n, l)) = <<p, n>>
  <2>1. Positions(ls, n) = {n}
    BY <1>5, <1>7
  <2>2. First(Positions(ls, n)) = n
    BY <2>1, <1>7 DEF First
  <2>3. getLesson(p, n, l) = ls[n]
    BY <1>3, <2>2
  <2> QED  BY <2>3, <1>1, <1>4, <1>7
<1> QED  BY <1>6, <1>7 DEF ls

LEMMA LessonShown ==
  ASSUME NEW l \in Locales, NEW path, IsLesson(path, l)
  PROVE  LessonAt(path, l) \in LessonData
  BY LessonByNumber DEF IsLesson, LessonAt

LEMMA PhaseIdsAreNumbers == PhaseIds = 0..6
  BY DEF PhaseIds, PHASES_ZH_CN, Phase

-----------------------------------------------------------------------------
(***************************************************************************)
(* Types, and the history.                                                 *)
(***************************************************************************)
RoadmapState == [activePhase : PhaseIds \cup {None}, activeTab : TABS]

PageInv ==
  /\ locale \in [Tabs -> Locales \cup {Closed}]
  /\ entries \in [Tabs -> Seq(Paths)]
  /\ at \in [Tabs -> Nat]
  /\ \A t \in Tabs : at[t] \in 1..Len(entries[t])
  /\ \A t \in Tabs : Differ(entries[t])
  /\ roadmap \in [Tabs -> RoadmapState]
  /\ deps \in [Tabs -> Paths]

LEMMA KnownPaths ==
  /\ Home \in Paths /\ Elsewhere \in Paths
  /\ \A p, n \in Int : LessonPath(p, n) \in Paths
  BY DEF Home, Elsewhere, LessonPath, Address, Paths

LEMMA PathIsAddress ==
  ASSUME PageInv, NEW t \in Tabs
  PROVE  Path(t) \in Paths
  BY DEF PageInv, Path

\* No link leads to the page it is on.
LEMMA LinksMove ==
  ASSUME PageInv, NEW t \in Tabs, NEW k \in Links(t)
  PROVE  k.to \in Paths /\ k.to # Path(t)
<1>1. Path(t) \in Paths
  BY PathIsAddress
<1>2. CASE OnHome(t)
  <2>1. k \in RoadmapLinks(roadmap[t])
    BY <1>2 DEF Links, OnHome, OnLesson
  <2>2. k = Link(LessonPath(roadmap[t].activePhase, 1), <<>>) /\ roadmap[t].activePhase # None
    BY <2>1 DEF RoadmapLinks
  <2>3. roadmap[t].activePhase \in Int
    <3>1. roadmap[t].activePhase \in PhaseIds
      BY <2>2 DEF PageInv, RoadmapState
    <3> QED  BY <3>1, PhaseIdsAreNumbers
  <2>4. k.to = LessonPath(roadmap[t].activePhase, 1)
    BY <2>2 DEF Link
  <2> QED  BY <1>2, <2>3, <2>4, KnownPaths DEF OnHome, LessonPath, Address
<1>3. CASE OnLesson(t) /\ IsLesson(Path(t), locale[t])
  <2>1. k \in LessonLinks(Path(t), locale[t])
    BY <1>3 DEF Links, OnHome, OnLesson
  <2>2. \/ k.to = Home
        \/ k.to = LessonPath(Path(t).phaseId, Path(t).lessonId - 1)
        \/ k.to = LessonPath(Path(t).phaseId, Path(t).lessonId + 1)
    BY <2>1 DEF LessonLinks, Link
  <2>3. Path(t).phaseId \in Int /\ Path(t).lessonId \in Int /\ Path(t).page = "lesson"
    BY <1>1, <1>3 DEF Paths, OnLesson
  <2> QED  BY <2>2, <2>3, KnownPaths DEF Home, LessonPath, Address
<1>4. CASE OnLesson(t) /\ ~IsLesson(Path(t), locale[t])
  <2>1. k = Link(Home, <<>>)
    BY <1>4 DEF Links, OnHome, OnLesson
  <2>2. k.to = Home
    BY <2>1 DEF Link
  <2> QED  BY <1>4, <2>2, KnownPaths DEF OnLesson, Home, Address
<1>5. CASE ~OnHome(t) /\ ~OnLesson(t)
  BY <1>5 DEF Links
<1> QED  BY <1>2, <1>3, <1>4, <1>5

\* The history of the tab after a push, and the address it shows.
LEMMA PushStep ==
  ASSUME PageInv, NEW t \in Tabs, NEW p \in Paths, p # Path(t), Push(t, p)
  PROVE  /\ entries' \in [Tabs -> Seq(Paths)]
         /\ at' \in [Tabs -> Nat]
         /\ \A u \in Tabs : at'[u] \in 1..Len(entries'[u]) /\ Differ(entries'[u])
         /\ entries'[t][at'[t]] = p
         /\ \A u \in Tabs \ {t} : entries'[u] = entries[u] /\ at'[u] = at[u]
         /\ at[t] <= MAX_ENTRIES => Len(entries'[t]) <= MAX_ENTRIES
<1> DEFINE base == Base(entries[t], at[t])
<1>1. /\ entries' = [entries EXCEPT ![t] = Append(base, p)]
      /\ at' = [at EXCEPT ![t] = Len(base) + 1]
  BY DEF Push, Base
<1>2. /\ entries[t] \in Seq(Paths) /\ at[t] \in 1..Len(entries[t]) /\ Differ(entries[t])
      /\ p # entries[t][at[t]]
  BY DEF PageInv, Path
<1>3. /\ Append(base, p) \in Seq(Paths)
      /\ Len(base) + 1 \in 1..Len(Append(base, p))
      /\ Append(base, p)[Len(base) + 1] = p
      /\ Differ(Append(base, p))
      /\ at[t] <= MAX_ENTRIES => Len(Append(base, p)) <= MAX_ENTRIES
  BY <1>2, PushedHistory
<1> DEFINE new == Append(base, p)
<1> DEFINE n == Len(base) + 1
<1>4. /\ new \in Seq(Paths) /\ n \in 1..Len(new) /\ new[n] = p /\ Differ(new)
      /\ at[t] <= MAX_ENTRIES => Len(new) <= MAX_ENTRIES
  BY <1>3
<1>5. entries' = [entries EXCEPT ![t] = new] /\ at' = [at EXCEPT ![t] = n]
  BY <1>1
<1> HIDE DEF new, n
<1>6. entries'[t] = new /\ at'[t] = n
  BY <1>5 DEF PageInv
<1>7. \A u \in Tabs \ {t} : entries'[u] = entries[u] /\ at'[u] = at[u]
  BY <1>5 DEF PageInv
<1>8. entries' \in [Tabs -> Seq(Paths)]
  BY <1>4, <1>5 DEF PageInv
<1>9. n \in Nat
  BY <1>4
<1>10. at' \in [Tabs -> Nat]
  BY <1>9, <1>5 DEF PageInv
<1>11. \A u \in Tabs : at'[u] \in 1..Len(entries'[u]) /\ Differ(entries'[u])
  BY <1>4, <1>6, <1>7, Zenon DEF PageInv
<1> QED  BY <1>4, <1>6, <1>7, <1>8, <1>10, <1>11

LEMMA PageStays ==
  ASSUME PageInv, UNCHANGED <<entries, at, deps>>, roadmap' \in [Tabs -> RoadmapState],
         locale' \in [Tabs -> Locales \cup {Closed}]
  PROVE  PageInv'
  BY DEF PageInv

LEMMA FreshIsState == Fresh \in RoadmapState
  BY DEF Fresh, RoadmapState, TABS

LEMMA LocaleTyped ==
  ASSUME locale \in [Tabs -> Locales \cup {Closed}], [Next]_vars
  PROVE  locale' \in [Tabs -> Locales \cup {Closed}]
<1>1. ASSUME NEW t \in Tabs, Open(t) \/ Reload(t) \/ Close(t)
      PROVE  locale' \in [Tabs -> Locales \cup {Closed}]
  BY <1>1, InitialIsLocale DEF Open, Reload, Close, LoadLocale, CloseLocale
<1>2. ASSUME NEW t \in Tabs, SetLocale(t)
      PROVE  locale' \in [Tabs -> Locales \cup {Closed}]
  BY <1>2 DEF SetLocale, handleSetLocale
<1>3. ASSUME NEW t \in Tabs, FollowLink(t) \/ TypeAddress(t) \/ Go(t)
      PROVE  locale' = locale
  BY <1>3 DEF FollowLink, TypeAddress, Go, Show, localeVars
<1>4. ASSUME NEW t \in Tabs,
             \/ SetActiveTab(t) \/ SetActivePhase(t) \/ Effect(t) \/ toggleSection(t)
             \/ toggleHint(t) \/ togglePseudo(t) \/ Scroll(t)
      PROVE  locale' = locale
  BY <1>4 DEF SetActiveTab, SetActivePhase, Effect, toggleSection, toggleHint, togglePseudo,
              Scroll, localeVars
<1> QED  BY <1>1, <1>2, <1>3, <1>4 DEF Next, vars, localeVars

\* Loading a tab, or closing it, gives it a new history and new pages.
LEMMA MountStep ==
  ASSUME PageInv, locale' \in [Tabs -> Locales \cup {Closed}], NEW t \in Tabs, MountAll(t),
         \/ UNCHANGED <<entries, at>>
         \/ \E p \in Paths : /\ entries' = [entries EXCEPT ![t] = <<p>>]
                             /\ at' = [at EXCEPT ![t] = 1]
  PROVE  PageInv'
<1>1. roadmap' \in [Tabs -> RoadmapState] /\ deps' \in [Tabs -> Paths]
  BY FreshIsState, KnownPaths DEF MountAll, PageInv
<1>2. CASE UNCHANGED <<entries, at>>
  BY <1>1, <1>2 DEF PageInv
<1>3. ASSUME NEW p \in Paths, entries' = [entries EXCEPT ![t] = <<p>>],
             at' = [at EXCEPT ![t] = 1]
      PROVE  PageInv'
  <2>1. <<p>> \in Seq(Paths) /\ 1 \in 1..Len(<<p>>) /\ Differ(<<p>>)
    BY DEF Differ
  <2> DEFINE new == <<p>>
  <2>2. new \in Seq(Paths) /\ 1 \in 1..Len(new) /\ Differ(new)
    BY <2>1
  <2>3. entries' = [entries EXCEPT ![t] = new]
    BY <1>3
  <2> HIDE DEF new
  <2>4. entries' \in [Tabs -> Seq(Paths)] /\ at' \in [Tabs -> Nat]
    BY <1>3, <2>2, <2>3 DEF PageInv
  <2>5. \A u \in Tabs : at'[u] \in 1..Len(entries'[u]) /\ Differ(entries'[u])
    BY <1>3, <2>2, <2>3, Zenon DEF PageInv
  <2> QED  BY <1>1, <2>4, <2>5 DEF PageInv
<1> QED  BY <1>2, <1>3

\* What showing an address does to the pages of the tab.
LEMMA ShowStep ==
  ASSUME PageInv, NEW t \in Tabs, NEW p \in Paths, Show(t, p)
  PROVE  roadmap' \in [Tabs -> RoadmapState] /\ deps' \in [Tabs -> Paths] /\ locale' = locale
  BY FreshIsState, KnownPaths DEF Show, PageInv, localeVars

LEMMA PushShowStep ==
  ASSUME PageInv, NEW t \in Tabs, NEW p \in Paths, p # Path(t), Push(t, p), Show(t, p)
  PROVE  PageInv'
  BY PushStep, ShowStep DEF PageInv

LEMMA PageStep ==
  ASSUME PageInv, [Next]_vars
  PROVE  PageInv'
<1>0. locale' \in [Tabs -> Locales \cup {Closed}]
  BY LocaleTyped DEF PageInv
<1>1. CASE UNCHANGED vars
  BY <1>1 DEF PageInv, vars, pageVars, localeVars
<1>2. ASSUME NEW t \in Tabs, Open(t)
      PROVE  PageInv'
  BY <1>0, <1>2, MountStep, SiteAssumption, Zenon DEF Open
<1>3. ASSUME NEW t \in Tabs, Reload(t)
      PROVE  PageInv'
  BY <1>0, <1>3, MountStep DEF Reload
<1>4. ASSUME NEW t \in Tabs, Close(t)
      PROVE  PageInv'
  BY <1>0, <1>4, MountStep, KnownPaths, Zenon DEF Close
<1>5. ASSUME NEW t \in Tabs, FollowLink(t)
      PROVE  PageInv'
  <2>1. PICK k \in Links(t) : Push(t, k.to) /\ Show(t, k.to)
    BY <1>5 DEF FollowLink
  <2> QED  BY <2>1, LinksMove, PushShowStep
<1>6. ASSUME NEW t \in Tabs, TypeAddress(t)
      PROVE  PageInv'
  <2>1. PICK p \in TypedPaths \ {Path(t)} : Push(t, p) /\ Show(t, p)
    BY <1>6 DEF TypeAddress
  <2> QED  BY <2>1, SiteAssumption, PushShowStep
<1>7. ASSUME NEW t \in Tabs, Go(t)
      PROVE  PageInv'
  <2>1. PICK i \in {at[t] - 1, at[t] + 1} \cap DOMAIN entries[t] :
           at' = [at EXCEPT ![t] = i] /\ Show(t, entries[t][i])
    BY <1>7, Zenon DEF Go
  <2>2. i \in 1..Len(entries[t]) /\ entries[t][i] \in Paths
    BY <2>1 DEF PageInv
  <2>3. roadmap' \in [Tabs -> RoadmapState] /\ deps' \in [Tabs -> Paths] /\ locale' = locale
    BY <2>1, <2>2, ShowStep
  <2>4. i \in Nat
    BY <2>2
  <2>5. entries' = entries
    BY <1>7 DEF Go
  <2>6. at' \in [Tabs -> Nat] /\ \A u \in Tabs : at'[u] \in 1..Len(entries'[u])
    BY <2>1, <2>2, <2>4, <2>5 DEF PageInv
  <2> QED  BY <2>3, <2>5, <2>6 DEF PageInv
<1>8. ASSUME NEW t \in Tabs, SetActiveTab(t)
      PROVE  PageInv'
  <2>1. PICK k \in TABS : roadmap' = [roadmap EXCEPT ![t].activeTab = k]
    BY <1>8, Zenon DEF SetActiveTab
  <2>2. roadmap' \in [Tabs -> RoadmapState]
    BY <2>1, Zenon DEF PageInv, RoadmapState
  <2> QED  BY <1>0, <1>8, <2>2, PageStays DEF SetActiveTab
<1>9. ASSUME NEW t \in Tabs, SetActivePhase(t)
      PROVE  PageInv'
  <2>1. PICK id \in PhaseIds :
           roadmap' = [roadmap EXCEPT ![t].activePhase = IF @ = id THEN None ELSE id]
    BY <1>9, SiteAssumption, Zenon DEF SetActivePhase
  <2>2. roadmap' \in [Tabs -> RoadmapState]
    BY <2>1, Zenon DEF PageInv, RoadmapState
  <2> QED  BY <1>0, <1>9, <2>2, PageStays DEF SetActivePhase
<1>10. ASSUME NEW t \in Tabs, SetLocale(t)
       PROVE  PageInv'
  BY <1>0, <1>10, PageStays DEF SetLocale, pageVars, PageInv
<1>11. ASSUME NEW t \in Tabs, Effect(t)
       PROVE  PageInv'
  BY <1>0, <1>11, PathIsAddress DEF Effect, PageInv
<1>12. ASSUME NEW t \in Tabs, toggleSection(t) \/ toggleHint(t) \/ togglePseudo(t) \/ Scroll(t)
       PROVE  PageInv'
  <2>1. UNCHANGED <<entries, at, roadmap, deps>>
    BY <1>12 DEF toggleSection, toggleHint, togglePseudo, Scroll
  <2> QED  BY <1>0, <2>1, PageStays DEF PageInv
<1> QED  BY <1>1, <1>2, <1>3, <1>4, <1>5, <1>6, <1>7, <1>8, <1>9, <1>10, <1>11, <1>12 DEF Next

LEMMA PageInit ==
  ASSUME Init
  PROVE  PageInv
<1>1. locale \in [Tabs -> Locales \cup {Closed}]
  BY DEF Init, LocaleInit
<1>2. <<Home>> \in Seq(Paths) /\ 1 \in 1..Len(<<Home>>) /\ Differ(<<Home>>)
  BY KnownPaths DEF Differ
<1>3. /\ entries \in [Tabs -> Seq(Paths)] /\ at \in [Tabs -> Nat]
      /\ \A t \in Tabs : at[t] \in 1..Len(entries[t]) /\ Differ(entries[t])
  BY <1>2 DEF Init
<1>4. roadmap \in [Tabs -> RoadmapState] /\ deps \in [Tabs -> Paths]
  BY FreshIsState, KnownPaths DEF Init
<1> QED  BY <1>1, <1>3, <1>4 DEF PageInv

\* For every course and every size of the history: going back or forward
\* always leaves the page, since no link of LessonPage or CourseRoadmap leads
\* to the page it is on.
THEOREM HistoryMoves == Spec => []BackAndForwardMove
<1>1. PageInv /\ [Next]_vars => PageInv'
  BY PageStep
<1>2. PageInv => BackAndForwardMove
  BY DEF PageInv, BackAndForwardMove, Differ
<1> QED  BY <1>1, <1>2, PageInit, PTL DEF Spec

-----------------------------------------------------------------------------
(***************************************************************************)
(* The panels.                                                             *)
(***************************************************************************)
TabStep(t) ==
  \/ Open(t) \/ Reload(t) \/ Close(t)
  \/ FollowLink(t) \/ TypeAddress(t) \/ Go(t)
  \/ SetActiveTab(t) \/ SetActivePhase(t) \/ SetLocale(t)
  \/ Effect(t) \/ toggleSection(t) \/ toggleHint(t) \/ togglePseudo(t) \/ Scroll(t)

PanelTypes == lesson \in [Tabs -> PanelState] /\ opened \in [Tabs -> PanelState]

SameTab(u) ==
  /\ locale'[u] = locale[u] /\ entries'[u] = entries[u] /\ at'[u] = at[u]
  /\ lesson'[u] = lesson[u] /\ deps'[u] = deps[u] /\ opened'[u] = opened[u]
  /\ roadmap'[u] = roadmap[u]

\* A step of one tab leaves the state of the others alone.
LEMMA OthersStay ==
  ASSUME PageInv, PanelTypes, NEW t \in Tabs, TabStep(t), NEW u \in Tabs, u # t
  PROVE  SameTab(u)
<1> USE DEF PageInv, PanelTypes, SameTab
<1>1. CASE Open(t) \/ Reload(t) \/ Close(t)
  BY <1>1 DEF Open, Reload, Close, LoadLocale, CloseLocale, MountAll
<1>2. CASE FollowLink(t)
  BY <1>2 DEF FollowLink, Push, Show, localeVars
<1>3. CASE TypeAddress(t)
  BY <1>3 DEF TypeAddress, Push, Show, localeVars
<1>4. CASE Go(t)
  BY <1>4 DEF Go, Show, localeVars
<1>5. CASE SetActiveTab(t)
  BY <1>5 DEF SetActiveTab, localeVars
<1>6. CASE SetActivePhase(t)
  BY <1>6 DEF SetActivePhase, localeVars
<1>7. CASE SetLocale(t)
  BY <1>7 DEF SetLocale, handleSetLocale, pageVars
<1>8. CASE Effect(t)
  BY <1>8 DEF Effect, localeVars
<1>9. CASE toggleSection(t)
  BY <1>9 DEF toggleSection, localeVars
<1>10. CASE toggleHint(t)
  BY <1>10 DEF toggleHint, localeVars
<1>11. CASE togglePseudo(t)
  BY <1>11 DEF togglePseudo, localeVars
<1>12. CASE Scroll(t)
  BY <1>12 DEF Scroll, localeVars
<1> QED  BY <1>1, <1>2, <1>3, <1>4, <1>5, <1>6, <1>7, <1>8, <1>9, <1>10, <1>11, <1>12, Zenon DEF TabStep

LEMMA NothingOpenIsState == NothingOpen \in PanelState
  BY Zenon DEF NothingOpen, PanelState

LEMMA PanelTypesStep ==
  ASSUME PageInv, PanelTypes, NEW t \in Tabs, TabStep(t)
  PROVE  PanelTypes'
<1>1. CASE Open(t) \/ Reload(t) \/ Close(t)
  BY <1>1, NothingOpenIsState DEF Open, Reload, Close, MountAll, PanelTypes
<1>2. ASSUME NEW p \in Paths, Show(t, p)
      PROVE  PanelTypes'
  <2>1. [NothingOpen EXCEPT !.scrolled = lesson[t].scrolled] \in PanelState
    BY DEF PanelTypes, PanelState, NothingOpen
  <2> QED  BY <1>2, <2>1, NothingOpenIsState DEF Show, PanelTypes
<1>3. CASE FollowLink(t) \/ TypeAddress(t) \/ Go(t)
  <2>1. CASE FollowLink(t)
    BY <2>1, <1>2, LinksMove DEF FollowLink
  <2>2. CASE TypeAddress(t)
    BY <2>2, <1>2, SiteAssumption DEF TypeAddress
  <2>3. CASE Go(t)
    <3>1. PICK i \in DOMAIN entries[t] : Show(t, entries[t][i])
      BY <2>3 DEF Go
    <3> QED  BY <3>1, <1>2 DEF PageInv
  <2> QED  BY <1>3, <2>1, <2>2, <2>3
<1>4. CASE SetActiveTab(t) \/ SetActivePhase(t) \/ SetLocale(t)
  BY <1>4 DEF SetActiveTab, SetActivePhase, SetLocale, pageVars, PanelTypes
<1>5. CASE Effect(t)
  BY <1>5, NothingOpenIsState DEF Effect, PanelTypes
<1>6. ASSUME OnLesson(t), IsLesson(Path(t), locale[t])
      PROVE  /\ LessonAt(Path(t), locale[t]).sections \in Seq(Seq(BlockTypes))
             /\ LessonAt(Path(t), locale[t]).exercises \in Seq(CodeExercise)
  <2>1. locale[t] \in Locales
    BY <1>6 DEF OnLesson, IsOpen, PageInv
  <2> QED  BY <1>6, <2>1, LessonShown DEF LessonData
<1>7. CASE toggleSection(t)
  <2>1. PICK i \in DOMAIN LessonAt(Path(t), locale[t]).sections :
           /\ lesson' = [lesson EXCEPT ![t].sections = Flip(@, i - 1)]
           /\ opened' = [opened EXCEPT ![t].sections = @ \cup {i - 1}]
    BY <1>7, Zenon DEF toggleSection
  <2>2. i - 1 \in Nat
    BY <1>6, <1>7, <2>1 DEF toggleSection
  <2> QED  BY <2>1, <2>2 DEF PanelTypes, PanelState, Flip
<1>8. ASSUME NEW e \in Exercises(t), OnLesson(t), IsLesson(Path(t), locale[t])
      PROVE  e.id \in STRING
  <2> DEFINE exs == LessonAt(Path(t), locale[t]).exercises
  <2>1. PICK i \in DOMAIN exs : e = exs[i]
    BY <1>8 DEF Exercises
  <2>2. exs \in Seq(CodeExercise)
    BY <1>6, <1>8
  <2> HIDE DEF exs
  <2>3. exs[i] \in CodeExercise
    BY <2>1, <2>2
  <2> QED  BY <2>1, <2>3 DEF CodeExercise
<1>9. CASE toggleHint(t)
  <2>1. PICK e \in Exercises(t) :
           /\ lesson' = [lesson EXCEPT ![t].hints = Flip(@, e.id)]
           /\ opened' = [opened EXCEPT ![t].hints = @ \cup {e.id}]
    BY <1>9, Zenon DEF toggleHint
  <2>2. e.id \in STRING
    BY <1>8, <1>9, <2>1 DEF toggleHint
  <2> QED  BY <2>1, <2>2, SMTT(30) DEF PanelTypes, PanelState, Flip
<1>10. CASE togglePseudo(t)
  <2>1. PICK e \in Exercises(t) :
           /\ lesson' = [lesson EXCEPT ![t].pseudo = Flip(@, e.id)]
           /\ opened' = [opened EXCEPT ![t].pseudo = @ \cup {e.id}]
    BY <1>10, Zenon DEF togglePseudo
  <2>2. e.id \in STRING
    BY <1>8, <1>10, <2>1 DEF togglePseudo
  <2> QED  BY <2>1, <2>2, SMTT(30) DEF PanelTypes, PanelState, Flip
<1>11. CASE Scroll(t)
  BY <1>11, ZenonT(30) DEF Scroll, PanelTypes, PanelState
<1> QED  BY <1>1, <1>3, <1>4, <1>5, <1>7, <1>9, <1>10, <1>11 DEF TabStep

\* The panels open on a lesson, against those the reader opened there.
Clean(l, o) ==
  /\ l.sections \subseteq o.sections
  /\ l.hints \subseteq o.hints
  /\ l.pseudo \subseteq o.pseudo
  /\ l.scrolled => o.scrolled

Settled(t) == OnLesson(t) /\ ~Pending(t) => Clean(lesson[t], opened[t])

LEMMA SettledIsEnough == NothingCarriedOver <=> \A t \in Tabs : Settled(t)
  BY DEF NothingCarriedOver, Settled, Clean

LEMMA SettledStays ==
  ASSUME NEW u, Settled(u), SameTab(u)
  PROVE  Settled(u)'
  BY DEF Settled, SameTab, OnLesson, Pending, IsOpen, Path

\* A navigation to another address leaves the effect pending or the lesson.
LEMMA SettledByMove ==
  ASSUME PageInv, PanelTypes, NEW t \in Tabs, NEW p \in Paths, p # Path(t), ~Pending(t),
         Show(t, p), entries'[t][at'[t]] = p
  PROVE  Settled(t)'
<1>1. CASE p.page # "lesson"
  BY <1>1 DEF Settled, OnLesson, Path
<1>2. CASE p.page = "lesson" /\ Path(t).page # "lesson"
  <2>1. deps'[t] = Elsewhere
    BY <1>2 DEF Show, PageInv
  <2>2. Elsewhere # p
    BY <1>2 DEF Elsewhere, Address
  <2> QED  BY <2>1, <2>2 DEF Settled, Pending, Path, OnLesson
<1>3. CASE p.page = "lesson" /\ Path(t).page = "lesson"
  <2>1. deps'[t] = deps[t]
    BY <1>3 DEF Show, PageInv
  <2>2. CASE OnLesson(t)
    BY <2>1, <2>2 DEF Settled, Pending, Path, OnLesson
  <2>3. CASE ~OnLesson(t)
    <3>1. ~IsOpen(t)
      BY <1>3, <2>3 DEF OnLesson
    <3>2. ~IsOpen(t)'
      BY <3>1 DEF Show, localeVars, IsOpen
    <3> QED  BY <3>2 DEF Settled, OnLesson
  <2> QED  BY <2>2, <2>3
<1> QED  BY <1>1, <1>2, <1>3

LEMMA SettledStep ==
  ASSUME PageInv, PanelTypes, NEW t \in Tabs, TabStep(t), Settled(t)
  PROVE  Settled(t)'
<1>1. CASE Open(t) \/ Reload(t) \/ Close(t)
  <2>1. lesson'[t] = NothingOpen
    BY <1>1 DEF Open, Reload, Close, MountAll, PanelTypes
  <2>2. opened'[t] = NothingOpen
    BY <1>1 DEF Open, Reload, Close, MountAll, PanelTypes
  <2> QED  BY <2>1, <2>2 DEF Settled, Clean, NothingOpen
<1>2. CASE FollowLink(t)
  <2>1. PICK k \in Links(t) : Push(t, k.to) /\ Show(t, k.to)
    BY <1>2 DEF FollowLink
  <2>2. k.to \in Paths /\ k.to # Path(t)
    BY LinksMove
  <2> QED  BY <1>2, <2>1, <2>2, PushStep, SettledByMove DEF FollowLink
<1>3. CASE TypeAddress(t)
  <2>1. PICK p \in TypedPaths \ {Path(t)} : Push(t, p) /\ Show(t, p)
    BY <1>3 DEF TypeAddress
  <2> QED  BY <1>3, <2>1, SiteAssumption, PushStep, SettledByMove DEF TypeAddress
<1>4. CASE Go(t)
  <2>1. PICK i \in {at[t] - 1, at[t] + 1} \cap DOMAIN entries[t] :
           at' = [at EXCEPT ![t] = i] /\ Show(t, entries[t][i])
    BY <1>4, Zenon DEF Go
  <2> DEFINE n == at[t]
  <2> DEFINE s == entries[t]
  <2>2. s \in Seq(Paths) /\ n \in 1..Len(s) /\ Differ(s) /\ Path(t) = s[n]
    BY DEF PageInv, Path
  <2>3. i \in 1..Len(s) /\ (i = n - 1 \/ i = n + 1)
    BY <2>1, <2>2
  <2>4. entries'[t][at'[t]] = s[i]
    BY <1>4, <2>1 DEF Go, PageInv
  <2> HIDE DEF n, s
  <2>5. s[i] \in Paths
    BY <2>2, <2>3
  <2>6. s[i] # s[n]
    <3>1. CASE i = n - 1
      <4>1. i \in 1..Len(s) - 1 /\ i + 1 = n
        BY <2>2, <2>3, <3>1
      <4> QED  BY <2>2, <4>1 DEF Differ
    <3>2. CASE i = n + 1
      <4>1. n \in 1..Len(s) - 1
        BY <2>2, <2>3, <3>2
      <4> QED  BY <2>2, <3>2, <4>1 DEF Differ
    <3> QED  BY <2>3, <3>1, <3>2
  <2>7. Show(t, s[i])
    BY <2>1 DEF s
  <2>8. ~Pending(t)
    BY <1>4 DEF Go
  <2> QED  BY <2>2, <2>4, <2>5, <2>6, <2>7, <2>8, SettledByMove
<1>5. CASE SetActiveTab(t) \/ SetActivePhase(t)
  BY <1>5 DEF SetActiveTab, SetActivePhase, localeVars, Settled, OnLesson, Pending, IsOpen, Path
<1>6. CASE SetLocale(t)
  <2>1. OnHome(t) /\ UNCHANGED pageVars
    BY <1>6 DEF SetLocale
  <2> QED  BY <2>1 DEF OnHome, Settled, OnLesson, Path, pageVars
<1>7. CASE Effect(t)
  <2>1. lesson'[t] = NothingOpen
    BY <1>7 DEF Effect, PanelTypes
  <2>2. opened'[t] = opened[t] /\ opened[t] \in PanelState
    BY <1>7 DEF Effect, PanelTypes
  <2> QED  BY <2>1, <2>2, SMTT(30) DEF Settled, Clean, NothingOpen, PanelState
<1>8. ASSUME UNCHANGED <<localeVars, entries, at, deps>>,
             Clean(lesson[t], opened[t]) => Clean(lesson'[t], opened'[t])
      PROVE  Settled(t)'
  BY <1>8 DEF localeVars, Settled, OnLesson, Pending, IsOpen, Path
<1>9. CASE toggleSection(t)
  <2>1. PICK i \in DOMAIN LessonAt(Path(t), locale[t]).sections :
           /\ lesson' = [lesson EXCEPT ![t].sections = Flip(@, i - 1)]
           /\ opened' = [opened EXCEPT ![t].sections = @ \cup {i - 1}]
    BY <1>9, Zenon DEF toggleSection
  <2>2. Clean(lesson[t], opened[t]) => Clean(lesson'[t], opened'[t])
    BY <2>1 DEF PanelTypes, PanelState, Clean, Flip
  <2> QED  BY <1>8, <1>9, <2>2 DEF toggleSection
<1>10. CASE toggleHint(t)
  <2>1. PICK e \in Exercises(t) :
           /\ lesson' = [lesson EXCEPT ![t].hints = Flip(@, e.id)]
           /\ opened' = [opened EXCEPT ![t].hints = @ \cup {e.id}]
    BY <1>10, Zenon DEF toggleHint
  <2>2. Clean(lesson[t], opened[t]) => Clean(lesson'[t], opened'[t])
    BY <2>1 DEF PanelTypes, PanelState, Clean, Flip
  <2> QED  BY <1>8, <1>10, <2>2 DEF toggleHint
<1>11. CASE togglePseudo(t)
  <2>1. PICK e \in Exercises(t) :
           /\ lesson' = [lesson EXCEPT ![t].pseudo = Flip(@, e.id)]
           /\ opened' = [opened EXCEPT ![t].pseudo = @ \cup {e.id}]
    BY <1>11, Zenon DEF togglePseudo
  <2>2. Clean(lesson[t], opened[t]) => Clean(lesson'[t], opened'[t])
    BY <2>1 DEF PanelTypes, PanelState, Clean, Flip
  <2> QED  BY <1>8, <1>11, <2>2 DEF togglePseudo
<1>12. CASE Scroll(t)
  <2>1. Clean(lesson[t], opened[t]) => Clean(lesson'[t], opened'[t])
    BY <1>12 DEF Scroll, PanelTypes, PanelState, Clean
  <2> QED  BY <1>8, <1>12, <2>1 DEF Scroll
<1> QED  BY <1>1, <1>2, <1>3, <1>4, <1>5, <1>6, <1>7, <1>9, <1>10, <1>11, <1>12 DEF TabStep

SiteInv == PageInv /\ PanelTypes /\ \A t \in Tabs : Settled(t)

LEMMA SiteInit ==
  ASSUME Init
  PROVE  SiteInv
<1>1. PanelTypes
  BY NothingOpenIsState DEF Init, PanelTypes
<1>2. \A t \in Tabs : Settled(t)
  BY DEF Init, LocaleInit, Settled, OnLesson, IsOpen
<1> QED  BY <1>1, <1>2, PageInit DEF SiteInv

LEMMA SiteStep ==
  ASSUME SiteInv, [Next]_vars
  PROVE  SiteInv'
<1>1. PageInv'
  BY PageStep DEF SiteInv
<1>2. CASE UNCHANGED vars
  BY <1>1, <1>2
     DEF SiteInv, PanelTypes, vars, localeVars, pageVars, Settled, OnLesson, Pending, IsOpen, Path
<1>3. ASSUME NEW t \in Tabs, TabStep(t)
      PROVE  SiteInv'
  <2>1. PanelTypes'
    BY <1>3, PanelTypesStep DEF SiteInv
  <2>2. Settled(t)'
    BY <1>3, SettledStep DEF SiteInv
  <2>3. \A u \in Tabs \ {t} : Settled(u)'
    BY <1>3, OthersStay, SettledStays DEF SiteInv
  <2>4. \A u \in Tabs : Settled(u)'
    BY <2>2, <2>3
  <2> QED  BY <1>1, <2>1, <2>4 DEF SiteInv
<1> QED  BY <1>2, <1>3 DEF Next, TabStep

\* For every course and any number of tabs: once the effect of LessonPage has
\* run, only panels are open that the reader opened on this visit.
THEOREM CleanStart == Spec => []NothingCarriedOver
<1>1. SiteInv /\ [Next]_vars => SiteInv'
  BY SiteStep
<1>2. SiteInv => NothingCarriedOver
  BY SettledIsEnough DEF SiteInv
<1> QED  BY <1>1, <1>2, SiteInit, PTL DEF Spec

-----------------------------------------------------------------------------
(***************************************************************************)
(* The links.                                                              *)
(***************************************************************************)

\* The links of a lesson lead to the neighbours they name.
LEMMA NeighboursExist ==
  ASSUME NEW l \in Locales, NEW path \in Paths, IsLesson(path, l),
         NEW k \in LessonLinks(path, l), k.to.page = "lesson"
  PROVE  IsLesson(k.to, l) /\ k.names = Title(LessonAt(k.to, l))
<1> DEFINE p == path.phaseId
<1> DEFINE n == path.lessonId
<1> DEFINE ls == getPhaseContent(p, l).lessons
<1>1. n \in Int /\ n \in 1..Len(ls) /\ ls \in Seq(LessonData)
  BY LessonByNumber, PhaseLessons DEF IsLesson, Paths
<1>2. \/ k = Link(LessonPath(p, n - 1), Title(ls[n - 1])) /\ n > 1
      \/ k = Link(LessonPath(p, n + 1), Title(ls[n + 1])) /\ n < Len(ls)
  BY SMTT(30) DEF LessonLinks, hasPrev, hasNext, Link, Home, Address
<1>3. PICK m \in {n - 1, n + 1} :
        k.to = LessonPath(p, m) /\ k.names = Title(ls[m]) /\ m \in 1..Len(ls)
  <2>1. n > 1 => n - 1 \in 1..Len(ls)
    BY <1>1
  <2>2. n < Len(ls) => n + 1 \in 1..Len(ls)
    BY <1>1
  <2> HIDE DEF p, n, ls
  <2> QED  BY <1>2, <2>1, <2>2 DEF Link
<1>4. HasLesson(p, m, l) /\ getLesson(p, m, l) = ls[m]
  BY <1>3, LessonByNumber
<1>5. k.to.page = "lesson" /\ k.to.phaseId = p /\ k.to.lessonId = m
  BY <1>3, SMTT(30) DEF LessonPath, Address
<1> QED  BY <1>3, <1>4, <1>5 DEF IsLesson, LessonAt

\* For every course whose lessons are numbered in order: every link leads to a
\* lesson that exists in the language of the tab and bears its title, although
\* LessonPage makes the address from the number and the title by position.
THEOREM NoDeadLinks == Spec => []LinksLeadWhereTheySay
<1>1. ASSUME PageInv, NEW t \in Tabs, NEW k \in Links(t), k.to.page = "lesson"
      PROVE  /\ IsLesson(k.to, locale[t])
             /\ k.names # <<>> => k.names = Title(LessonAt(k.to, locale[t]))
  <2>1. CASE OnHome(t)
    <3>1. locale[t] \in Locales
      BY <1>1, <2>1 DEF OnHome, IsOpen, PageInv
    <3>2. k \in RoadmapLinks(roadmap[t])
      BY <2>1 DEF Links, OnHome, OnLesson
    <3> DEFINE p == roadmap[t].activePhase
    <3>3. k = Link(LessonPath(p, 1), <<>>) /\ p \in DOMAIN Content["zh-CN"]
      BY <3>2 DEF RoadmapLinks, hasLessons
    <3> HIDE DEF p
    <3>4. 1 \in 1..Len(getPhaseContent(p, locale[t]).lessons)
      BY <3>1, <3>3, PhaseLessons
    <3>5. HasLesson(p, 1, locale[t])
      BY <3>1, <3>4, LessonByNumber
    <3>6. k.to.phaseId = p /\ k.to.lessonId = 1 /\ k.names = <<>>
      BY <3>3 DEF Link, LessonPath, Address
    <3> QED  BY <1>1, <3>5, <3>6 DEF IsLesson
  <2>2. CASE OnLesson(t) /\ IsLesson(Path(t), locale[t])
    <3>1. locale[t] \in Locales
      BY <1>1, <2>2 DEF OnLesson, IsOpen, PageInv
    <3>2. k \in LessonLinks(Path(t), locale[t])
      BY <2>2 DEF Links, OnHome, OnLesson
    <3>3. Path(t) \in Paths
      BY <1>1, PathIsAddress
    <3> QED  BY <1>1, <2>2, <3>1, <3>2, <3>3, NeighboursExist
  <2>3. CASE OnLesson(t) /\ ~IsLesson(Path(t), locale[t])
    <3>1. k = Link(Home, <<>>)
      BY <2>3 DEF Links, OnHome, OnLesson
    <3> QED  BY <1>1, <3>1 DEF Link, Home, Address
  <2>4. CASE ~OnHome(t) /\ ~OnLesson(t)
    BY <2>4 DEF Links
  <2> QED  BY <2>1, <2>2, <2>3, <2>4
<1>2. PageInv => LinksLeadWhereTheySay
  BY <1>1 DEF LinksLeadWhereTheySay
<1>3. PageInv /\ [Next]_vars => PageInv'
  BY PageStep
<1> QED  BY <1>2, <1>3, PageInit, PTL DEF Spec

-----------------------------------------------------------------------------
(***************************************************************************)
(* The roadmap page implements the prototype.                              *)
(***************************************************************************)
LEMMA PrototypePhases == {Proto!PHASES[i].id : i \in DOMAIN Proto!PHASES} = PhaseIds
<1>1. {Proto!PHASES[i].id : i \in DOMAIN Proto!PHASES} = 0..6
  BY DEF Proto!PHASES, Proto!Phase
<1> QED  BY <1>1, PhaseIdsAreNumbers

\* The state of the prototype that a tab stands for.
ProtoPhase(t) == IF OnHome(t) THEN roadmap[t].activePhase ELSE None
ProtoTab(t) == IF OnHome(t) THEN roadmap[t].activeTab ELSE "roadmap"

MountLike(t) == ProtoPhase(t)' = None /\ ProtoTab(t)' = "roadmap"
StutterLike(t) == ProtoPhase(t)' = ProtoPhase(t) /\ ProtoTab(t)' = ProtoTab(t)
TabLike(t) == \E k \in TABS : ProtoTab(t)' = k /\ ProtoPhase(t)' = ProtoPhase(t)
PhaseLike(t) ==
  \E id \in PhaseIds :
    /\ ProtoTab(t) = "roadmap"
    /\ ProtoPhase(t)' = IF ProtoPhase(t) = id THEN None ELSE id
    /\ ProtoTab(t)' = ProtoTab(t)

LEMMA FreshMounts ==
  ASSUME NEW t, roadmap'[t] = Fresh \/ ~OnHome(t)'
  PROVE  MountLike(t)
  BY DEF MountLike, ProtoPhase, ProtoTab, Fresh, OnHome

LEMMA ShowMounts ==
  ASSUME PageInv, NEW t \in Tabs, NEW p, Show(t, p), entries'[t][at'[t]] = p
  PROVE  MountLike(t) \/ StutterLike(t)
<1>1. CASE p.page # "home"
  <2>1. ~OnHome(t)'
    BY <1>1 DEF OnHome, Path
  <2> QED  BY <2>1, FreshMounts
<1>2. CASE p.page = "home" /\ Path(t).page # "home"
  <2>1. roadmap'[t] = Fresh
    BY <1>2 DEF Show, PageInv
  <2> QED  BY <2>1, FreshMounts
<1>3. CASE p.page = "home" /\ Path(t).page = "home"
  <2>1. roadmap'[t] = roadmap[t] /\ locale' = locale
    BY <1>3 DEF Show, PageInv, localeVars
  <2>2. OnHome(t)' = OnHome(t)
    BY <1>3, <2>1 DEF OnHome, IsOpen, Path
  <2> QED  BY <2>1, <2>2 DEF StutterLike, ProtoPhase, ProtoTab
<1> QED  BY <1>1, <1>2, <1>3

LEMMA TabRefines ==
  ASSUME PageInv, NEW t \in Tabs, TabStep(t)
  PROVE  MountLike(t) \/ StutterLike(t) \/ TabLike(t) \/ PhaseLike(t)
<1>1. CASE Open(t) \/ Reload(t) \/ Close(t)
  <2>1. roadmap'[t] = Fresh
    BY <1>1 DEF Open, Reload, Close, MountAll, PageInv
  <2> QED  BY <2>1, FreshMounts
<1>2. CASE FollowLink(t)
  <2>1. PICK k \in Links(t) : Push(t, k.to) /\ Show(t, k.to)
    BY <1>2 DEF FollowLink
  <2>2. k.to \in Paths /\ k.to # Path(t)
    BY LinksMove
  <2> QED  BY <2>1, <2>2, PushStep, ShowMounts
<1>3. CASE TypeAddress(t)
  <2>1. PICK p \in TypedPaths \ {Path(t)} : Push(t, p) /\ Show(t, p)
    BY <1>3 DEF TypeAddress
  <2> QED  BY <2>1, SiteAssumption, PushStep, ShowMounts
<1>4. CASE Go(t)
  <2>1. PICK i \in DOMAIN entries[t] :
           at' = [at EXCEPT ![t] = i] /\ Show(t, entries[t][i]) /\ entries' = entries
    BY <1>4, Zenon DEF Go
  <2>2. entries'[t][at'[t]] = entries[t][i]
    BY <2>1 DEF PageInv
  <2> QED  BY <2>1, <2>2, ShowMounts
<1>5. CASE SetActiveTab(t)
  <2>1. PICK k \in TABS : roadmap' = [roadmap EXCEPT ![t].activeTab = k]
    BY <1>5, Zenon DEF SetActiveTab
  <2>2. roadmap'[t].activeTab = k /\ roadmap'[t].activePhase = roadmap[t].activePhase
    BY <2>1 DEF PageInv, RoadmapState
  <2>3. OnHome(t) /\ OnHome(t)'
    BY <1>5 DEF SetActiveTab, OnHome, IsOpen, Path, localeVars
  <2> QED  BY <2>2, <2>3 DEF TabLike, ProtoPhase, ProtoTab
<1>6. CASE SetActivePhase(t)
  <2>1. PICK id \in PhaseIds :
           roadmap' = [roadmap EXCEPT ![t].activePhase = IF @ = id THEN None ELSE id]
    BY <1>6, SiteAssumption, Zenon DEF SetActivePhase
  <2>2. /\ roadmap'[t].activePhase = IF roadmap[t].activePhase = id THEN None ELSE id
        /\ roadmap'[t].activeTab = roadmap[t].activeTab
    BY <2>1 DEF PageInv, RoadmapState
  <2>3. OnHome(t) /\ OnHome(t)' /\ roadmap[t].activeTab = "roadmap"
    BY <1>6 DEF SetActivePhase, OnHome, IsOpen, Path, localeVars
  <2> QED  BY <2>2, <2>3 DEF PhaseLike, ProtoPhase, ProtoTab
<1>7. CASE SetLocale(t)
  <2>1. OnHome(t) /\ UNCHANGED pageVars /\ locale'[t] \in Locales
    BY <1>7 DEF SetLocale, handleSetLocale, PageInv
  <2>2. OnHome(t)'
    BY <2>1, ClosedIsNoLocale DEF OnHome, IsOpen, Path, pageVars
  <2> QED  BY <2>1, <2>2 DEF StutterLike, ProtoPhase, ProtoTab, pageVars
<1>8. CASE Effect(t) \/ toggleSection(t) \/ toggleHint(t) \/ togglePseudo(t) \/ Scroll(t)
  <2>1. UNCHANGED <<locale, entries, at, roadmap>>
    BY <1>8 DEF Effect, toggleSection, toggleHint, togglePseudo, Scroll, localeVars
  <2> QED  BY <2>1 DEF StutterLike, ProtoPhase, ProtoTab, OnHome, IsOpen, Path
<1> QED  BY <1>1, <1>2, <1>3, <1>4, <1>5, <1>6, <1>7, <1>8 DEF TabStep

LEMMA ProtoStep ==
  ASSUME SiteInv, [Next]_vars
  PROVE  [Proto!Next]_(Proto!protoVars)
<1> USE DEF Proto!protoVars
<1>0. ATab \in Tabs
  BY LanguagesAssumption DEF ATab
<1>1. ASSUME StutterLike(ATab)
      PROVE  UNCHANGED Proto!protoVars
  BY <1>1 DEF StutterLike, ProtoPhase, ProtoTab
<1>2. CASE UNCHANGED vars
  <2>1. StutterLike(ATab)
    BY <1>2 DEF vars, localeVars, pageVars, StutterLike, ProtoPhase, ProtoTab, OnHome, IsOpen, Path
  <2> QED  BY <1>1, <2>1
<1>3. ASSUME NEW t \in Tabs \ {ATab}, TabStep(t)
      PROVE  UNCHANGED Proto!protoVars
  <2>1. SameTab(ATab)
    BY <1>0, <1>3, OthersStay DEF SiteInv
  <2>2. StutterLike(ATab)
    BY <2>1 DEF SameTab, StutterLike, ProtoPhase, ProtoTab, OnHome, IsOpen, Path
  <2> QED  BY <1>1, <2>2
<1>4. ASSUME TabStep(ATab)
      PROVE  Proto!Next \/ UNCHANGED Proto!protoVars
  <2>1. MountLike(ATab) \/ StutterLike(ATab) \/ TabLike(ATab) \/ PhaseLike(ATab)
    BY <1>0, <1>4, TabRefines DEF SiteInv
  <2>2. CASE MountLike(ATab)
    BY <2>2 DEF MountLike, ProtoPhase, ProtoTab, Proto!Next, Proto!Mount, Proto!None, None
  <2>3. CASE TabLike(ATab)
    BY <2>3 DEF TabLike, ProtoPhase, ProtoTab, Proto!Next, Proto!setActiveTab, Proto!TABS, TABS
  <2>4. CASE PhaseLike(ATab)
    <3>1. PICK id \in PhaseIds :
            /\ ProtoTab(ATab) = "roadmap"
            /\ ProtoPhase(ATab)' = IF ProtoPhase(ATab) = id THEN None ELSE id
            /\ ProtoTab(ATab)' = ProtoTab(ATab)
      BY <2>4 DEF PhaseLike
    <3>2. PICK i \in DOMAIN Proto!PHASES : Proto!PHASES[i].id = id
      BY PrototypePhases
    <3>3. Proto!setActivePhase(id)
      BY <3>1 DEF ProtoPhase, ProtoTab, Proto!setActivePhase, Proto!None, None
    <3> QED  BY <3>2, <3>3 DEF Proto!Next
  <2> QED  BY <1>1, <2>1, <2>2, <2>3, <2>4
<1> QED  BY <1>2, <1>3, <1>4, Zenon DEF Next, TabStep

\* The roadmap page of a tab implements course-roadmap.jsx, for every course,
\* any number of other tabs and whatever the reader does on other pages.
THEOREM RoadmapRefinesPrototype == Spec => BehavesLikePrototype
<1>1. Init => Proto!Init
  <2>1. ATab \in Tabs
    BY LanguagesAssumption DEF ATab
  <2>2. Init => ~OnHome(ATab)
    BY <2>1 DEF Init, LocaleInit, OnHome, IsOpen
  <2> QED  BY <2>2 DEF Proto!Init, Proto!None, None
<1>2. SiteInv /\ [Next]_vars => [Proto!Next]_(Proto!protoVars)
  BY ProtoStep
<1>3. SiteInv /\ [Next]_vars => SiteInv'
  BY SiteStep
<1> QED  BY <1>1, <1>2, <1>3, SiteInit, PTL DEF Spec, BehavesLikePrototype, Proto!Spec

-----------------------------------------------------------------------------
(***************************************************************************)
(* Types of all variables.                                                 *)
(***************************************************************************)
Short == \A t \in Tabs : Len(entries[t]) <= MAX_ENTRIES

TypeInv == SiteInv /\ LocaleTypeOK /\ Short

LEMMA ShortStep ==
  ASSUME SiteInv, Short, NEW t \in Tabs, TabStep(t)
  PROVE  Short'
<1>1. \A u \in Tabs \ {t} : Len(entries'[u]) <= MAX_ENTRIES
  BY OthersStay, Zenon DEF SiteInv, SameTab, Short
<1>2. \A u \in Tabs : at[u] <= MAX_ENTRIES
  <2> SUFFICES ASSUME NEW u \in Tabs
               PROVE  at[u] <= MAX_ENTRIES
    BY Zenon
  <2> DEFINE k == Len(entries[u])
  <2>1. k \in Nat /\ at[u] \in 1..k /\ k <= MAX_ENTRIES
    BY DEF SiteInv, PageInv, Short
  <2> HIDE DEF k
  <2> QED  BY <2>1, SiteAssumption
<1>3. Len(entries'[t]) <= MAX_ENTRIES
  <2>1. CASE Open(t) \/ Close(t)
    <3>1. PICK p : entries' = [entries EXCEPT ![t] = <<p>>]
      BY <2>1 DEF Open, Close
    <3>2. Len(<<p>>) <= MAX_ENTRIES
      BY SiteAssumption
    <3>3. entries'[t] = <<p>>
      BY <3>1 DEF SiteInv, PageInv
    <3> QED  BY <3>2, <3>3
  <2>2. CASE FollowLink(t)
    BY <2>2, <1>2, LinksMove, PushStep, Zenon DEF FollowLink, SiteInv
  <2>3. CASE TypeAddress(t)
    BY <2>3, <1>2, SiteAssumption, PushStep DEF TypeAddress, SiteInv
  <2>4. CASE entries' = entries
    BY <2>4 DEF Short
  <2> QED
    BY <2>1, <2>2, <2>3, <2>4
       DEF TabStep, Reload, Go, SetActiveTab, SetActivePhase, SetLocale, pageVars, Effect,
           toggleSection, toggleHint, togglePseudo, Scroll
<1> QED  BY <1>1, <1>3 DEF Short

LEMMA LocaleTypeStep ==
  ASSUME LocaleTypeOK, NEW t \in Tabs, TabStep(t)
  PROVE  LocaleTypeOK'
<1>1. CASE Open(t) \/ Reload(t)
  BY <1>1, InitialIsLocale DEF Open, Reload, LoadLocale, LocaleTypeOK
<1>2. CASE Close(t)
  BY <1>2 DEF Close, CloseLocale, LocaleTypeOK
<1>3. CASE SetLocale(t)
  BY <1>3 DEF SetLocale, handleSetLocale, LocaleTypeOK
<1>4. CASE UNCHANGED localeVars
  BY <1>4 DEF localeVars, LocaleTypeOK
<1> QED
  BY <1>1, <1>2, <1>3, <1>4
     DEF TabStep, FollowLink, TypeAddress, Go, Show, SetActiveTab, SetActivePhase, Effect,
         toggleSection, toggleHint, togglePseudo, Scroll

\* For every course: every variable keeps its type; a stored locale that is no
\* dictionary never becomes the locale of a tab, and a tab always shows an
\* entry of its history.
THEOREM TypeCorrect == Spec => []TypeOK
<1>1. Init => TypeInv
  <2> SUFFICES ASSUME Init
               PROVE  TypeInv
    OBVIOUS
  <2>1. LocaleTypeOK
    BY DEF Init, LocaleInit, LocaleTypeOK
  <2>2. Short
    <3>1. Len(<<Home>>) <= MAX_ENTRIES
      BY SiteAssumption
    <3> QED  BY <3>1, Zenon DEF Init, Short
  <2> QED  BY <2>1, <2>2, SiteInit DEF TypeInv
<1>2. TypeInv /\ [Next]_vars => TypeInv'
  <2> SUFFICES ASSUME TypeInv, [Next]_vars
               PROVE  TypeInv'
    OBVIOUS
  <2>1. SiteInv'
    BY SiteStep DEF TypeInv
  <2>2. CASE UNCHANGED vars
    BY <2>1, <2>2 DEF TypeInv, LocaleTypeOK, Short, vars, localeVars, pageVars
  <2>3. ASSUME NEW t \in Tabs, TabStep(t)
        PROVE  TypeInv'
    BY <2>1, <2>3, ShortStep, LocaleTypeStep DEF TypeInv
  <2> QED  BY <2>2, <2>3 DEF Next, TabStep
<1>3. TypeInv => TypeOK
  <2> SUFFICES ASSUME TypeInv
               PROVE  TypeOK
    OBVIOUS
  <2>1. ASSUME NEW t \in Tabs
        PROVE  at[t] \in DOMAIN entries[t]
    <3>1. entries[t] \in Seq(Paths) /\ at[t] \in 1..Len(entries[t])
      BY DEF TypeInv, SiteInv, PageInv
    <3>2. DOMAIN entries[t] = 1..Len(entries[t])
      BY <3>1
    <3> QED  BY <3>1, <3>2
  <2> QED  BY <2>1 DEF TypeInv, SiteInv, PageInv, PanelTypes, Short, RoadmapState, TypeOK
<1> QED  BY <1>1, <1>2, <1>3, PTL DEF Spec

-----------------------------------------------------------------------------
(***************************************************************************)
(* What the pages show.                                                    *)
(***************************************************************************)
\* The three dictionaries have the same keys, so t() never falls back.
LEMMA SameKeys ==
  ASSUME NEW l \in Locales, NEW key \in zhCN
  PROVE  Translation(l, key) = l
<1>1. en = zhCN /\ zhTW = zhCN
  BY Zenon DEF en, zhCN, zhTW
<1>2. dictionaries[l] = zhCN
  BY <1>1 DEF dictionaries
<1> QED  BY <1>2 DEF Translation

\* The roadmap page uses keys of the dictionaries only.
LEMMA RoadmapKeysKnown ==
  ASSUME NEW st
  PROVE  RoadmapKeys(st) \subseteq zhCN
  BY DEF RoadmapKeys, zhCN

\* So do the buttons of the exercises.
LEMMA ExerciseKeysKnown ==
  ASSUME NEW exercises, NEW st, NEW key \in ExerciseKeys(exercises, st)
  PROVE  key \in zhCN
<1>1. key \in {"lesson.hidePseudo", "lesson.showPseudo", "lesson.hideHints", "lesson.showHints"}
  BY DEF ExerciseKeys
<1> QED  BY <1>1 DEF zhCN

\* So does the lesson page.
LEMMA LessonKeysKnown ==
  ASSUME NEW path, NEW l, NEW st
  PROVE  LessonKeys(path, l, st) \subseteq zhCN
<1>1. ASSUME NEW le, NEW prev, NEW next
      PROVE  FoundKeys(le, prev, next, st) \subseteq zhCN
  BY ExerciseKeysKnown DEF FoundKeys, zhCN
<1>2. {"lesson.back", "lesson.notFound"} \subseteq zhCN
  BY DEF zhCN
<1> QED  BY <1>1, <1>2 DEF LessonKeys

\* RenderBlock has a case for every type of block.
LEMMA BlocksAreShown ==
  ASSUME NEW le \in LessonData, NEW st, NEW i \in DOMAIN SectionsShown(le, st),
         NEW j \in DOMAIN SectionsShown(le, st)[i]
  PROVE  SectionsShown(le, st)[i][j] # <<>>
<1>1. i \in DOMAIN le.sections
  BY DEF SectionsShown
<1>2. le.sections[i] \in Seq(BlockTypes)
  BY <1>1 DEF LessonData
<1>3. SectionsShown(le, st)[i] =
        IF i - 1 \in st.sections THEN RenderBlocks(le.sections[i]) ELSE <<>>
  BY <1>1 DEF SectionsShown
<1>4. CASE i - 1 \notin st.sections
  <2>1. SectionsShown(le, st)[i] = <<>>
    BY <1>3, <1>4
  <2> QED  BY <2>1
<1>5. CASE i - 1 \in st.sections
  <2>1. SectionsShown(le, st)[i] = RenderBlocks(le.sections[i])
    BY <1>3, <1>5
  <2>2. j \in DOMAIN le.sections[i]
    BY <2>1 DEF RenderBlocks
  <2>3. RenderBlocks(le.sections[i])[j] = RenderBlock(le.sections[i][j])
    BY <2>2 DEF RenderBlocks
  <2>4. le.sections[i][j] \in BlockTypes
    BY <1>2, <2>2
  <2>5. RenderBlock(le.sections[i][j]) = <<le.sections[i][j]>>
    BY <2>4 DEF RenderBlock, BlockTypes
  <2> QED  BY <2>1, <2>3, <2>5
<1> QED  BY <1>4, <1>5

\* For every course whose blocks have the types of types.ts, any number of tabs
\* and any set of open panels: every text of a page is in the language of its
\* tab, and every block of an open section is shown.
THEOREM NothingMissing == Spec => []PagesAreComplete
<1>1. PageInv => TextsInOwnLanguage
  <2> SUFFICES ASSUME PageInv, NEW t \in Tabs, IsOpen(t),
                      NEW key \in (IF OnHome(t) THEN RoadmapKeys(roadmap[t])
                                   ELSE IF OnLesson(t)
                                     THEN LessonKeys(Path(t), locale[t], lesson[t]) ELSE {})
               PROVE  Translation(locale[t], key) = locale[t]
    BY Zenon DEF TextsInOwnLanguage
  <2>1. locale[t] \in Locales
    BY DEF PageInv, IsOpen
  <2>2. key \in zhCN
    BY RoadmapKeysKnown, LessonKeysKnown, Zenon
  <2> QED  BY <2>1, <2>2, SameKeys
<1>2. PageInv => OpenSectionsAreComplete
  <2> SUFFICES ASSUME PageInv, NEW t \in Tabs, OnLesson(t), IsLesson(Path(t), locale[t])
               PROVE  LET shown == SectionsShown(LessonAt(Path(t), locale[t]), lesson[t])
                      IN  \A i \in DOMAIN shown : \A j \in DOMAIN shown[i] : shown[i][j] # <<>>
    BY Zenon DEF OpenSectionsAreComplete
  <2>1. locale[t] \in Locales
    BY DEF PageInv, OnLesson, IsOpen
  <2>2. LessonAt(Path(t), locale[t]) \in LessonData
    BY <2>1, LessonShown
  <2> QED  BY <2>2, BlocksAreShown
<1>3. PageInv /\ [Next]_vars => PageInv'
  BY PageStep
<1>4. PageInv => PagesAreComplete
  BY <1>1, <1>2 DEF PagesAreComplete
<1> QED  BY <1>3, <1>4, PageInit, PTL DEF Spec

\* The data of the website is that of the prototype, in every language: the
\* label computed for a layer is the phase the prototype names, and the lines
\* between the principles stop where the prototype's do.
LEMMA SameData ==
  ASSUME NEW l \in Locales
  PROVE  /\ getPhases(l) = Proto!PHASES
         /\ Layers = Proto!ARCHITECTURE
         /\ PrincipleList(l) = Proto!PrincipleList
<1>1. getPhases(l) = Proto!PHASES
  BY DEF getPhases, PHASES_EN, PHASES_ZH_CN, Proto!PHASES, Phase, Proto!Phase
<1>2. Layers = Proto!ARCHITECTURE
  BY DEF Layers, ARCHITECTURE, Proto!ARCHITECTURE
<1>3. PrincipleList(l) = Proto!PrincipleList
  <2>1. getPrinciples(l) = Proto!PRINCIPLES
    BY DEF getPrinciples, PRINCIPLES_EN, PRINCIPLES_ZH_CN, Proto!PRINCIPLES
  <2>2. DOMAIN Proto!PRINCIPLES = 1..5 /\ Len(Proto!PRINCIPLES) = 5
    BY DEF Proto!PRINCIPLES
  <2>3. \A i \in 1..5 : (i - 1 < 4) = (i < 5)
    OBVIOUS
  <2> QED  BY <2>1, <2>2, <2>3 DEF PrincipleList, Proto!PrincipleList
<1> QED  BY <1>1, <1>2, <1>3

\* Whatever the course, the tabs and the language: a roadmap page shows what
\* course-roadmap.jsx shows with the same phase open and the same tab active.
THEOREM ShowsThePrototype == Spec => []ShowsWhatPrototypeShows
<1>1. ATab \in Tabs
  BY LanguagesAssumption DEF ATab
<1>2. PageInv => ShowsWhatPrototypeShows
  <2> SUFFICES ASSUME PageInv, OnHome(ATab)
               PROVE  RoadmapView(locale[ATab], roadmap[ATab]) = Proto!View
    BY DEF ShowsWhatPrototypeShows
  <2> DEFINE l == locale[ATab]
  <2> DEFINE st == roadmap[ATab]
  <2>1. l \in Locales
    BY <1>1 DEF PageInv, OnHome, IsOpen
  <2>2. PhaseList(l, st.activePhase) = Proto!PhaseList(st.activePhase)
    <3>1. getPhases(l) = Proto!PHASES
      BY <2>1, SameData
    <3> QED  BY <3>1 DEF PhaseList, Proto!PhaseList
  <2> QED  BY <2>1, <2>2, SameData DEF RoadmapView, Proto!View
<1>3. PageInv /\ [Next]_vars => PageInv'
  BY PageStep
<1> QED  BY <1>2, <1>3, PageInit, PTL DEF Spec

-----------------------------------------------------------------------------
(***************************************************************************)
(* One panel at a time.                                                    *)
(***************************************************************************)
\* The exercises of one lesson have different ids.
IdsTellExercisesApart ==
  \A l \in DOMAIN Content : \A p \in DOMAIN Content[l] :
    \A n \in DOMAIN Content[l][p].lessons :
      LET exs == Content[l][p].lessons[n].exercises
      IN  \A i, j \in DOMAIN exs : exs[i].id = exs[j].id => i = j

\* A set within a singleton.
LEMMA AtMostOne ==
  ASSUME NEW S, NEW x, S \subseteq {x}
  PROVE  Cardinality(S) <= 1
<1>1. CASE S = {}
  BY <1>1, FS_EmptySet
<1>2. CASE S = {x}
  BY <1>2, FS_Singleton
<1> QED  BY <1>1, <1>2

Differing(S, T) == (S \ T) \cup (T \ S)

\* The open panels, by kind.
SectionPanels(le, st) ==
  LET s == SectionsShown(le, st) IN {<<"section", i>> : i \in {j \in DOMAIN s : s[j] # <<>>}}
HintPanels(le, st) ==
  LET e == ExercisesShown(le, st) IN {<<"hints", i>> : i \in {j \in DOMAIN e : e[j].hints > 0}}
PseudoPanels(le, st) ==
  LET e == ExercisesShown(le, st) IN {<<"pseudo", i>> : i \in {j \in DOMAIN e : e[j].pseudo}}

\* Together they are all open panels.
LEMMA PanelKinds ==
  ASSUME NEW le, NEW st
  PROVE  OpenPanels(le, st) =
           SectionPanels(le, st) \cup HintPanels(le, st) \cup PseudoPanels(le, st)
  BY Zenon DEF OpenPanels, SectionPanels, HintPanels, PseudoPanels

\* toggleSection moves one panel: sections are told apart by their position.
LEMMA SectionClick ==
  ASSUME NEW le \in LessonData, NEW st \in PanelState, NEW k \in DOMAIN le.sections
  PROVE  Cardinality(Differing(OpenPanels(le, st),
                               OpenPanels(le, [st EXCEPT !.sections = Flip(@, k - 1)]))) <= 1
<1> DEFINE new == [st EXCEPT !.sections = Flip(@, k - 1)]
<1>1. new.sections = Flip(st.sections, k - 1) /\ new.hints = st.hints /\ new.pseudo = st.pseudo
  BY DEF PanelState
<1> HIDE DEF new
<1>2. ExercisesShown(le, new) = ExercisesShown(le, st)
  BY <1>1 DEF ExercisesShown
<1>3. \A i \in DOMAIN le.sections \ {k} : SectionsShown(le, new)[i] = SectionsShown(le, st)[i]
  <2> SUFFICES ASSUME NEW i \in DOMAIN le.sections \ {k}
               PROVE  i - 1 \in new.sections <=> i - 1 \in st.sections
    BY DEF SectionsShown
  <2>1. i \in Nat /\ k \in Nat
    BY DEF LessonData
  <2>2. i - 1 # k - 1
    BY <2>1
  <2> QED  BY <1>1, <2>2 DEF Flip
<1>4. Differing(OpenPanels(le, st), OpenPanels(le, new)) \subseteq {<<"section", k>>}
  <2>1. HintPanels(le, new) = HintPanels(le, st) /\ PseudoPanels(le, new) = PseudoPanels(le, st)
    BY <1>2 DEF HintPanels, PseudoPanels
  <2>2. ASSUME NEW x, x # <<"section", k>>
        PROVE  x \in SectionPanels(le, new) <=> x \in SectionPanels(le, st)
    <3>1. DOMAIN SectionsShown(le, new) = DOMAIN le.sections
          /\ DOMAIN SectionsShown(le, st) = DOMAIN le.sections
      BY DEF SectionsShown
    <3> QED  BY <1>3, <2>2, <3>1 DEF SectionPanels
  <2> QED  BY <2>1, <2>2, PanelKinds DEF Differing
<1> QED  BY <1>4, AtMostOne DEF new

\* toggleHint moves one panel if no other exercise has the id.
LEMMA HintClick ==
  ASSUME NEW le \in LessonData, NEW st \in PanelState, NEW k \in DOMAIN le.exercises,
         NEW id, id = le.exercises[k].id,
         \A i \in DOMAIN le.exercises : le.exercises[i].id = id => i = k
  PROVE  Cardinality(Differing(OpenPanels(le, st),
                               OpenPanels(le, [st EXCEPT !.hints = Flip(@, id)]))) <= 1
<1> DEFINE new == [st EXCEPT !.hints = Flip(@, id)]
<1>1. /\ new.hints = Flip(st.hints, id)
      /\ new.sections = st.sections /\ new.pseudo = st.pseudo
  BY DEF PanelState
<1> HIDE DEF new
<1>2. SectionsShown(le, new) = SectionsShown(le, st)
  BY <1>1 DEF SectionsShown
<1>3. /\ DOMAIN ExercisesShown(le, new) = DOMAIN le.exercises
      /\ DOMAIN ExercisesShown(le, st) = DOMAIN le.exercises
      /\ \A i \in DOMAIN le.exercises :
           ExercisesShown(le, new)[i].pseudo = ExercisesShown(le, st)[i].pseudo
  BY <1>1 DEF ExercisesShown
<1>4. \A i \in DOMAIN le.exercises \ {k} : ExercisesShown(le, new)[i] = ExercisesShown(le, st)[i]
  <2> SUFFICES ASSUME NEW i \in DOMAIN le.exercises \ {k}
               PROVE  le.exercises[i].id \in new.hints <=> le.exercises[i].id \in st.hints
    BY <1>1 DEF ExercisesShown
  <2> QED  BY <1>1 DEF Flip
<1>5. Differing(OpenPanels(le, st), OpenPanels(le, new)) \subseteq {<<"hints", k>>}
  <2>1. SectionPanels(le, new) = SectionPanels(le, st)
    BY <1>2 DEF SectionPanels
  <2>2. PseudoPanels(le, new) = PseudoPanels(le, st)
    BY <1>3 DEF PseudoPanels
  <2>3. ASSUME NEW x, x # <<"hints", k>>
        PROVE  x \in HintPanels(le, new) <=> x \in HintPanels(le, st)
    BY <1>3, <1>4, <2>3, SMTT(30) DEF HintPanels
  <2> QED  BY <2>1, <2>2, <2>3, PanelKinds DEF Differing
<1> QED  BY <1>5, AtMostOne DEF new

\* togglePseudo moves one panel if no other exercise has the id.
LEMMA PseudoClick ==
  ASSUME NEW le \in LessonData, NEW st \in PanelState, NEW k \in DOMAIN le.exercises,
         NEW id, id = le.exercises[k].id,
         \A i \in DOMAIN le.exercises : le.exercises[i].id = id => i = k
  PROVE  Cardinality(Differing(OpenPanels(le, st),
                               OpenPanels(le, [st EXCEPT !.pseudo = Flip(@, id)]))) <= 1
<1> DEFINE new == [st EXCEPT !.pseudo = Flip(@, id)]
<1>1. /\ new.pseudo = Flip(st.pseudo, id)
      /\ new.sections = st.sections /\ new.hints = st.hints
  BY DEF PanelState
<1> HIDE DEF new
<1>2. SectionsShown(le, new) = SectionsShown(le, st)
  BY <1>1 DEF SectionsShown
<1>3. /\ DOMAIN ExercisesShown(le, new) = DOMAIN le.exercises
      /\ DOMAIN ExercisesShown(le, st) = DOMAIN le.exercises
      /\ \A i \in DOMAIN le.exercises :
           ExercisesShown(le, new)[i].hints = ExercisesShown(le, st)[i].hints
  BY <1>1 DEF ExercisesShown
<1>4. \A i \in DOMAIN le.exercises \ {k} : ExercisesShown(le, new)[i] = ExercisesShown(le, st)[i]
  <2> SUFFICES ASSUME NEW i \in DOMAIN le.exercises \ {k}
               PROVE  le.exercises[i].id \in new.pseudo <=> le.exercises[i].id \in st.pseudo
    BY <1>1 DEF ExercisesShown
  <2> QED  BY <1>1 DEF Flip
<1>5. Differing(OpenPanels(le, st), OpenPanels(le, new)) \subseteq {<<"pseudo", k>>}
  <2>1. SectionPanels(le, new) = SectionPanels(le, st)
    BY <1>2 DEF SectionPanels
  <2>2. HintPanels(le, new) = HintPanels(le, st)
    BY <1>3 DEF HintPanels
  <2>3. ASSUME NEW x, x # <<"pseudo", k>>
        PROVE  x \in PseudoPanels(le, new) <=> x \in PseudoPanels(le, st)
    BY <1>3, <1>4, <2>3, SMTT(30) DEF PseudoPanels
  <2> QED  BY <2>1, <2>2, <2>3, PanelKinds DEF Differing
<1> QED  BY <1>5, AtMostOne DEF new

\* The lesson on the page has different ids, whichever language it is from.
LEMMA OwnIds ==
  ASSUME IdsTellExercisesApart, NEW l \in Locales, NEW path, IsLesson(path, l)
  PROVE  LET exs == LessonAt(path, l).exercises
         IN  \A i, j \in DOMAIN exs : exs[i].id = exs[j].id => i = j
<1> DEFINE p == path.phaseId
<1> DEFINE n == path.lessonId
<1>1. n \in 1..Len(getPhaseContent(p, l).lessons)
  BY LessonByNumber DEF IsLesson
<1>2. LessonAt(path, l) = getPhaseContent(p, l).lessons[n]
  BY LessonByNumber DEF IsLesson, LessonAt
<1>3. getPhaseContent(p, l).lessons \in Seq(LessonData)
  BY PhaseLessons
<1>4. n \in DOMAIN getPhaseContent(p, l).lessons
  BY <1>1, <1>3
<1>5. l \in DOMAIN Content /\ "zh-CN" \in DOMAIN Content
  BY ContentAssumption DEF Locales
<1> HIDE DEF p, n
<1>6. PICK m \in DOMAIN Content : p \in DOMAIN Content[m] /\ getPhaseContent(p, l) = Content[m][p]
  <2>1. getPhaseContent(p, l) # Undefined
    BY <1>4 DEF Undefined
  <2> QED  BY <1>5, <2>1 DEF getPhaseContent, PhaseIn
<1> QED  BY <1>2, <1>4, <1>6, SMTT(30) DEF IdsTellExercisesApart

\* A tab stays on a lesson whose effect has run.
Stays(t) ==
  /\ OnLesson(t) /\ IsLesson(Path(t), locale[t]) /\ ~Pending(t)
  /\ OnLesson(t)' /\ Path(t)' = Path(t) /\ deps'[t] = deps[t]
  /\ <<lesson'[t], locale'[t]>> # <<lesson[t], locale[t]>>

\* How many panels of the lesson a step opens or closes.
Moved(t) ==
  Cardinality(Differing(OpenPanels(LessonAt(Path(t), locale[t]), lesson[t]),
                        OpenPanels(LessonAt(Path(t), locale'[t]), lesson'[t])))

\* While the tab stays, only a click or the wheel changes what it shows: every
\* navigation changes the address, a reload makes the effect pending, and the
\* language cannot be chosen on a lesson.
LEMMA OnlyClicksStay ==
  ASSUME PageInv, PanelTypes, NEW t \in Tabs, TabStep(t), Stays(t)
  PROVE  toggleSection(t) \/ toggleHint(t) \/ togglePseudo(t) \/ Scroll(t)
<1>1. ~Open(t) /\ ~Close(t)
  <2>1. ~Close(t)
    BY DEF Close, CloseLocale, Stays, OnLesson, IsOpen, PageInv
  <2> QED  BY <2>1 DEF Open, Stays, OnLesson
<1>2. ~Reload(t)
  <2>1. Reload(t) => deps'[t] = Elsewhere
    BY DEF Reload, MountAll, PageInv
  <2>2. deps[t] = Path(t) /\ Path(t).page = "lesson"
    BY DEF Stays, Pending, OnLesson
  <2>3. Elsewhere.page = "none"
    BY DEF Elsewhere, Address
  <2>4. deps'[t] = deps[t]
    BY DEF Stays
  <2> QED  BY <2>1, <2>2, <2>3, <2>4
<1>3. ASSUME NEW p \in Paths, Show(t, p)
      PROVE  Path(t)' # p
  <2> SUFFICES ASSUME Path(t) = p
               PROVE  FALSE
    BY DEF Stays
  <2>1. lesson'[t] = lesson[t] /\ locale' = locale
    BY <1>3 DEF Show, PanelTypes, localeVars
  <2> QED  BY <2>1 DEF Stays
<1>4. ASSUME NEW p \in Paths, Push(t, p), Show(t, p), p # Path(t)
      PROVE  FALSE
  <2>1. Path(t)' = p
    BY <1>4, PushStep DEF Path
  <2> QED  BY <1>3, <1>4, <2>1
<1>5. ~FollowLink(t)
  BY <1>4, LinksMove DEF FollowLink
<1>6. ~TypeAddress(t)
  BY <1>4, SiteAssumption DEF TypeAddress
<1>7. ~Go(t)
  <2> SUFFICES ASSUME Go(t)
               PROVE  FALSE
    OBVIOUS
  <2>1. PICK i \in DOMAIN entries[t] :
          at' = [at EXCEPT ![t] = i] /\ Show(t, entries[t][i]) /\ entries' = entries
    BY DEF Go
  <2>2. Path(t)' = entries[t][i] /\ entries[t][i] \in Paths
    BY <2>1 DEF Path, PageInv
  <2> QED  BY <1>3, <2>1, <2>2
<1>8. ~SetActiveTab(t) /\ ~SetActivePhase(t) /\ ~SetLocale(t)
  BY DEF SetActiveTab, SetActivePhase, SetLocale, OnHome, Stays, OnLesson
<1>9. ~Effect(t)
  BY DEF Effect, Stays
<1> QED  BY <1>1, <1>2, <1>5, <1>6, <1>7, <1>8, <1>9 DEF TabStep

\* Each of them moves at most one panel.
LEMMA OneClick ==
  ASSUME IdsTellExercisesApart, PageInv, PanelTypes, NEW t \in Tabs, TabStep(t), Stays(t)
  PROVE  Moved(t) <= 1
<1> DEFINE le == LessonAt(Path(t), locale[t])
<1> DEFINE st == lesson[t]
<1>1. locale[t] \in Locales
  BY DEF Stays, OnLesson, IsOpen, PageInv
<1>2. le \in LessonData
  BY <1>1, LessonShown DEF Stays
<1>3. \A i, j \in DOMAIN le.exercises : le.exercises[i].id = le.exercises[j].id => i = j
  BY <1>1, OwnIds DEF Stays
<1>4. st \in PanelState
  BY DEF PanelTypes
<1>5. locale' = locale
  BY OnlyClicksStay DEF toggleSection, toggleHint, togglePseudo, Scroll, localeVars
<1>6. Moved(t) = Cardinality(Differing(OpenPanels(le, st), OpenPanels(le, lesson'[t])))
  BY <1>5 DEF Moved
<1>7. CASE toggleSection(t)
  <2>1. PICK k \in DOMAIN le.sections : lesson' = [lesson EXCEPT ![t].sections = Flip(@, k - 1)]
    BY <1>7 DEF toggleSection
  <2>2. lesson'[t] = [st EXCEPT !.sections = Flip(@, k - 1)]
    BY <2>1 DEF PanelTypes
  <2> HIDE DEF le, st
  <2> QED  BY <1>2, <1>4, <1>6, <2>2, SectionClick
<1>8. CASE toggleHint(t)
  <2>1. PICK k \in DOMAIN le.exercises :
          lesson' = [lesson EXCEPT ![t].hints = Flip(@, le.exercises[k].id)]
    BY <1>8 DEF toggleHint, Exercises
  <2>2. lesson'[t] = [st EXCEPT !.hints = Flip(@, le.exercises[k].id)]
    BY <2>1 DEF PanelTypes
  <2> HIDE DEF le, st
  <2> QED  BY <1>2, <1>3, <1>4, <1>6, <2>2, HintClick
<1>9. CASE togglePseudo(t)
  <2>1. PICK k \in DOMAIN le.exercises :
          lesson' = [lesson EXCEPT ![t].pseudo = Flip(@, le.exercises[k].id)]
    BY <1>9 DEF togglePseudo, Exercises
  <2>2. lesson'[t] = [st EXCEPT !.pseudo = Flip(@, le.exercises[k].id)]
    BY <2>1 DEF PanelTypes
  <2> HIDE DEF le, st
  <2> QED  BY <1>2, <1>3, <1>4, <1>6, <2>2, PseudoClick
<1>10. CASE Scroll(t)
  <2>1. /\ lesson'[t].sections = st.sections /\ lesson'[t].hints = st.hints
        /\ lesson'[t].pseudo = st.pseudo
    BY <1>10 DEF Scroll, PanelTypes, PanelState
  <2>2. OpenPanels(le, lesson'[t]) = OpenPanels(le, st)
    BY <2>1 DEF OpenPanels, SectionsShown, ExercisesShown
  <2>3. Moved(t) = Cardinality({})
    BY <1>6, <2>2 DEF Differing
  <2> QED  BY <2>3, FS_EmptySet
<1> QED  BY <1>7, <1>8, <1>9, <1>10, OnlyClicksStay

\* For every course in which the ids of a lesson differ, any number of tabs and
\* every bound: a click of the reader opens or closes one panel of the lesson
\* and no effect takes back what they opened.
THEOREM OneClickOnePanel ==
  ASSUME IdsTellExercisesApart
  PROVE  Spec => OnePanelAtATime
<1>1. ASSUME SiteInv, [Next]_vars, NEW t \in Tabs, Stays(t)
      PROVE  Moved(t) <= 1
  <2>1. ~UNCHANGED vars
    BY <1>1 DEF vars, localeVars, pageVars, Stays
  <2>2. PICK u \in Tabs : TabStep(u)
    BY <1>1, <2>1 DEF Next, TabStep
  <2>3. u = t
    BY <1>1, <2>2, OthersStay DEF SiteInv, SameTab, Stays
  <2> QED  BY <1>1, <2>2, <2>3, OneClick DEF SiteInv
<1>2. SiteInv /\ [Next]_vars => [\A t \in Tabs : Stays(t) => Moved(t) <= 1]_vars
  BY <1>1
<1>3. SiteInv /\ [Next]_vars => SiteInv'
  BY SiteStep
<1> QED  BY <1>2, <1>3, SiteInit, PTL DEF Spec, OnePanelAtATime, Stays, Moved, Differing

-----------------------------------------------------------------------------
(***************************************************************************)
(* A change of language.                                                   *)
(***************************************************************************)
\* A lesson without its prose.
Outline(le) == <<le.objectives, le.sections, le.exercises, le.acceptanceCriteria, le.references>>

\* What is translated follows zh-CN, lesson by lesson; a language may lack
\* whole phases.
TranslationsFollow ==
  \A l \in DOMAIN Content : \A p \in DOMAIN Content[l] :
    LET own == Content[l][p].lessons
        zh  == Content["zh-CN"][p].lessons
    IN  /\ p \in DOMAIN Content["zh-CN"]
        /\ Len(own) = Len(zh)
        /\ \A i \in DOMAIN own : Outline(own[i]) = Outline(zh[i])

\* getLesson finds the same outline in every language, its own or zh-CN's.
LEMMA SameShape ==
  ASSUME TranslationsFollow, NEW l \in Locales, NEW path
  PROVE  Shape(path, l) = Shape(path, "zh-CN")
<1> DEFINE p == path.phaseId
<1> DEFINE n == path.lessonId
<1> DEFINE own == getPhaseContent(p, l).lessons
<1> DEFINE zh == getPhaseContent(p, "zh-CN").lessons
<1>1. l \in DOMAIN Content /\ "zh-CN" \in DOMAIN Content /\ "zh-CN" \in Locales
  BY ContentAssumption DEF Locales
<1>2. own \in Seq(LessonData) /\ zh \in Seq(LessonData)
  BY <1>1, PhaseLessons
<1>3. Len(own) = Len(zh) /\ \A i \in DOMAIN own : Outline(own[i]) = Outline(zh[i])
  <2>1. CASE p \in DOMAIN Content[l]
    <3>1. p \in DOMAIN Content["zh-CN"]
      BY <1>1, <2>1 DEF TranslationsFollow
    <3>2. own = Content[l][p].lessons /\ zh = Content["zh-CN"][p].lessons
      BY <2>1, <3>1 DEF getPhaseContent, PhaseIn
    <3> QED  BY <1>1, <2>1, <3>2 DEF TranslationsFollow
  <2>2. CASE p \notin DOMAIN Content[l]
    <3>1. own = zh
      BY <2>2 DEF getPhaseContent, PhaseIn
    <3> QED  BY <3>1
  <2> QED  BY <2>1, <2>2
<1>4. /\ HasLesson(p, n, l) <=> n \in 1..Len(own)
      /\ HasLesson(p, n, "zh-CN") <=> n \in 1..Len(zh)
      /\ HasLesson(p, n, l) => getLesson(p, n, l) = own[n]
      /\ HasLesson(p, n, "zh-CN") => getLesson(p, n, "zh-CN") = zh[n]
  BY <1>1, LessonByNumber
<1> HIDE DEF p, n, own, zh
<1>5. DOMAIN own = 1..Len(own)
  BY <1>2
<1>6. Shape(path, l) = IF path.page = "lesson" /\ HasLesson(p, n, l)
                         THEN Outline(getLesson(p, n, l)) ELSE <<>>
  BY DEF Shape, IsLesson, LessonAt, Outline, Objectives, AcceptanceCriteria, References, p, n
<1>7. Shape(path, "zh-CN") = IF path.page = "lesson" /\ HasLesson(p, n, "zh-CN")
                               THEN Outline(getLesson(p, n, "zh-CN")) ELSE <<>>
  BY DEF Shape, IsLesson, LessonAt, Outline, Objectives, AcceptanceCriteria, References, p, n
<1> QED  BY <1>3, <1>4, <1>5, <1>6, <1>7, SMTT(30)

\* For every course whose translations follow zh-CN, complete or not: a change
\* of language keeps every lesson in the history, with its sections, exercises
\* and lists, also where getPhaseContent falls back to zh-CN in one of the two.
THEOREM SwitchKeepsLessons ==
  ASSUME TranslationsFollow
  PROVE  Spec => LessonsSurviveTheSwitch
<1>1. ASSUME PageInv, PageInv', NEW t \in Tabs, IsOpen(t), IsOpen(t)', NEW i \in DOMAIN entries[t]
      PROVE  Shape(entries[t][i], locale[t]) = Shape(entries[t][i], locale'[t])
  <2>1. locale[t] \in Locales /\ locale'[t] \in Locales
    BY <1>1 DEF PageInv, IsOpen
  <2> QED  BY <2>1, SameShape
<1>2. PageInv /\ [Next]_vars => PageInv'
  BY PageStep
<1>3. PageInv /\ PageInv' =>
        [\A t \in Tabs : IsOpen(t) /\ IsOpen(t)' /\ locale'[t] # locale[t] =>
           \A i \in DOMAIN entries[t] :
             Shape(entries[t][i], locale[t]) = Shape(entries[t][i], locale'[t])]_vars
  BY <1>1, Zenon
<1> QED  BY <1>2, <1>3, PageInit, PTL DEF Spec, LessonsSurviveTheSwitch
=============================================================================

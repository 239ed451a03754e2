------------------------------- MODULE Locale -------------------------------
(***************************************************************************)
(* website/src/i18n: the language of the site.  Every open browser tab     *)
(* runs its own LocaleProvider; all of them share one localStorage entry.  *)
(* A tab reads the entry once, when it loads, and writes it on a choice.   *)
(***************************************************************************)
EXTENDS Integers

CONSTANTS Tabs,          \* the browser tabs
          Languages,     \* what navigator.language may be
          StorageFails   \* whether localStorage.setItem may throw

ASSUME LanguagesAssumption ==
  /\ Tabs # {}
  /\ Languages \subseteq {"zh", "zh-CN", "zh-TW", "zh-Hans", "en", "fr"}
  /\ StorageFails \in BOOLEAN

VARIABLES language,      \* navigator.language
          stored,        \* localStorage.getItem("locale")
          locale,        \* locale[t]: the state of t's LocaleProvider
          behind,        \* history: tabs that have not loaded since another tab chose
          unsaved        \* history: tabs whose last choice could not be stored

localeVars == <<language, stored, locale, behind, unsaved>>

Locales == {"zh-CN", "zh-TW", "en"}
Closed == "closed"
NoValue == "null"        \* no entry in localStorage
Unknown == "ja"          \* an entry that is no locale of this site

IsOpen(t) == locale[t] # Closed

LocaleTypeOK ==
  /\ language \in Languages
  /\ stored \in Locales \cup {NoValue, Unknown}
  /\ locale \in [Tabs -> Locales \cup {Closed}]
  /\ behind \subseteq Tabs
  /\ unsaved \subseteq Tabs

\* The locale of a browser language: zh-CN and plain zh are zh-CN, any other
\* language that starts with zh is zh-TW.
FromBrowser(lang) ==
  CASE lang \in {"zh", "zh-CN"}       -> "zh-CN"
    [] lang \in {"zh-TW", "zh-Hans"}  -> "zh-TW"
    [] OTHER                          -> "en"

\* A plausible bug: whatever is stored is taken for a locale.
AnySaved(saved, lang) == IF saved # NoValue THEN saved ELSE FromBrowser(lang)

\* What a provider starts with: the stored locale if it is one of the
\* dictionaries, otherwise the browser's language.
Initial(saved, lang) == IF saved \in Locales THEN saved ELSE FromBrowser(lang)

LocaleInit ==
  /\ language \in Languages
  /\ stored \in {NoValue, Unknown}
  /\ locale = [t \in Tabs |-> Closed]
  /\ behind = {}
  /\ unsaved = {}

\* A page load mounts a new provider.
LoadLocale(t) ==
  /\ locale' = [locale EXCEPT ![t] = Initial(stored, language)]
  /\ behind' = behind \ {t}
  /\ unsaved' = unsaved \ {t}
  /\ UNCHANGED <<language, stored>>

\* A plausible bug: the choice is shown but not written to localStorage.
ForgetfulSetLocale(t, l) ==
  /\ locale' = [locale EXCEPT ![t] = l]
  /\ behind' = (behind \cup {u \in Tabs : IsOpen(u)}) \ {t}
  /\ unsaved' = unsaved \ {t}
  /\ UNCHANGED <<language, stored>>

\* handleSetLocale changes the state first and stores the choice second.  A
\* setItem that throws leaves the new state in place.  Nobody listens for
\* storage events, so the other tabs do not notice.
handleSetLocale(t, l) ==
  /\ locale' = [locale EXCEPT ![t] = l]
  /\ \/ /\ stored' = l
        /\ behind' = (behind \cup {u \in Tabs : IsOpen(u)}) \ {t}
        /\ unsaved' = unsaved \ {t}
     \/ /\ StorageFails
        /\ unsaved' = unsaved \cup {t}
        /\ UNCHANGED <<stored, behind>>
  /\ UNCHANGED language

CloseLocale(t) ==
  /\ locale' = [locale EXCEPT ![t] = Closed]
  /\ behind' = behind \ {t}
  /\ unsaved' = unsaved \ {t}
  /\ UNCHANGED <<language, stored>>

\* A tab that is neither behind nor failed to store its choice shows the
\* language that a reload, or a new tab, would show: what handleSetLocale
\* stores is what the initialiser of LocaleProvider accepts.
ReloadKeepsLanguage ==
  \A t \in Tabs : IsOpen(t) /\ t \notin behind \cup unsaved => locale[t] = Initial(stored, language)

-----------------------------------------------------------------------------
(***************************************************************************)
(* The dictionaries, as the sets of their keys, and the lookup t().        *)
(***************************************************************************)
zhCN ==
  {"header.badge", "header.title", "header.subtitle1", "header.subtitle2",
   "tab.roadmap", "tab.architecture", "tab.principles",
   "phase.concepts", "phase.references", "phase.deliverable", "phase.acceptance", "phase.enter",
   "arch.desc", "arch.dataflow", "principles.desc",
   "lesson.back", "lesson.prev", "lesson.next", "lesson.complete", "lesson.objectives",
   "lesson.content", "lesson.exercises", "lesson.criteria", "lesson.references",
   "lesson.showPseudo", "lesson.hidePseudo", "lesson.showHints", "lesson.hideHints",
   "lesson.notFound", "lang.zhCN", "lang.zhTW", "lang.en"}

\* A plausible bug: a key added for a new button is missing in one dictionary.
EnWithoutHide == zhCN \ {"lesson.hidePseudo"}

en ==
  {"header.badge", "header.title", "header.subtitle1", "header.subtitle2",
   "tab.roadmap", "tab.architecture", "tab.principles",
   "phase.concepts", "phase.references", "phase.deliverable", "phase.acceptance", "phase.enter",
   "arch.desc", "arch.dataflow", "principles.desc",
   "lesson.back", "lesson.prev", "lesson.next", "lesson.complete", "lesson.objectives",
   "lesson.content", "lesson.exercises", "lesson.criteria", "lesson.references",
   "lesson.showPseudo", "lesson.hidePseudo", "lesson.showHints", "lesson.hideHints",
   "lesson.notFound", "lang.zhCN", "lang.zhTW", "lang.en"}

zhTW == zhCN

dictionaries == [l \in Locales |-> CASE l = "en" -> en [] l = "zh-CN" -> zhCN [] OTHER -> zhTW]

\* Which dictionary t(key) takes its text from; "" if it shows the key itself.
Translation(l, key) ==
  IF key \in dictionaries[l] THEN l
  ELSE IF key \in dictionaries["zh-TW"] THEN "zh-TW" ELSE ""
=============================================================================

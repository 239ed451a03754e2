----------------------------- MODULE Prototype -----------------------------
(***************************************************************************)
(* course-roadmap.jsx: the roadmap as a single page in one language, which *)
(* the website was made from.  Its data, its two pieces of state and what  *)
(* it shows.  The website's roadmap page is shown to behave like it.       *)
(***************************************************************************)
EXTENDS Integers, Sequences

VARIABLES activePhase,   \* the id of the open phase, None if there is none
          activeTab

protoVars == <<activePhase, activeTab>>

None == -1

Phase(id, color, accent, concepts, readings, acceptance) ==
  [id |-> id, color |-> color, accent |-> accent, concepts |-> concepts,
   readings |-> readings, acceptance |-> acceptance]

PHASES ==
  <<Phase(0, "#E8453C", "#FF6B5E", 5, 3, 4),
    Phase(1, "#D97706", "#F59E0B", 5, 3, 4),
    Phase(2, "#059669", "#34D399", 5, 3, 4),
    Phase(3, "#7C3AED", "#A78BFA", 5, 3, 4),
    Phase(4, "#2563EB", "#60A5FA", 5, 3, 4),
    Phase(5, "#DC2626", "#F87171", 5, 3, 4),
    Phase(6, "#DB2777", "#F472B6", 5, 3, 4)>>

\* Every layer names its phase and has a colour.
ARCHITECTURE ==
  <<<<6, "#DB2777">>, <<5, "#DC2626">>, <<4, "#2563EB">>, <<3, "#7C3AED">>, <<2, "#059669">>,
    <<1, "#D97706">>, <<0, "#E8453C">>>>

PRINCIPLES == <<"#E8453C", "#D97706", "#059669", "#7C3AED", "#2563EB">>

TABS == {"roadmap", "arch", "principles"}

\* The list of phases; the open one with its concepts, readings and criteria.
PhaseList(open) ==
  [i \in DOMAIN PHASES |->
     [id |-> PHASES[i].id, color |-> PHASES[i].color,
      details |-> IF open = PHASES[i].id
                    THEN <<PHASES[i].concepts, PHASES[i].readings, PHASES[i].acceptance>>
                    ELSE <<>>]]

\* Every principle with its colour and whether a line separates it from the next.
PrincipleList == [i \in DOMAIN PRINCIPLES |-> <<PRINCIPLES[i], i < Len(PRINCIPLES)>>]

\* What the page shows: the part that belongs to the active tab.
View ==
  [phases     |-> IF activeTab = "roadmap" THEN PhaseList(activePhase) ELSE <<>>,
   layers     |-> IF activeTab = "arch" THEN ARCHITECTURE ELSE <<>>,
   principles |-> IF activeTab = "principles" THEN PrincipleList ELSE <<>>]

Init == activePhase = None /\ activeTab = "roadmap"

setActiveTab(k) == activeTab' = k /\ UNCHANGED activePhase

\* A click on a phase opens it and closes the one that was open.
setActivePhase(id) ==
  /\ activeTab = "roadmap"
  /\ activePhase' = IF activePhase = id THEN None ELSE id
  /\ UNCHANGED activeTab

\* Loading the page again starts from the initial state.
Mount == activePhase' = None /\ activeTab' = "roadmap"

Next ==
  \/ \E k \in TABS : setActiveTab(k)
  \/ \E i \in DOMAIN PHASES : setActivePhase(PHASES[i].id)
  \/ Mount

Spec == Init /\ [][Next]_protoVars
=============================================================================

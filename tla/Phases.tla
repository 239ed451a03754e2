------------------------------- MODULE Phases -------------------------------
(***************************************************************************)
(* website/src/data/phases.ts: the phases, layers and principles of the    *)
(* roadmap page.  Texts are left out; lists are their lengths.             *)
(***************************************************************************)
EXTENDS Integers, Sequences

Phase(id, color, accent, concepts, readings, acceptance) ==
  [id |-> id, color |-> color, accent |-> accent, concepts |-> concepts,
   readings |-> readings, acceptance |-> acceptance]

\* The colours of the layers, the top layer first.
ARCHITECTURE ==
  <<"#DB2777", "#DC2626", "#2563EB", "#7C3AED", "#059669", "#D97706", "#E8453C">>

PHASES_ZH_CN ==
  <<Phase(0, "#E8453C", "#FF6B5E", 5, 3, 4),
    Phase(1, "#D97706", "#F59E0B", 5, 3, 4),
    Phase(2, "#059669", "#34D399", 5, 3, 4),
    Phase(3, "#7C3AED", "#A78BFA", 5, 3, 4),
    Phase(4, "#2563EB", "#60A5FA", 5, 3, 4),
    Phase(5, "#DC2626", "#F87171", 5, 3, 4),
    Phase(6, "#DB2777", "#F472B6", 5, 3, 4)>>

PHASES_EN ==
  <<Phase(0, "#E8453C", "#FF6B5E", 5, 3, 4),
    Phase(1, "#D97706", "#F59E0B", 5, 3, 4),
    Phase(2, "#059669", "#34D399", 5, 3, 4),
    Phase(3, "#7C3AED", "#A78BFA", 5, 3, 4),
    Phase(4, "#2563EB", "#60A5FA", 5, 3, 4),
    Phase(5, "#DC2626", "#F87171", 5, 3, 4),
    Phase(6, "#DB2777", "#F472B6", 5, 3, 4)>>

getPhases(l) == IF l = "en" THEN PHASES_EN ELSE PHASES_ZH_CN

\* The colours of the principles.
PRINCIPLES_ZH_CN == <<"#E8453C", "#D97706", "#059669", "#7C3AED", "#2563EB">>

PRINCIPLES_EN == <<"#E8453C", "#D97706", "#059669", "#7C3AED", "#2563EB">>

getPrinciples(l) == IF l = "en" THEN PRINCIPLES_EN ELSE PRINCIPLES_ZH_CN
=============================================================================

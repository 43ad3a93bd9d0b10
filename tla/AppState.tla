------------------------------ MODULE AppState -----------------------------
(* Which tab a key reaches, and which tabs a profile reaches: State's       *)
(* handle_key, and the ProfileUpdate arm of the event loop.  A tab counts   *)
(* here by its overlay (search or path prompt) and by the profiles it       *)
(* holds; FlamegraphTab, FlamescopeTab and ExecutablesTab look inside.      *)
EXTENDS Integers

CONSTANT MaxProfiles  \* bound: profiles that arrive

ASSUME AppAssumption == MaxProfiles \in Nat

Tab == {"Flamegraph", "Flamescope", "Executables"}

VARIABLES running, activeTab,
          overlay,   \* tabs whose overlay is open
          frozen,    \* of the Flamegraph tab
          arrived,   \* number of profiles that arrived
          sampled,   \* those with a sample: others add no weight
          graph,     \* profiles merged into the flame graph
          heatmap,   \* profiles recorded by the Flamescope
          lastReset  \* history: profiles before the last reset of either
profiles == <<arrived, sampled, graph, heatmap, lastReset>>
AppVars == <<running, activeTab, overlay, frozen, profiles>>

AppInit ==
    /\ running = TRUE
    /\ activeTab = "Flamegraph"
    /\ overlay = {}
    /\ frozen = FALSE
    /\ arrived = 0 /\ sampled = {} /\ graph = {} /\ heatmap = {} /\ lastReset = 0

----------------------------------------------------------------------------
(* Mutant of Recorded: the Flamescope is not frozen with the flame graph. *)
RecordedAlways(p) == heatmap \union {p}

(* The event loop asks whether the flame graph is frozen ... *)
Recorded(p) == IF frozen THEN heatmap ELSE heatmap \union {p}

(* ... and the flame graph asks again. *)
Merged(p) == IF frozen THEN graph ELSE graph \union {p}

ProfileUpdate ==
    /\ running /\ arrived < MaxProfiles
    /\ arrived' = arrived + 1
    /\ \E new \in SUBSET {arrived + 1} : sampled' = sampled \union new
    /\ heatmap' = Recorded(arrived + 1)
    /\ graph' = Merged(arrived + 1)
    /\ UNCHANGED <<running, activeTab, overlay, frozen, lastReset>>

----------------------------------------------------------------------------
(* Mutant of OverlayActive: the path prompt is forgotten. *)
SearchActive == overlay \intersect {"Flamegraph", "Flamescope"} # {}

OverlayActive == overlay # {}

CtrlC ==
    /\ running
    /\ running' = FALSE
    /\ UNCHANGED <<activeTab, overlay, frozen, profiles>>

PressQ ==
    /\ running /\ ~OverlayActive
    /\ running' = FALSE
    /\ UNCHANGED <<activeTab, overlay, frozen, profiles>>

NextTab ==
    CASE activeTab = "Flamegraph" -> "Flamescope"
      [] activeTab = "Flamescope" -> "Executables"
      [] activeTab = "Executables" -> "Flamegraph"

PressTab ==
    /\ running /\ ~OverlayActive
    /\ activeTab' = NextTab
    /\ UNCHANGED <<running, overlay, frozen, profiles>>

(* Mutant of Reaches: the keys of an open overlay reach the tab as well. *)
ReachesBelow(t) == running /\ activeTab = t

(* Everything else, and these too while an overlay is open, goes to the     *)
(* active tab alone, whose own overlay, if open, takes the key.             *)
Reaches(t) == running /\ activeTab = t /\ t \notin overlay

OpenOverlay ==
    /\ Reaches(activeTab)
    /\ overlay' = overlay \union {activeTab}
    /\ UNCHANGED <<running, activeTab, frozen, profiles>>

CloseOverlay ==
    /\ running /\ activeTab \in overlay
    /\ overlay' = overlay \ {activeTab}
    /\ UNCHANGED <<running, activeTab, frozen, profiles>>

ToggleFreeze ==
    /\ Reaches("Flamegraph")
    /\ frozen' = ~frozen
    /\ UNCHANGED <<running, activeTab, overlay, profiles>>

ResetGraph ==
    /\ Reaches("Flamegraph")
    /\ graph' = {} /\ lastReset' = arrived
    /\ UNCHANGED <<running, activeTab, overlay, frozen, arrived, sampled, heatmap>>

ResetHeatmap ==
    /\ Reaches("Flamescope")
    /\ heatmap' = {} /\ lastReset' = arrived
    /\ UNCHANGED <<running, activeTab, overlay, frozen, arrived, sampled, graph>>

Key == \/ CtrlC \/ PressQ \/ PressTab \/ OpenOverlay \/ CloseOverlay
       \/ ToggleFreeze \/ ResetGraph \/ ResetHeatmap

AppNext == ProfileUpdate \/ Key

AppSpec == AppInit /\ [][AppNext]_AppVars

----------------------------------------------------------------------------
(* render: what the turn of the loop before the next event draws. A flame   *)
(* graph without weight gives way to the waiting screen, overlay and all.   *)
Waiting == activeTab = "Flamegraph" /\ graph \intersect sampled = {}

DrawnOverlays == IF Waiting THEN {} ELSE overlay \intersect {activeTab}

----------------------------------------------------------------------------
AppTypeOK ==
    /\ running \in BOOLEAN /\ activeTab \in Tab /\ overlay \subseteq Tab
    /\ frozen \in BOOLEAN
    /\ arrived \in 0 .. MaxProfiles /\ lastReset \in 0 .. arrived
    /\ sampled \subseteq 1 .. arrived
    /\ graph \subseteq 1 .. arrived /\ heatmap \subseteq 1 .. arrived

(* At most one overlay is open, and it is that of the active tab: no        *)
(* overlay of another tab swallows q, Tab and the tab's own keys.           *)
OverlayOnScreen == overlay \subseteq {activeTab}

(* The flame graph and the heatmap show the same profiles since the last    *)
(* reset of either, however freezing, resets and profiles interleave,       *)
(* though two modules decide about freezing on their own.                   *)
TabsShowSameProfiles ==
    \A p \in lastReset + 1 .. arrived : p \in graph <=> p \in heatmap

(* An overlay that has been drawn is drawn until it is closed: no key, and  *)
(* no event, takes a search or prompt off the screen while it swallows all  *)
(* keys. (One opened on the waiting screen is not drawn until a profile     *)
(* with samples arrives.)                                                   *)
OverlayStaysDrawn ==
    [][\A t \in DrawnOverlays : t \in overlay' => t \in DrawnOverlays']_AppVars
============================================================================

--------------------------- MODULE DebugInspector --------------------------
(* The debug mode: requests are kept in the order they arrive and shown one *)
(* at a time, with scrolling and a search.  The lines of the page a request *)
(* is rendered into count by the patterns they contain (RequestDocument has *)
(* the pages).  The loop draws before it takes each event, and a draw pulls *)
(* the scroll position back into the page: an action is an event and the    *)
(* draw after it.                                                           *)
EXTENDS Ranking, SequencesExt

CONSTANTS Pattern, NoPattern,
          Requests,     \* requests that may arrive
          Lines,        \* the page of each: for every line its patterns
          Height,       \* lines that fit on the screen
          Page,         \* lines a page key scrolls
          MaxRequests,  \* bound: requests kept
          MaxScroll     \* bound: scrolling while there is no request

ASSUME InspectorAssumption ==
    /\ NoPattern \notin Pattern
    /\ Lines \in [Requests -> Seq(SUBSET Pattern)]
    /\ Height \in Nat \ {0} /\ Page \in Nat \ {0}
    /\ MaxRequests \in Nat /\ MaxScroll \in Nat

VARIABLES requests, current, scroll, running, search,
          early  \* history: pattern confirmed while there was no request
vars == <<requests, current, scroll, running, search, early>>

NoSearch == [active |-> FALSE, input |-> NoPattern, pattern |-> NoPattern,
             hits |-> <<>>, hitCursor |-> 0]

Init ==
    /\ requests = <<>> /\ current = 0 /\ scroll = 0 /\ running = TRUE
    /\ search = NoSearch
    /\ early = FALSE

----------------------------------------------------------------------------
Shown(place, list) == place < Len(list)

Doc(place, list) == Lines[list[place + 1]]

(* Mutant of LastTop: the header and the footer count as lines of the page. *)
LastTopShort(doc) == IF Len(doc) > Height + 2 THEN Len(doc) - Height - 2 ELSE 0

(* lines.len().saturating_sub(height) *)
LastTop(doc) == IF Len(doc) > Height THEN Len(doc) - Height ELSE 0

(* The draw that follows the event. *)
ScrollTo(line) ==
    scroll' = IF Shown(current', requests') /\ line > LastTop(Doc(current', requests'))
              THEN LastTop(Doc(current', requests')) ELSE line

(* In order of the lines, which count from 0. *)
LinesWith(pattern, doc) ==
    Picked([i \in DOMAIN doc |-> i - 1], {i \in DOMAIN doc : pattern \in doc[i]})

(* recompute_hits. *)
Hits(pattern, place, list) ==
    IF pattern # NoPattern /\ Shown(place, list)
    THEN LinesWith(pattern, Doc(place, list))
    ELSE <<>>

ActiveHit(s) == s.hits[s.hitCursor + 1]

----------------------------------------------------------------------------
NewRequest(request) ==
    /\ running
    /\ Len(requests) < MaxRequests
    /\ requests' = Append(requests, request)
    /\ UNCHANGED <<current, running, search, early>>
    /\ ScrollTo(scroll)

(* Keys while the pattern is typed. *)
Typing == running /\ search.active

Input(pattern) ==
    /\ Typing
    /\ search' = [search EXCEPT !.input = pattern]
    /\ UNCHANGED <<requests, current, running, early>>
    /\ ScrollTo(scroll)

CancelInput ==
    /\ Typing
    /\ search' = [search EXCEPT !.active = FALSE, !.input = NoPattern]
    /\ UNCHANGED <<requests, current, running, early>>
    /\ ScrollTo(scroll)

ConfirmInput ==
    /\ Typing
    /\ search' = [active |-> FALSE, input |-> NoPattern, pattern |-> search.input,
                  hits |-> Hits(search.input, current, requests), hitCursor |-> 0]
    /\ early' = (requests = <<>> /\ search.input # NoPattern)
    /\ UNCHANGED <<requests, current, running>>
    /\ ScrollTo(IF search'.hits # <<>> THEN search'.hits[1] ELSE scroll)

----------------------------------------------------------------------------
(* Keys otherwise. *)
Reading == running /\ ~search.active

Quit ==
    /\ Reading
    /\ running' = FALSE
    /\ UNCHANGED <<requests, current, scroll, search, early>>

StartInput ==
    /\ Reading
    /\ search' = [search EXCEPT !.active = TRUE, !.input = NoPattern]
    /\ UNCHANGED <<requests, current, running, early>>
    /\ ScrollTo(scroll)

ClearSearch ==
    /\ Reading
    /\ search' = NoSearch
    /\ early' = FALSE
    /\ UNCHANGED <<requests, current, running>>
    /\ ScrollTo(scroll)

NextHit(s) == (s.hitCursor + 1) % Len(s.hits)

PreviousHit(s) == IF s.hitCursor = 0 THEN Len(s.hits) - 1 ELSE s.hitCursor - 1

(* "n" and "N". *)
Jump ==
    /\ Reading /\ search.pattern # NoPattern /\ search.hits # <<>>
    /\ \/ search' = [search EXCEPT !.hitCursor = NextHit(search)]
       \/ search' = [search EXCEPT !.hitCursor = PreviousHit(search)]
    /\ UNCHANGED <<requests, current, running, early>>
    /\ ScrollTo(ActiveHit(search'))

(* Mutant of Refreshed: the hits of the request that was left are kept. *)
Unrefreshed(place) == search

(* The hits of the request navigated to, when there is a pattern. *)
Refreshed(place) ==
    IF search.pattern = NoPattern THEN search
    ELSE [search EXCEPT !.hits = Hits(search.pattern, place, requests),
                        !.hitCursor = 0]

Navigate(place) ==
    /\ Reading
    /\ current' = place
    /\ search' = Refreshed(place)
    /\ early' = FALSE
    /\ UNCHANGED <<requests, running>>
    /\ ScrollTo(0)

NextRequest == current + 1 < Len(requests) /\ Navigate(current + 1)

Previous == current > 0 /\ Navigate(current - 1)

FirstRequest == requests # <<>> /\ Navigate(0)

LastRequest == requests # <<>> /\ Navigate(Len(requests) - 1)

Scroll(line) ==
    /\ Reading
    /\ line <= MaxScroll
    /\ UNCHANGED <<requests, current, running, search, early>>
    /\ ScrollTo(IF line > 0 THEN line ELSE 0)

Key == \/ (\E pattern \in Pattern \union {NoPattern} : Input(pattern))
       \/ CancelInput \/ ConfirmInput
       \/ Quit \/ StartInput \/ ClearSearch \/ Jump
       \/ NextRequest \/ Previous \/ FirstRequest \/ LastRequest
       \/ \E step \in {1, Page} : Scroll(scroll + step) \/ Scroll(scroll - step)

Next == (\E request \in Requests : NewRequest(request)) \/ Key

Spec == Init /\ [][Next]_vars

----------------------------------------------------------------------------
(* The hits are those of the pattern in the request on the screen, through  *)
(* any navigation and any arrival, but for a pattern confirmed before the   *)
(* first request.                                                           *)
HitsAreCurrent ==
    early \/ search.hits = Hits(search.pattern, current, requests)

(* A jump, and a search that finds something, puts the hit on the screen.   *)
JumpShowsHit ==
    [][(Jump \/ ConfirmInput) /\ search'.hits # <<>> =>
           ActiveHit(search') \in scroll' .. scroll' + Height - 1]_vars
============================================================================

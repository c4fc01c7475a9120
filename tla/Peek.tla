-------------------------------- MODULE Peek --------------------------------
(* The floating file panel (reader/files_peek.rs, reader/file_panel.rs):   *)
(* it opens when the pointer enters the toggle button or dwells on the     *)
(* window's left edge, and closes a moment after the pointer left it.      *)
EXTENDS Integers

VARIABLES
  pinned,     \* files_visible: the panel is docked, nothing floats
  pointer,         \* where the pointer is
  known,      \* the region the toolkit last reported as hovered
  peek,       \* open, the hover flags and edge_blocked
  visible,    \* visibility: 0 gone, 1 moving, 2 there
  animating,  \* files_peek_frame
  closeTimer, \* files_peek_close
  dwellTimer, \* files_peek_dwell
  dragging    \* a selection, a scrollbar or a panel edge is held

peekVars == <<pinned, pointer, known, peek, visible, animating, closeTimer, dwellTimer, dragging>>

\* "edge" is the strip of the window that the panel also covers.
Places == {"button", "edge", "panel", "away", "out"}
PeekClosed == [open |-> FALSE, button |-> FALSE, panel |-> FALSE, edge |-> FALSE, blocked |-> FALSE]
Shown == peek.open \/ visible > 0

\* The element under the pointer: the floating panel occludes the edge.
Region(place) ==
  CASE place = "button" -> "button"
    [] place \in {"edge", "panel"} /\ ~pinned /\ Shown -> "panel"
    [] place = "edge" /\ ~pinned /\ ~Shown -> "edge"
    [] OTHER -> "none"

Closing(p) == p.open /\ ~p.button /\ ~p.panel /\ ~p.edge

PeekInit ==
  /\ pinned \in BOOLEAN /\ pointer = "away" /\ known = "none" /\ peek = PeekClosed /\ visible = 0
  /\ animating = FALSE /\ closeTimer = FALSE /\ dwellTimer = FALSE /\ dragging = FALSE

\* animate_files_peek: frames are asked for until the target is reached.
Animated(p) == animating \/ visible # (IF p.open THEN 2 ELSE 0)

\* files_peek_hovered.
Scheduled(p) ==
  /\ peek' = p /\ closeTimer' = Closing(p) /\ animating' = Animated(p)

\* A region that still counts as hovered since the pointer left the window
\* gets no new entry; a move in it stands in (files_peek_edge_moved,
\* files_peek_panel_moved). The button has no such handler.
StandsIn(region) ==
  region = known /\ ((region = "edge" /\ ~peek.edge) \/ (region = "panel" /\ ~peek.panel))

\* hover_button, hover_panel and hover_edge, for the region that is left and
\* the one that is entered.
Hovered(region) ==
  LET left(r) == known = r /\ region # r
      entered(r) == region = r /\ (known # r \/ StandsIn(r))
      flag(r, before) == (before /\ ~left(r)) \/ entered(r)
  IN  [open |-> \/ peek.open
                \/ entered("button") /\ ~peek.button /\ ~pinned
                \/ entered("panel") /\ visible > 0,
       button |-> flag("button", peek.button),
       panel |-> flag("panel", peek.panel),
       edge |-> flag("edge", peek.edge),
       blocked |-> peek.blocked /\ ~left("edge")]

\* A move of the pointer; one outside the edge strip ends the block, and only
\* a report of the toolkit is handled (files_peek_edge, files_peek_hovered).
MoveTo(place) ==
  LET region == Region(place)
      next == [Hovered(region) EXCEPT !.blocked = @ /\ place = "edge"]
      reported == region # known \/ StandsIn(region)
  IN  /\ place # "out"
      /\ pointer' = place /\ known' = region
      /\ dwellTimer' = IF reported /\ "edge" \in {region, known}
                         THEN region = "edge" /\ ~peek.edge /\ ~peek.blocked ELSE dwellTimer
      /\ peek' = next
      /\ closeTimer' = IF reported THEN Closing(next) ELSE closeTimer
      /\ animating' = IF reported THEN Animated(next) ELSE animating
      /\ UNCHANGED <<pinned, visible, dragging>>

\* Mutant: the hover flags stay as they were.
LeaveWindowHovering ==
  /\ pointer # "out"
  /\ pointer' = "out" /\ dwellTimer' = FALSE
  /\ Scheduled(peek)
  /\ UNCHANGED <<pinned, known, visible, dragging>>

\* files_peek_left: no move tells of it, and the toolkit keeps its hover.
LeaveWindow ==
  /\ pointer # "out"
  /\ pointer' = "out" /\ dwellTimer' = FALSE
  /\ Scheduled([peek EXCEPT !.button = FALSE, !.panel = FALSE, !.edge = FALSE])
  /\ UNCHANGED <<pinned, known, visible, dragging>>

\* The grace period is over: expire.
CloseExpires ==
  /\ closeTimer
  /\ closeTimer' = FALSE
  /\ peek' = [peek EXCEPT !.open = @ /\ ~Closing(peek)]
  /\ animating' = (animating \/ (Closing(peek) /\ visible # 0))
  /\ UNCHANGED <<pinned, pointer, known, visible, dwellTimer, dragging>>

\* files_peek_dwelled.
DwellEnds ==
  LET opens == ~dragging /\ ~peek.open /\ ~pinned /\ ~peek.blocked /\ peek.edge
  IN  /\ dwellTimer
      /\ dwellTimer' = FALSE
      /\ peek' = [peek EXCEPT !.open = @ \/ opens]
      /\ animating' = (animating \/ (opens /\ visible # 2))
      /\ UNCHANGED <<pinned, pointer, known, visible, closeTimer, dragging>>

\* files_peek_tick. A panel that is gone is no region of the toolkit's.
AnimationTick ==
  /\ animating
  /\ visible' = IF peek.open THEN (IF visible = 2 THEN 2 ELSE visible + 1)
                ELSE (IF visible = 0 THEN 0 ELSE visible - 1)
  /\ animating' = (visible' # (IF peek.open THEN 2 ELSE 0))
  /\ known' = IF known = "panel" /\ ~peek.open /\ visible' = 0 THEN "none" ELSE known
  /\ UNCHANGED <<pinned, pointer, peek, closeTimer, dwellTimer, dragging>>

\* reset_files_peek, from Command::Files and from a divider dragged shut: the
\* regions are other ones from now on.
TogglePinned ==
  /\ pinned' = ~pinned
  /\ peek' = [PeekClosed EXCEPT !.blocked = TRUE]
  /\ visible' = 0 /\ animating' = FALSE /\ closeTimer' = FALSE /\ dwellTimer' = FALSE
  /\ known' = IF known = "button" THEN "button" ELSE "none"
  /\ UNCHANGED <<pointer, dragging>>

\* A mouse button goes down on the view, or up again.
Drag ==
  /\ dragging' = ~dragging
  /\ UNCHANGED <<pinned, pointer, known, peek, visible, animating, closeTimer, dwellTimer>>

PeekNext ==
  \/ \E place \in Places : MoveTo(place)
  \/ LeaveWindow \/ CloseExpires \/ DwellEnds \/ AnimationTick \/ TogglePinned \/ Drag

PeekSpec == PeekInit /\ [][PeekNext]_peekVars

-----------------------------------------------------------------------------
(* Properties.                                                             *)

\* The panel floats only for a pointer that is on it, or its closing is on the
\* way: "every hover flag would stay set and hold the panel open over a window
\* the user moved on to" (pointer_left) never happens, whatever the order of
\* moves, timers, frames and toggles.
PeekIsHeld ==
  peek.open => /\ ~pinned
               /\ pointer \in {"button", "edge", "panel"} \/ closeTimer

\* The inductive form of PeekIsHeld: a flag of a region is only set while the
\* toolkit hovers it and the pointer is there, the panel's own flag only while it
\* is open, and a panel that no flag holds has its closing on the way.
PeekInv ==
  /\ pinned \in BOOLEAN /\ closeTimer \in BOOLEAN /\ visible \in 0 .. 2
  /\ peek \in [open : BOOLEAN, button : BOOLEAN, panel : BOOLEAN, edge : BOOLEAN, blocked : BOOLEAN]
  /\ Shown => ~pinned
  /\ peek.button => known = "button" /\ pointer = "button"
  /\ peek.edge => known = "edge" /\ pointer = "edge"
  /\ peek.panel => known = "panel" /\ pointer \in {"edge", "panel"} /\ peek.open
  /\ Closing(peek) => closeTimer
=============================================================================

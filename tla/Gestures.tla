------------------------------ MODULE Gestures ------------------------------
(* Scrolling by wheel and touchpad (core/src/scroll.rs, ui/src/scrolling.rs): *)
(* a gesture moves the view, its release makes the view coast, and a pull   *)
(* against an edge turns to the neighbouring file (turn_file of reader.rs). *)
(*                                                                          *)
(* Distances are steps; a pull of Threshold steps turns. The source view is *)
(* scrolled when it is painted, the rich view at once.                      *)
EXTENDS Integers, Sequences

CONSTANTS
  Rooms,        \* for each file of the list, the steps it can be scrolled
  Threshold,    \* PULL_THRESHOLD
  Deltas,       \* steps one wheel event moves
  MaxEvents     \* bound on wheel events

ASSUME GesturesAssumption == Deltas \subseteq Int /\ Threshold \in Nat

VARIABLES
  rich,        \* the rich view is showing
  fileAt,        \* the selected file
  place,       \* where the view was last painted, -1 before the first frame
  due,         \* pending_scroll
  boundary,    \* BoundaryScroll: armed, pulling and progress
  active,      \* a gesture is in progress
  quiet,       \* more than FRESH_GAP since the last wheel event
  samples,     \* direction the last finger deltas go in, 0 when too slow
  fling,       \* direction of the coast, 0 for none
  lifting,     \* lift_task
  ticking,     \* coast_ticking
  covered,       \* a panel covers the view
  burst,       \* what the events since the last fresh one did: turns, and
               \* whether they scrolled, sideways events during a pull apart
  turned,      \* direction of the turn that was just made, 0 for none
  events

gestureVars ==
  <<rich, fileAt, place, due, boundary, active, quiet, samples, fling, lifting, ticking, covered, burst,
    turned, events>>

Unarmed == [armed |-> 0, pulling |-> FALSE, progress |-> 0]
NoBurst == [scrolled |-> FALSE, turns |-> 0]

Sign(d) == IF d > 0 THEN 1 ELSE IF d < 0 THEN -1 ELSE 0
Size(d) == IF d < 0 THEN 0 - d ELSE d
Clamped(p, f) == IF p < 0 THEN 0 ELSE IF p > Rooms[f] THEN Rooms[f] ELSE p

-----------------------------------------------------------------------------
(* The state machines of scroll.rs.                                        *)

\* edge_of, boundary and rich_edges: the edge the view is at in a direction.
EdgeAt(p, f, direction) ==
  IF (direction < 0 /\ p = 0) \/ (direction > 0 /\ p = Rooms[f]) THEN direction ELSE 0

StopPull(b) == [armed |-> b.armed, pulling |-> FALSE, progress |-> 0]

\* Mutant: a gesture that pulls on needs no fresh start.
BoundaryUpdateAnyGesture(edge, delta, fresh) ==
  IF edge = 0 THEN [next |-> StopPull([boundary EXCEPT !.armed = Sign(delta)]), turn |-> 0]
  ELSE LET pulling == boundary.armed = edge
           progress == boundary.progress + Size(delta)
       IN  CASE ~pulling -> [next |-> [Unarmed EXCEPT !.armed = edge], turn |-> 0]
             [] pulling /\ progress >= Threshold -> [next |-> Unarmed, turn |-> edge]
             [] OTHER -> [next |-> [armed |-> edge, pulling |-> TRUE, progress |-> progress], turn |-> 0]

\* BoundaryScroll::update. The edge is 0 or the direction of the delta.
BoundaryUpdate(edge, delta, fresh) ==
  IF edge = 0 THEN [next |-> StopPull([boundary EXCEPT !.armed = Sign(delta)]), turn |-> 0]
  ELSE LET pulling == IF fresh THEN boundary.armed = edge ELSE boundary.pulling
           before == IF fresh THEN 0 ELSE boundary.progress
           progress == before + Size(delta)
       IN  CASE ~pulling
                  -> [next |-> [armed |-> edge, pulling |-> FALSE, progress |-> before], turn |-> 0]
             [] pulling /\ progress >= Threshold -> [next |-> Unarmed, turn |-> edge]
             [] OTHER -> [next |-> [boundary EXCEPT !.pulling = TRUE, !.progress = progress], turn |-> 0]

\* Kinetic::finger and release_velocity: the last deltas together are in the new
\* direction, still in the old one, or too slow.
Finger(delta, precise) == IF precise THEN {0, Sign(delta), samples} ELSE {0}

\* select_file: the gesture and the edge are forgotten, the view is new.
SelectFile(f, p) ==
  /\ fileAt' = f /\ place' = -1 /\ due' = p
  /\ boundary' = Unarmed
  /\ active' = FALSE /\ samples' = 0 /\ fling' = 0 /\ lifting' = FALSE

-----------------------------------------------------------------------------
(* Actions.                                                                *)
GesturesInit ==
  /\ rich \in BOOLEAN /\ fileAt = 1 /\ place = 0 /\ due = 0
  /\ boundary = Unarmed /\ active = FALSE /\ quiet = TRUE /\ samples = 0 /\ fling = 0
  /\ lifting = FALSE /\ ticking = FALSE /\ covered = FALSE
  /\ burst = NoBurst /\ turned = 0 /\ events = 0

\* Viewport::frame or the list's layout.
Paint ==
  /\ place = -1 \/ due # 0
  /\ place' = Clamped((IF place = -1 THEN 0 ELSE place) + due, fileAt)
  /\ due' = 0 /\ turned' = 0
  /\ UNCHANGED <<rich, fileAt, boundary, active, quiet, samples, fling, lifting, ticking, covered, burst,
                 events>>

\* wheel: a movement of d steps, down when positive. A touchpad is precise;
\* only some platforms say that a gesture started. BoundaryScroll hears of an
\* upright movement only, one that goes further up or down than sideways; any
\* other scrolls all the same. turn_file finds no file beyond the first and the
\* last.
Wheel(d, precise, started, upright) ==
  LET fresh == started \/ (~active /\ quiet)
      \* the list scrolls itself before the handler runs
      at == IF rich /\ place >= 0 THEN Clamped(place + d, fileAt) ELSE place
      edge == IF at = -1 THEN 0 ELSE EdgeAt(at, fileAt, Sign(d))
      update == IF upright THEN BoundaryUpdate(edge, d, fresh) ELSE [next |-> boundary, turn |-> 0]
      next == fileAt + update.turn
      begun == IF fresh THEN NoBurst ELSE burst
      moves == IF rich THEN at # place ELSE d # 0 /\ edge = 0
  IN  /\ ~covered /\ events < MaxEvents /\ (upright => d # 0)
      /\ events' = events + 1 /\ quiet' = FALSE
      /\ turned' = IF next \in DOMAIN Rooms THEN update.turn ELSE 0
      /\ burst' = [scrolled |-> begun.scrolled \/ (moves /\ (upright \/ ~boundary.pulling)),
                   turns |-> begun.turns + Size(update.turn)]
      /\ IF update.turn # 0 /\ next \in DOMAIN Rooms
           THEN SelectFile(next, IF update.turn < 0 THEN Rooms[next] ELSE 0)
           ELSE /\ boundary' = update.next /\ active' = TRUE /\ fling' = 0 /\ lifting' = TRUE
                /\ IF update.turn = 0 THEN samples' \in Finger(d, precise) ELSE samples' = 0
                /\ place' = at
                /\ due' = IF rich \/ update.turn # 0 THEN due ELSE due + d
                /\ UNCHANGED fileAt
      /\ UNCHANGED <<rich, ticking, covered>>

\* finger_lifted: a zero delta, an ended phase, or the lift timer.
FingerLifted ==
  /\ lifting \/ active
  /\ lifting' = FALSE /\ active' = FALSE /\ turned' = 0 /\ samples' = 0
  /\ boundary' = IF active THEN StopPull(boundary) ELSE boundary
  /\ fling' = IF active THEN samples ELSE fling
  /\ ticking' = (ticking \/ (active /\ samples # 0))
  /\ UNCHANGED <<rich, fileAt, place, due, quiet, covered, burst, events>>

\* coast_tick: the next frame of the coast, which may be its last. It moves the
\* view and never pulls; an edge ends it and is armed (apply_coast_step).
CoastTick(stops) ==
  LET edge == EdgeAt(place, fileAt, fling)
      goesOn == fling # 0 /\ edge = 0 /\ ~stops
  IN  /\ ticking
      /\ due = 0 /\ place >= 0
      /\ boundary' = IF fling # 0 /\ edge # 0 THEN [Unarmed EXCEPT !.armed = edge] ELSE boundary
      /\ samples' = IF fling # 0 /\ edge # 0 THEN 0 ELSE samples
      /\ IF fling # 0 /\ edge = 0
           THEN IF rich
                  THEN place' = Clamped(place + fling, fileAt) /\ due' = due
                  ELSE due' = due + fling /\ place' = place
           ELSE UNCHANGED <<place, due>>
      /\ fling' = IF goesOn THEN fling ELSE 0
      /\ ticking' = goesOn
      /\ turned' = 0
      /\ UNCHANGED <<rich, fileAt, active, quiet, lifting, covered, burst, events>>

\* More than FRESH_GAP pass without a wheel event.
Pause ==
  /\ ~quiet
  /\ quiet' = TRUE /\ turned' = 0
  /\ UNCHANGED <<rich, fileAt, place, due, boundary, active, samples, fling, lifting, ticking, covered,
                 burst, events>>

\* step_file, or a click in the file list.
StepFile(f) ==
  /\ f # fileAt
  /\ SelectFile(f, 0) /\ turned' = 0
  /\ UNCHANGED <<rich, quiet, ticking, covered, burst, events>>

\* A panel opens over the view, or closes.
TogglePanel ==
  /\ covered' = ~covered /\ turned' = 0
  /\ UNCHANGED <<rich, fileAt, place, due, boundary, active, quiet, samples, fling, lifting, ticking,
                 burst, events>>

\* A page key moves the source view without a gesture.
PageKey(direction) ==
  /\ ~covered /\ due = 0 /\ place >= 0
  /\ IF rich THEN place' = Clamped(place + direction, fileAt) /\ due' = 0
             ELSE due' = direction /\ place' = place
  /\ turned' = 0
  /\ UNCHANGED <<rich, fileAt, boundary, active, quiet, samples, fling, lifting, ticking, covered, burst,
                 events>>

GesturesNext ==
  \/ Paint \/ FingerLifted \/ Pause \/ TogglePanel
  \/ \E d \in Deltas \cup {0}, precise, started, upright \in BOOLEAN : Wheel(d, precise, started, upright)
  \/ \E stops \in BOOLEAN : CoastTick(stops)
  \/ \E f \in DOMAIN Rooms : StepFile(f)
  \/ \E direction \in {-1, 1} : PageKey(direction)

GesturesSpec == GesturesInit /\ [][GesturesNext]_gestureVars

-----------------------------------------------------------------------------
(* Properties.                                                             *)

\* One gesture turns one file, and in the source view only a gesture that did
\* not bring the view to its edge ("a later, separate gesture in the same
\* direction then pulls against it", BoundaryScroll): neither a long scroll
\* that runs into the edge nor a coast turns the file, however events, frames,
\* lift timer and coast interleave (wheel, finger_lifted, coast_tick). Once a
\* gesture pulls, its mostly sideways events are left out: wheel does not hand
\* them to BoundaryScroll although they scroll the view, so that a pull goes on
\* over one that takes the view off its edge and another that brings it back.
TurnIsDeliberate ==
  turned # 0 => burst.turns = 1 /\ (~rich => ~burst.scrolled)

\* The inductive form of TurnIsDeliberate: while a gesture pulls against an edge,
\* its events have neither turned a file nor, in the source view, scrolled it
\* but for sideways events during the pull.
GesturesInv ==
  /\ TurnIsDeliberate
  /\ rich \in BOOLEAN /\ samples \in {-1, 0, 1} /\ fling \in {-1, 0, 1}
  /\ boundary \in [armed : {-1, 0, 1}, pulling : BOOLEAN, progress : Int]
  /\ burst \in [scrolled : BOOLEAN, turns : Int]
  /\ boundary.pulling => burst.turns = 0 /\ (~rich => ~burst.scrolled)
=============================================================================

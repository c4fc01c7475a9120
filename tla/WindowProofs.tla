---------------------------- MODULE WindowProofs ----------------------------
(***************************************************************************)
(* What a window does while timers, frames, loads and the pointer          *)
(* interleave: the floating file panel never stays open by itself, one     *)
(* gesture turns one file, the slash menu's highlight is an entry of it,   *)
(* and an edit of a theme is followed by a load. A comment that was sent   *)
(* and recognised is shown where it was written. The lines of a hunk       *)
(* follow one another, whatever hidden lines were fetched around them, and *)
(* the tree of files is that of the filter and release of the moment.      *)
(*                                                                         *)
(* Each part is closed under its own steps, for any list of files, wheel   *)
(* deltas, saved replies, number of edits and patch of one file.           *)
(***************************************************************************)
EXTENDS Peek, Gestures, Composer, Themes, Anchors, Viewport, FileTree, FiniteSetTheorems,
        SequenceTheorems, WellFoundedInduction, TLAPS

-----------------------------------------------------------------------------
(* Peek.                                                                   *)

\* What a move of the pointer reports: the flags of the region it is in.
LEMMA HoveredFlags ==
  ASSUME PeekInv, NEW spot \in Places, spot # "out"
  PROVE  LET region == Region(spot)
             h == Hovered(region)
         IN  /\ h \in [open : BOOLEAN, button : BOOLEAN, panel : BOOLEAN, edge : BOOLEAN,
                       blocked : BOOLEAN]
             /\ h.button => region = "button" /\ spot = "button"
             /\ h.edge => region = "edge" /\ spot = "edge"
             /\ h.panel => region = "panel" /\ spot \in {"edge", "panel"} /\ h.open
             /\ h.open => ~pinned
<1> DEFINE region == Region(spot)
           h == Hovered(region)
<1>1. /\ region = "button" => spot = "button"
      /\ region = "edge" => spot = "edge"
      /\ region = "panel" => spot \in {"edge", "panel"} /\ ~pinned /\ Shown
  BY DEF Region, Places
<1> HIDE DEF region
<1>2. /\ h.button = ((peek.button /\ ~(known = "button" /\ region # "button"))
                     \/ (region = "button" /\ (known # "button" \/ StandsIn("button"))))
      /\ h.panel = ((peek.panel /\ ~(known = "panel" /\ region # "panel"))
                     \/ (region = "panel" /\ (known # "panel" \/ StandsIn("panel"))))
      /\ h.edge = ((peek.edge /\ ~(known = "edge" /\ region # "edge"))
                     \/ (region = "edge" /\ (known # "edge" \/ StandsIn("edge"))))
  BY DEF Hovered
<1>3. h.open = (\/ peek.open
                \/ region = "button" /\ (known # "button" \/ StandsIn("button"))
                     /\ ~peek.button /\ ~pinned
                \/ region = "panel" /\ (known # "panel" \/ StandsIn("panel")) /\ visible > 0)
  BY DEF Hovered
<1>4. h \in [open : BOOLEAN, button : BOOLEAN, panel : BOOLEAN, edge : BOOLEAN, blocked : BOOLEAN]
  BY DEF PeekInv, Hovered
<1> HIDE DEF h
<1>5. h.button => region = "button"
  BY <1>2 DEF PeekInv
<1>6. h.edge => region = "edge"
  BY <1>2 DEF PeekInv
<1>7. h.panel => region = "panel" /\ h.open
  BY <1>1, <1>2, <1>3 DEF PeekInv, Shown
<1>8. h.open => ~pinned
  BY <1>1, <1>3 DEF PeekInv, Shown
<1> QED  BY <1>1, <1>4, <1>5, <1>6, <1>7, <1>8 DEF region, h

\* A move that the toolkit does not report leaves the flags as they are.
LEMMA UnreportedMove ==
  ASSUME PeekInv, NEW region, region = known, ~StandsIn(region)
  PROVE  LET h == Hovered(region)
         IN  /\ h.open = peek.open /\ h.button = peek.button
             /\ h.panel = peek.panel /\ h.edge = peek.edge
  BY DEF PeekInv, Hovered

LEMMA PeekStep ==
  ASSUME PeekInv, [PeekNext]_peekVars
  PROVE  PeekInv'
<1>1. ASSUME NEW spot \in Places, MoveTo(spot)
      PROVE  PeekInv'
  <2> DEFINE region == Region(spot)
             h == Hovered(region)
             next == [h EXCEPT !.blocked = @ /\ spot = "edge"]
  <2>1. /\ pointer' = spot /\ known' = region /\ peek' = next
        /\ closeTimer' = (IF region # known \/ StandsIn(region) THEN Closing(next) ELSE closeTimer)
        /\ UNCHANGED <<pinned, visible>> /\ spot # "out"
    BY <1>1 DEF MoveTo
  <2>2. /\ h \in [open : BOOLEAN, button : BOOLEAN, panel : BOOLEAN, edge : BOOLEAN,
                  blocked : BOOLEAN]
        /\ h.button => region = "button" /\ spot = "button"
        /\ h.edge => region = "edge" /\ spot = "edge"
        /\ h.panel => region = "panel" /\ spot \in {"edge", "panel"} /\ h.open
        /\ h.open => ~pinned
    BY <2>1, HoveredFlags
  <2>3. region = known /\ ~StandsIn(region) =>
          /\ h.open = peek.open /\ h.button = peek.button
          /\ h.panel = peek.panel /\ h.edge = peek.edge
    BY UnreportedMove
  <2> HIDE DEF region, h
  <2>4. /\ next \in [open : BOOLEAN, button : BOOLEAN, panel : BOOLEAN, edge : BOOLEAN,
                     blocked : BOOLEAN]
        /\ next.open = h.open /\ next.button = h.button
        /\ next.panel = h.panel /\ next.edge = h.edge
    BY <2>2
  <2> HIDE DEF next
  <2>5. Closing(next) \in BOOLEAN
    BY <2>4 DEF Closing, PeekInv
  <2>6. Closing(next) => closeTimer'
    BY <2>1, <2>3, <2>4 DEF Closing, PeekInv
  <2>7. Shown' => ~pinned
    BY <2>1, <2>2, <2>4 DEF Shown, PeekInv
  <2>8. Closing(peek)' = Closing(next)
    BY <2>1 DEF Closing
  <2>9. closeTimer' \in BOOLEAN
    BY <2>1, <2>5 DEF PeekInv
  <2> QED  BY <2>1, <2>2, <2>4, <2>6, <2>7, <2>8, <2>9 DEF PeekInv
<1>2. CASE LeaveWindow
  <2> DEFINE next == [peek EXCEPT !.button = FALSE, !.panel = FALSE, !.edge = FALSE]
  <2>1. /\ UNCHANGED <<pinned, known, visible>> /\ peek' = next
        /\ closeTimer' = Closing(next)
    BY <1>2 DEF LeaveWindow, Scheduled
  <2>2. /\ next \in [open : BOOLEAN, button : BOOLEAN, panel : BOOLEAN, edge : BOOLEAN,
                     blocked : BOOLEAN]
        /\ next.open = peek.open /\ ~next.button /\ ~next.panel /\ ~next.edge
    BY DEF PeekInv
  <2> HIDE DEF next
  <2>3. Closing(next) \in BOOLEAN
    BY <2>2 DEF Closing
  <2> QED  BY <2>1, <2>2, <2>3 DEF PeekInv, Shown, Closing
<1>3. CASE CloseExpires
  <2> DEFINE next == [peek EXCEPT !.open = @ /\ ~Closing(peek)]
  <2>1. UNCHANGED <<pinned, pointer, known, visible>> /\ peek' = next /\ closeTimer' = FALSE
    BY <1>3 DEF CloseExpires
  <2>2. /\ next \in [open : BOOLEAN, button : BOOLEAN, panel : BOOLEAN, edge : BOOLEAN,
                     blocked : BOOLEAN]
        /\ next.button = peek.button /\ next.panel = peek.panel /\ next.edge = peek.edge
        /\ next.open = (peek.open /\ ~Closing(peek))
    BY DEF PeekInv
  <2> HIDE DEF next
  <2>3. peek.panel => ~Closing(peek)
    BY DEF Closing
  <2>4. ~Closing(next)
    BY <2>2 DEF Closing, PeekInv
  <2> QED  BY <2>1, <2>2, <2>3, <2>4 DEF PeekInv, Shown, Closing
<1>4. CASE DwellEnds
  BY <1>4 DEF DwellEnds, PeekInv, Shown, Closing
<1>5. CASE AnimationTick
  BY <1>5 DEF AnimationTick, PeekInv, Shown, Closing
<1>6. CASE TogglePinned
  <2> DEFINE next == [PeekClosed EXCEPT !.blocked = TRUE]
  <2>1. peek' = next /\ pinned' = ~pinned /\ closeTimer' = FALSE
    BY <1>6 DEF TogglePinned
  <2>2. visible' \in 0 .. 2 /\ ~(visible' > 0)
    BY <1>6 DEF TogglePinned
  <2>3. /\ next \in [open : BOOLEAN, button : BOOLEAN, panel : BOOLEAN, edge : BOOLEAN,
                     blocked : BOOLEAN]
        /\ ~next.open /\ ~next.button /\ ~next.panel /\ ~next.edge
    BY DEF PeekClosed
  <2> HIDE DEF next
  <2> QED  BY <2>1, <2>2, <2>3, Zenon DEF PeekInv, Shown, Closing
<1>7. CASE Drag
  BY <1>7 DEF Drag, PeekInv, Shown, Closing
<1>8. CASE UNCHANGED peekVars
  BY <1>8 DEF peekVars, PeekInv, Shown, Closing
<1> QED  BY <1>1, <1>2, <1>3, <1>4, <1>5, <1>6, <1>7, <1>8 DEF PeekNext

\* The floating panel is open only for a pointer on it or with its closing on the
\* way, and never beside the docked one, in every order of pointer moves, timers,
\* frames and toggles (files_peek.rs).
THEOREM ThePanelIsHeld == PeekSpec => []PeekIsHeld
<1>1. PeekInit => PeekInv
  <2>1. /\ PeekClosed \in [open : BOOLEAN, button : BOOLEAN, panel : BOOLEAN, edge : BOOLEAN,
                           blocked : BOOLEAN]
        /\ ~PeekClosed.open /\ ~PeekClosed.button /\ ~PeekClosed.panel /\ ~PeekClosed.edge
    BY DEF PeekClosed
  <2> SUFFICES ASSUME PeekInit
               PROVE  PeekInv
    OBVIOUS
  <2>2. visible \in 0 .. 2 /\ ~(visible > 0)
    BY DEF PeekInit
  <2>3. peek = PeekClosed /\ pinned \in BOOLEAN /\ closeTimer \in BOOLEAN
    BY DEF PeekInit
  <2> QED  BY <2>1, <2>2, <2>3, Zenon DEF PeekInv, Shown, Closing
<1>2. PeekInv => PeekIsHeld
  BY DEF PeekInv, PeekIsHeld, Shown, Closing
<1> QED  BY <1>1, <1>2, PeekStep, PTL DEF PeekSpec

-----------------------------------------------------------------------------
(* Gestures.                                                               *)

\* An edge has the direction of the delta.
LEMMA EdgeDirection ==
  ASSUME NEW d \in Int, NEW p, NEW f
  PROVE  EdgeAt(p, f, Sign(d)) \in {-1, 0, 1}
  BY DEF EdgeAt, Sign

LEMMA PullStops ==
  ASSUME NEW b \in [armed : {-1, 0, 1}, pulling : BOOLEAN, progress : Int]
  PROVE  /\ StopPull(b) \in [armed : {-1, 0, 1}, pulling : BOOLEAN, progress : Int]
         /\ ~StopPull(b).pulling
  BY DEF StopPull

\* BoundaryScroll::update turns at an edge only, for a gesture that pulled before or
\* that is fresh, and pulls on only for those.
LEMMA BoundaryUpdates ==
  ASSUME GesturesInv, NEW edge \in {-1, 0, 1}, NEW d \in Int, NEW fresh \in BOOLEAN
  PROVE  LET u == BoundaryUpdate(edge, d, fresh)
         IN  /\ u.next \in [armed : {-1, 0, 1}, pulling : BOOLEAN, progress : Int]
             /\ u.turn \in {0, edge}
             /\ u.next.pulling \/ u.turn # 0 => edge # 0 /\ (fresh \/ boundary.pulling)
             /\ u.turn # 0 => ~u.next.pulling
<1> DEFINE B == [armed : {-1, 0, 1}, pulling : BOOLEAN, progress : Int]
           u == BoundaryUpdate(edge, d, fresh)
<1>1. boundary \in B /\ boundary.pulling \in BOOLEAN /\ boundary.progress \in Int
  BY DEF GesturesInv
<1>2. Size(d) \in Int /\ Sign(d) \in {-1, 0, 1}
  BY DEF Size, Sign
<1>3. Unarmed \in B /\ ~Unarmed.pulling
  BY DEF Unarmed
<1>4. CASE edge = 0
  <2>1. /\ u.next = StopPull([boundary EXCEPT !.armed = Sign(d)])
        /\ u.turn = 0
    BY <1>4 DEF BoundaryUpdate
  <2>2. [boundary EXCEPT !.armed = Sign(d)] \in B
    BY <1>1, <1>2
  <2>3. u.next \in B /\ ~u.next.pulling
    BY <2>1, <2>2, PullStops
  <2> QED  BY <1>4, <2>1, <2>3
<1>5. CASE edge # 0
  <2> DEFINE pulls == IF fresh THEN boundary.armed = edge ELSE boundary.pulling
             before == IF fresh THEN 0 ELSE boundary.progress
             progress == before + Size(d)
             idle == [armed |-> edge, pulling |-> FALSE, progress |-> before]
             goesOn == [boundary EXCEPT !.pulling = TRUE, !.progress = progress]
  <2>0. before \in Int /\ progress \in Int
    BY <1>1, <1>2
  <2>1. pulls \in BOOLEAN /\ (pulls => fresh \/ boundary.pulling)
    BY <1>1
  <2>2. u = CASE ~pulls -> [next |-> idle, turn |-> 0]
              [] pulls /\ progress >= Threshold -> [next |-> Unarmed, turn |-> edge]
              [] OTHER -> [next |-> goesOn, turn |-> 0]
    BY <1>5 DEF BoundaryUpdate
  <2>3. idle \in B /\ ~idle.pulling
    BY <2>0
  <2>4. goesOn \in B
    BY <1>1, <2>0
  <2> HIDE DEF u, pulls, before, progress, idle, goesOn, B
  <2>5. CASE ~pulls
    <3>1. u.next = idle /\ u.turn = 0
      BY <2>2, <2>5
    <3> QED  BY <2>3, <3>1 DEF u, B
  <2>6. CASE pulls /\ progress >= Threshold
    <3>1. u.next = Unarmed /\ u.turn = edge
      BY <2>2, <2>6
    <3> QED  BY <1>3, <1>5, <2>1, <2>6, <3>1 DEF u, B
  <2>7. CASE pulls /\ ~(progress >= Threshold)
    <3>1. u.next = goesOn /\ u.turn = 0
      BY <2>2, <2>7
    <3> QED  BY <1>5, <2>1, <2>4, <2>7, <3>1 DEF u, B
  <2> QED  BY <2>5, <2>6, <2>7
<1> QED  BY <1>4, <1>5

LEMMA WheelStep ==
  ASSUME GesturesInv, NEW d \in Deltas \cup {0}, NEW precise \in BOOLEAN, NEW started \in BOOLEAN,
         NEW upright \in BOOLEAN, Wheel(d, precise, started, upright)
  PROVE  GesturesInv'
<1> DEFINE fresh == started \/ (~active /\ quiet)
           at == IF rich /\ place >= 0 THEN Clamped(place + d, fileAt) ELSE place
           edge == IF at = -1 THEN 0 ELSE EdgeAt(at, fileAt, Sign(d))
           u == IF upright THEN BoundaryUpdate(edge, d, fresh) ELSE [next |-> boundary, turn |-> 0]
           next == fileAt + u.turn
           begun == IF fresh THEN NoBurst ELSE burst
           moves == IF rich THEN at # place ELSE d # 0 /\ edge = 0
           scrolls == moves /\ (upright \/ ~boundary.pulling)
<1>1. d \in Int /\ fresh \in BOOLEAN
  BY GesturesAssumption
<1>2. edge \in {-1, 0, 1}
  BY <1>1, EdgeDirection
<1>3. /\ u.next \in [armed : {-1, 0, 1}, pulling : BOOLEAN, progress : Int]
      /\ u.turn \in {0, edge}
      /\ u.turn # 0 => upright /\ ~u.next.pulling
      /\ upright /\ (u.next.pulling \/ u.turn # 0) => edge # 0 /\ (fresh \/ boundary.pulling)
      /\ ~upright => u.next = boundary
  <2>1. CASE upright
    <3> DEFINE w == BoundaryUpdate(edge, d, fresh)
    <3>1. u = w
      BY <2>1
    <3>2. /\ w.next \in [armed : {-1, 0, 1}, pulling : BOOLEAN, progress : Int]
          /\ w.turn \in {0, edge}
          /\ w.next.pulling \/ w.turn # 0 => edge # 0 /\ (fresh \/ boundary.pulling)
          /\ w.turn # 0 => ~w.next.pulling
      BY <1>1, <1>2, BoundaryUpdates, ZenonT(60)
    <3> HIDE DEF u, edge, fresh, w
    <3> QED BY <2>1, <3>1, <3>2
  <2>2. CASE ~upright
    <3>1. u.next = boundary /\ u.turn = 0
      BY <2>2
    <3> HIDE DEF u, edge, fresh
    <3> QED BY <2>2, <3>1 DEF GesturesInv
  <2> QED BY <2>1, <2>2
<1>4. /\ rich' = rich
      /\ turned' = IF next \in DOMAIN Rooms THEN u.turn ELSE 0
      /\ burst' = [scrolled |-> begun.scrolled \/ scrolls, turns |-> begun.turns + Size(u.turn)]
      /\ boundary' = Unarmed \/ boundary' = u.next
      /\ upright => d # 0
  BY DEF Wheel, SelectFile
<1>0. samples' \in {-1, 0, 1} /\ fling' \in {-1, 0, 1}
  <2>1. Sign(d) \in {-1, 0, 1} /\ samples \in {-1, 0, 1}
    BY <1>1 DEF Sign, GesturesInv
  <2>2. fling' = 0 /\ (samples' = 0 \/ samples' \in Finger(d, precise))
    BY DEF Wheel, SelectFile
  <2> QED  BY <2>1, <2>2 DEF Finger
<1>5. begun \in [scrolled : BOOLEAN, turns : Int]
  BY DEF GesturesInv, NoBurst
<1>6. /\ rich \in BOOLEAN /\ scrolls \in BOOLEAN /\ boundary.pulling \in BOOLEAN
      /\ upright /\ edge # 0 /\ ~rich => ~scrolls
      /\ ~upright /\ boundary.pulling => ~scrolls
  BY DEF GesturesInv
<1>7. fresh \/ boundary.pulling => begun.turns = 0 /\ (~rich => ~begun.scrolled)
  BY DEF GesturesInv, NoBurst
<1> HIDE DEF fresh, at, edge, u, next, begun, moves, scrolls
<1>9. Size(u.turn) = IF u.turn = 0 THEN 0 ELSE 1
  BY <1>2, <1>3 DEF Size
<1>10. /\ burst' \in [scrolled : BOOLEAN, turns : Int]
       /\ burst'.turns = begun.turns + (IF u.turn = 0 THEN 0 ELSE 1)
       /\ burst'.scrolled = (begun.scrolled \/ scrolls)
  BY <1>4, <1>5, <1>6, <1>9
<1>11. Unarmed \in [armed : {-1, 0, 1}, pulling : BOOLEAN, progress : Int] /\ ~Unarmed.pulling
  BY DEF Unarmed
<1>12. boundary' \in [armed : {-1, 0, 1}, pulling : BOOLEAN, progress : Int]
  BY <1>3, <1>4, <1>11
<1>13. boundary'.pulling => /\ u.turn = 0 /\ (fresh \/ boundary.pulling)
                            /\ (upright /\ edge # 0) \/ (~upright /\ boundary.pulling)
  <2> SUFFICES ASSUME boundary'.pulling
               PROVE  /\ u.turn = 0 /\ (fresh \/ boundary.pulling)
                      /\ (upright /\ edge # 0) \/ (~upright /\ boundary.pulling)
    OBVIOUS
  <2>1. boundary' = u.next
    BY <1>4, <1>11
  <2>2. u.next.pulling /\ u.turn = 0
    BY <1>3, <2>1
  <2>3. CASE upright
    BY <1>3, <2>2, <2>3
  <2>4. CASE ~upright
    BY <1>3, <2>2, <2>4
  <2> QED BY <2>2, <2>3, <2>4
<1>14. turned' # 0 => u.turn # 0 /\ upright /\ edge # 0 /\ (fresh \/ boundary.pulling)
  BY <1>3, <1>4
<1>15. boundary'.pulling => burst'.turns = 0 /\ (~rich => ~burst'.scrolled)
  BY <1>6, <1>7, <1>10, <1>13
<1>16. turned' # 0 => burst'.turns = 1 /\ (~rich => ~burst'.scrolled)
  BY <1>6, <1>7, <1>10, <1>14
<1> QED  BY <1>0, <1>4, <1>6, <1>10, <1>12, <1>15, <1>16 DEF GesturesInv, TurnIsDeliberate

\* Every other step keeps what the events of the gesture did, ends a turn, and
\* leaves a pull alone or ends it.
LEMMA QuietStep ==
  ASSUME GesturesInv, rich' = rich, burst' = burst, turned' = 0,
         samples' \in {samples, 0}, fling' \in {fling, samples, 0},
         \/ boundary' = boundary
         \/ boundary' = Unarmed
         \/ boundary' = StopPull(boundary)
         \/ \E edge \in {-1, 0, 1} : boundary' = [Unarmed EXCEPT !.armed = edge]
  PROVE  GesturesInv'
<1> DEFINE B == [armed : {-1, 0, 1}, pulling : BOOLEAN, progress : Int]
<1>1. boundary \in B
  BY DEF GesturesInv
<1>2. boundary' \in B /\ (boundary'.pulling => boundary.pulling)
  <2>1. CASE boundary' = boundary
    BY <1>1, <2>1
  <2>2. CASE boundary' = Unarmed
    BY <2>2 DEF Unarmed
  <2>3. CASE boundary' = StopPull(boundary)
    BY <1>1, <2>3, PullStops
  <2>4. ASSUME NEW edge \in {-1, 0, 1}, boundary' = [Unarmed EXCEPT !.armed = edge]
        PROVE  boundary' \in B /\ ~boundary'.pulling
    <3>1. boundary' = [armed |-> edge, pulling |-> FALSE, progress |-> 0]
      BY <2>4 DEF Unarmed
    <3> QED  BY <3>1
  <2> QED  BY <2>1, <2>2, <2>3, <2>4
<1> QED  BY <1>2 DEF GesturesInv, TurnIsDeliberate

LEMMA GesturesStep ==
  ASSUME GesturesInv, [GesturesNext]_gestureVars
  PROVE  GesturesInv'
<1>1. ASSUME NEW d \in Deltas \cup {0}, NEW precise \in BOOLEAN, NEW started \in BOOLEAN,
             NEW upright \in BOOLEAN, Wheel(d, precise, started, upright)
      PROVE  GesturesInv'
  BY <1>1, WheelStep
<1>2. CASE Paint
  BY <1>2, QuietStep DEF Paint
<1>3. CASE FingerLifted
  BY <1>3, QuietStep DEF FingerLifted
<1>4. CASE Pause
  BY <1>4, QuietStep DEF Pause
<1>5. CASE TogglePanel
  BY <1>5, QuietStep DEF TogglePanel
<1>6. ASSUME NEW stops \in BOOLEAN, CoastTick(stops)
      PROVE  GesturesInv'
  <2>1. /\ rich' = rich /\ burst' = burst /\ turned' = 0
        /\ samples' \in {samples, 0} /\ fling' \in {fling, 0}
        /\ \/ boundary' = boundary
           \/ /\ fling # 0 /\ EdgeAt(place, fileAt, fling) # 0
              /\ boundary' = [Unarmed EXCEPT !.armed = EdgeAt(place, fileAt, fling)]
    BY <1>6 DEF CoastTick
  <2>2. EdgeAt(place, fileAt, fling) \in {-1, 0, 1}
    BY DEF EdgeAt, GesturesInv
  <2> QED  BY <2>1, <2>2, QuietStep
<1>7. ASSUME NEW f \in DOMAIN Rooms, StepFile(f)
      PROVE  GesturesInv'
  BY <1>7, QuietStep DEF StepFile, SelectFile
<1>8. ASSUME NEW direction \in {-1, 1}, PageKey(direction)
      PROVE  GesturesInv'
  BY <1>8, QuietStep DEF PageKey
<1>9. CASE UNCHANGED gestureVars
  BY <1>9 DEF gestureVars, GesturesInv, TurnIsDeliberate
<1> QED  BY <1>1, <1>2, <1>3, <1>4, <1>5, <1>6, <1>7, <1>8, <1>9 DEF GesturesNext

\* One gesture turns one file, and in the source view only one that did not itself
\* bring the view to its edge, for any files, deltas and threshold and any order of
\* events, frames, the lift timer and the coast, but for mostly sideways events in
\* the middle of a pull (wheel, finger_lifted, coast_tick).
THEOREM TurnsAreDeliberate == GesturesSpec => []TurnIsDeliberate
<1>1. GesturesInit => GesturesInv
  BY DEF GesturesInit, GesturesInv, TurnIsDeliberate, Unarmed, NoBurst
<1>2. GesturesInv => TurnIsDeliberate
  BY DEF GesturesInv
<1> QED  BY <1>1, <1>2, GesturesStep, PTL DEF GesturesSpec

-----------------------------------------------------------------------------
(* Composer.                                                               *)

\* comment_menu_count is a number.
LEMMA CountType ==
  ASSUME ComposerInv
  PROVE  Count \in Int
<1>1. IsFiniteSet(MatchingCommands)
  <2>1. MatchingCommands \subseteq {"Table", "Language", "Replies", "QuoteSource"}
    BY DEF MatchingCommands
  <2>2. IsFiniteSet({"Table", "Language", "Replies", "QuoteSource"})
    <3>1. IsFiniteSet({"Table"})
      BY FS_Singleton
    <3>2. IsFiniteSet({"Table"} \cup {"Language"})
      BY <3>1, FS_AddElement
    <3>3. IsFiniteSet(({"Table"} \cup {"Language"}) \cup {"Replies"})
      BY <3>2, FS_AddElement
    <3>4. IsFiniteSet((({"Table"} \cup {"Language"}) \cup {"Replies"}) \cup {"QuoteSource"})
      BY <3>3, FS_AddElement
    <3>5. {"Table", "Language", "Replies", "QuoteSource"}
            = (({"Table"} \cup {"Language"}) \cup {"Replies"}) \cup {"QuoteSource"}
      OBVIOUS
    <3> QED  BY <3>4, <3>5
  <2> QED  BY <2>1, <2>2, FS_Subset
<1>2. Cardinality(MatchingCommands) \in Nat
  BY <1>1, FS_CardinalityType
<1> QED  BY <1>2, ComposerBounds DEF Count, ComposerInv

\* A menu that is closed, opened anew, or highlighted at its first entry has an
\* entry there, and so has a list that shows the reply just saved.
LEMMA FreshMenu ==
  ASSUME replies' \in Nat, index' \in Int,
         slash' \in {"none", "Commands", "Table", "Language", "Replies"},
         \/ slash' \in {"none", "Table"}
         \/ index' = 0
         \/ slash' = "Replies" /\ index' \in 0 .. replies'
         \/ panel' # "Line"
  PROVE  ComposerInv'
<1>1. slash' = "Replies" => Count' = replies' + 1
  BY DEF Count
<1>2. HighlightedEntryExists'
  BY <1>1 DEF HighlightedEntryExists
<1> QED  BY <1>2 DEF ComposerInv

\* A step that leaves the menu and what it lists alone.
LEMMA SameMenu ==
  ASSUME ComposerInv, UNCHANGED <<slash, range, index, replies>>,
         panel' = "Line" => panel = "Line" /\ quotable' = quotable
  PROVE  ComposerInv'
<1>1. panel' = "Line" => Count' = Count
  BY DEF Count, MatchingCommands
<1> QED  BY <1>1 DEF ComposerInv, HighlightedEntryExists

\* edit_comment closes the menu, or opens it for the word before the caret.
LEMMA EditedMenu ==
  ASSUME ComposerInv, NEW word \in Words \cup {"none"}, EditComment(word), replies' = replies
  PROVE  ComposerInv'
<1>1. index' = 0 /\ slash' \in {"none", "Commands"}
  BY DEF EditComment, SyncSlash
<1> QED  BY <1>1, FreshMenu DEF ComposerInv

LEMMA InsertedMenu ==
  ASSUME ComposerInv, NEW reply \in BOOLEAN, Insert(reply)
  PROVE  ComposerInv'
<1>1. PICK word \in Words \cup {"none"} : EditComment(word)
  BY DEF Insert
<1> QED  BY <1>1, EditedMenu DEF Insert

LEMMA ChosenMenu ==
  ASSUME ComposerInv, NEW c \in MatchingCommands, ChooseSlashCommand(c)
  PROVE  ComposerInv'
<1>1. c \in {"Table", "Language", "Replies", "QuoteSource"}
  BY DEF MatchingCommands
<1>2. CASE c = "QuoteSource"
  BY <1>2, InsertedMenu DEF ChooseSlashCommand
<1>3. CASE c # "QuoteSource"
  BY <1>1, <1>3, FreshMenu DEF ChooseSlashCommand, ComposerInv
<1> QED  BY <1>2, <1>3

LEMMA SavedReplyMenu ==
  ASSUME ComposerInv, SaveCommentReply, UNCHANGED lineVars
  PROVE  ComposerInv'
<1>1. CASE UNCHANGED <<menuVars, focus, replies>>
  BY <1>1, SameMenu DEF menuVars, lineVars
<1>2. CASE ~UNCHANGED <<menuVars, focus, replies>>
  <2>1. /\ slash' = "Replies"
        /\ \/ /\ replies' = IF replies = MaxReplies THEN replies ELSE replies + 1
              /\ index' = replies'
           \/ replies > 0 /\ index' \in 1 .. replies /\ replies' = replies
    BY <1>2 DEF SaveCommentReply
  <2>2. replies' \in Nat /\ index' \in 0 .. replies'
    BY <2>1 DEF ComposerInv
  <2> QED  BY <2>1, <2>2, FreshMenu
<1> QED  BY <1>1, <1>2

LEMMA ComposerStep ==
  ASSUME ComposerInv, [ComposerNext]_composerVars
  PROVE  ComposerInv'
<1> USE DEF lineVars, menuVars
<1>1. CASE TypeText
  <2>1. PICK word \in Words \cup {"none"} : word # range /\ SyncSlash(slash, range, index, word)
    BY <1>1 DEF TypeText
  <2>2. \/ slash' = "Commands" /\ index' = 0
        \/ slash' = "none" /\ index' = index
    BY <2>1 DEF SyncSlash
  <2> QED  BY <1>1, <2>2, FreshMenu DEF TypeText, ComposerInv
<1>2. CASE FormatComment
  BY <1>2, EditedMenu DEF FormatComment
<1>3. CASE SlashButton
  BY <1>3, FreshMenu DEF SlashButton, ComposerInv
<1>4. CASE PreviewButton
  BY <1>4, FreshMenu DEF PreviewButton, ComposerInv
<1>5. CASE ClickEntry
  BY <1>5, ChosenMenu, InsertedMenu, SavedReplyMenu DEF ClickEntry
<1>6. CASE HoverEntry
  <2>1. /\ UNCHANGED <<panel, quotable, slash, range, replies>>
        /\ index' \in 0 .. Count - 1
    BY <1>6 DEF HoverEntry
  <2>2. Count' = Count /\ Count \in Int
    BY <2>1, CountType DEF Count, MatchingCommands
  <2> QED  BY <2>1, <2>2 DEF ComposerInv, HighlightedEntryExists
<1>7. CASE BackButton
  BY <1>7, FreshMenu DEF BackButton, ComposerInv
<1>8. CASE RemoveReply
  <2>1. replies' \in Nat /\ index' = 0 /\ slash' = slash
    BY <1>8 DEF RemoveReply, ComposerInv
  <2> QED  BY <2>1, FreshMenu DEF ComposerInv
<1>9. CASE TypeNumber
  BY <1>9, SameMenu DEF TypeNumber
<1>10. CASE ActivateCommentMenu
  <2>1. CASE UNCHANGED <<menuVars, focus, replies>>
    BY <1>10, <2>1, SameMenu DEF ActivateCommentMenu
  <2> QED  BY <1>10, <2>1, ChosenMenu, InsertedMenu, SavedReplyMenu DEF ActivateCommentMenu
<1>11. CASE Arrow
  <2>1. UNCHANGED <<panel, quotable, slash, range, replies>>
    BY <1>11 DEF Arrow
  <2>2. CASE slash = "Table"
    BY <1>11, <2>1, <2>2, FreshMenu DEF Arrow, ComposerInv
  <2>3. CASE slash # "Table"
    <3>1. Count' = Count /\ Count \in Int /\ Count > 0
      BY <1>11, <2>1, <2>3, CountType DEF Arrow, MenuTakesArrow, Count, MatchingCommands
    <3>2. index' \in {(index + 1) % Count, (index - 1) % Count} /\ index \in Int
      BY <1>11, <2>3 DEF Arrow, ComposerInv
    <3>3. index' \in Int /\ index' < Count
      BY <3>1, <3>2
    <3> QED  BY <2>1, <3>1, <3>3 DEF ComposerInv, HighlightedEntryExists
  <2> QED  BY <2>2, <2>3
<1>12. CASE Cancel
  BY <1>12, SameMenu DEF Cancel, ClosePanel
<1>13. CASE Escape
  <2>1. CASE panel = "Line" /\ slash # "none"
    BY <1>13, <2>1, FreshMenu DEF Escape, ComposerInv
  <2>2. CASE ~(panel = "Line" /\ slash # "none")
    BY <1>13, <2>2, SameMenu DEF Escape, ClosePanel
  <2> QED  BY <2>1, <2>2
<1>14. CASE OpenDraftPanel
  BY <1>14, FreshMenu DEF OpenDraftPanel, Reset, ComposerInv
<1>15. CASE ShowThread
  BY <1>15, FreshMenu DEF ShowThread, Reset, ComposerInv
<1>16. CASE OpenPanel
  BY <1>16, SameMenu DEF OpenPanel
<1>17. CASE Find
  BY <1>17, SameMenu DEF Find
<1>18. CASE RunCommand
  BY <1>18, SameMenu DEF RunCommand
<1>19. CASE Publication
  BY <1>19, SameMenu DEF Publication
<1>20. CASE UNCHANGED composerVars
  BY <1>20, SameMenu DEF composerVars
<1> QED  BY <1>1, <1>2, <1>3, <1>4, <1>5, <1>6, <1>7, <1>8, <1>9, <1>10, <1>11, <1>12, <1>13,
            <1>14, <1>15, <1>16, <1>17, <1>18, <1>19, <1>20 DEF ComposerNext

\* The entry Enter acts on is an entry of the list that is shown, for any number of
\* saved replies and languages and any order of typing, clicks, arrows, panels and
\* publications (activate_comment_menu, move_comment_menu).
THEOREM TheHighlightedEntryExists == ComposerSpec => []HighlightedEntryExists
<1>1. ComposerInit => ComposerInv
  BY ComposerBounds DEF ComposerInit, ComposerInv, HighlightedEntryExists
<1>2. ComposerInv => HighlightedEntryExists
  BY DEF ComposerInv
<1> QED  BY <1>1, <1>2, ComposerStep, PTL DEF ComposerSpec

-----------------------------------------------------------------------------
(* Themes.                                                                 *)

\* newest_mtime: a number of the clock that no file it asked is newer than.
LEMMA NewestBounds ==
  ASSUME ThemesInv, NEW files \in SUBSET ThemeFiles
  PROVE  /\ Newest(files) \in 0 .. edits
         /\ \A f \in files : disk[f].state = "gone" \/ disk[f].edit <= Newest(files)
<1> DEFINE S == {0} \cup {disk[f].edit : f \in {g \in files : disk[g].state # "gone"}}
<1>1. edits \in Nat /\ \A f \in ThemeFiles : disk[f].edit \in 0 .. edits
  BY DEF ThemesInv
<1>2. S \subseteq {0, disk["theme"].edit, disk["palette"].edit} /\ 0 \in S
  BY DEF ThemeFiles
<1>3. S \subseteq 0 .. edits
  <2>1. 0 \in 0 .. edits /\ disk["theme"].edit \in 0 .. edits /\ disk["palette"].edit \in 0 .. edits
    BY <1>1 DEF ThemeFiles
  <2> HIDE DEF S
  <2> QED  BY <1>2, <2>1, Zenon
<1>4. \A f \in files : disk[f].state = "gone" \/ disk[f].edit \in S
  OBVIOUS
<1>5. Newest(files) = CHOOSE x \in S : \A y \in S : x >= y
  BY DEF Newest, Max
<1> HIDE DEF S
<1>6. \E x \in S : \A y \in S : x >= y
  <2> DEFINE a == disk["theme"].edit
             b == disk["palette"].edit
  <2>1. a \in Int /\ b \in Int /\ a >= 0 /\ b >= 0
    BY <1>1 DEF ThemeFiles
  <2>2. S \subseteq {0, a, b} /\ 0 \in S
    BY <1>2
  <2> HIDE DEF a, b
  <2>3. CASE a \in S /\ (b \in S => a >= b)
    BY <2>1, <2>2, <2>3
  <2>4. CASE b \in S /\ (a \in S => b >= a)
    BY <2>1, <2>2, <2>4
  <2>5. CASE a \notin S /\ b \notin S
    BY <2>1, <2>2, <2>5
  <2> QED  BY <2>1, <2>3, <2>4, <2>5
<1>7. Newest(files) \in S /\ \A y \in S : Newest(files) >= y
  BY <1>5, <1>6
<1> QED  BY <1>1, <1>3, <1>4, <1>7

\* When no load reads and the newest file is theme_mtime, no edit is newer.
LEMMA EditsAreSeen ==
  ASSUME ThemesInv
  PROVE  EditsAreNoticed
<1>1. SUFFICES ASSUME theme # BuiltIn
               PROVE  /\ watching
                      /\ load.at = "idle" /\ Newest(theme.files) = themeMtime
                           => \A f \in theme.files :
                                \/ disk[f].edit <= tried[f]
                                \/ disk[f].state = "gone" \/ disk[f].raced
  BY DEF EditsAreNoticed
<1>2. watching
  BY <1>1 DEF ThemesInv
<1>3. ASSUME load.at = "idle", Newest(theme.files) = themeMtime, NEW f \in theme.files
      PROVE  disk[f].edit <= tried[f] \/ disk[f].state = "gone" \/ disk[f].raced
  <2>1. theme.files \in SUBSET ThemeFiles /\ f \in ThemeFiles
    BY DEF ThemesInv, ThemeType
  <2>2. disk[f].state = "gone" \/ disk[f].edit <= themeMtime
    BY <1>3, <2>1, NewestBounds
  <2>3. disk[f].edit \in Int /\ themeMtime \in Int
    BY <2>1 DEF ThemesInv
  <2>4. \/ disk[f].edit <= tried[f] \/ disk[f].edit > themeMtime
        \/ disk[f].state = "gone" \/ disk[f].raced
    BY <1>3 DEF ThemesInv
  <2> QED  BY <2>2, <2>3, <2>4
<1> QED  BY <1>2, <1>3

LEMMA EditFileStep ==
  ASSUME ThemesInv, EditFile
  PROVE  ThemesInv'
<1>1. PICK f \in ThemeFiles, state \in {"good", "bad", "gone"} :
        disk' = [disk EXCEPT ![f] = [edit |-> edits + 1, state |-> state,
                                     raced |-> load.at # "idle"]]
  BY DEF EditFile
<1>2. edits' = edits + 1 /\ UNCHANGED <<theme, path, themeMtime, chosen, watching, load, tried>>
  BY DEF EditFile
<1> DEFINE e == [edit |-> edits + 1, state |-> state, raced |-> load.at # "idle"]
<1>3. edits' \in Nat /\ themeMtime' \in 0 .. edits' /\ edits + 1 > themeMtime
      /\ 0 .. edits \subseteq 0 .. edits'
  BY <1>2 DEF ThemesInv
<1>4. e \in [edit : 0 .. edits', state : {"good", "bad", "gone"}, raced : BOOLEAN]
  BY <1>2, <1>3
<1>5. e.edit = edits + 1 /\ e.raced = (load.at # "idle")
  OBVIOUS
<1> HIDE DEF e
<1>6. /\ disk'[f] = e
      /\ \A g \in ThemeFiles \ {f} : disk'[g] = disk[g]
  BY <1>1 DEF ThemesInv, e
<1>7. disk' \in [ThemeFiles -> [edit : 0 .. edits', state : {"good", "bad", "gone"}, raced : BOOLEAN]]
  BY <1>1, <1>3, <1>4 DEF ThemesInv, e
<1>8. load.at # "idle" => \A g \in ThemeFiles : disk'[g].edit <= tried[g] \/ disk'[g].raced
  BY <1>5, <1>6 DEF ThemesInv
<1>9. load.at = "idle" => \A g \in theme.files :
        \/ disk'[g].edit <= tried[g] \/ disk'[g].edit > themeMtime
        \/ disk'[g].state = "gone" \/ disk'[g].raced
  <2>1. theme.files \subseteq ThemeFiles
    BY DEF ThemesInv, ThemeType
  <2> QED  BY <1>3, <1>5, <1>6, <2>1 DEF ThemesInv
<1> QED  BY <1>2, <1>3, <1>7, <1>8, <1>9 DEF ThemesInv

\* Every load begins with all edits made so far before it.
LEMMA LoadBegins ==
  ASSUME ThemesInv, NEW file \in ThemeFiles, NEW apply \in BOOLEAN,
         load.at = "idle", load' = Loading(file, apply), tried' = [f \in ThemeFiles |-> edits],
         apply \/ watching, UNCHANGED <<disk, edits, theme, path, watching>>,
         themeMtime' \in 0 .. edits
  PROVE  ThemesInv'
<1>1. BuiltIn \in ThemeType
  BY DEF BuiltIn, ThemeType
<1>2. load' = [at |-> file, from |-> file, apply |-> apply, theme |-> BuiltIn]
  BY DEF Loading
<1>3. /\ load' \in [at : {"idle", "theme", "palette", "mtime"}, from : ThemeFiles \cup {"none"},
                    apply : BOOLEAN, theme : ThemeType]
      /\ load'.at = file /\ load'.apply = apply /\ load'.from # "none" /\ load'.at # "idle"
  BY <1>1, <1>2 DEF ThemeFiles
<1>4. edits \in Nat /\ \A f \in ThemeFiles : disk[f].edit \in 0 .. edits
  BY DEF ThemesInv
<1>5. tried' \in [ThemeFiles -> Nat] /\ \A f \in ThemeFiles : disk[f].edit <= tried'[f]
  BY <1>4
<1> QED  BY <1>3, <1>5 DEF ThemesInv

\* A load that ends leaves no edit behind: what was edited meanwhile is marked.
LEMMA LoadEnds ==
  ASSUME ThemesInv, load.at # "idle", load' = Idle, UNCHANGED <<disk, edits>>,
         tried' \in [ThemeFiles -> Nat], \A f \in ThemeFiles : tried'[f] \in {tried[f], edits},
         theme' \in ThemeType, themeMtime' \in 0 .. edits, path' \in ThemeFiles \cup {"none"},
         watching' \in BOOLEAN, theme' # BuiltIn => watching' /\ path' # "none"
  PROVE  ThemesInv'
<1>1. load' = [at |-> "idle", from |-> "none", apply |-> FALSE, theme |-> BuiltIn]
  BY DEF Idle
<1>2. BuiltIn \in ThemeType
  BY DEF BuiltIn, ThemeType
<1>3. /\ load' \in [at : {"idle", "theme", "palette", "mtime"}, from : ThemeFiles \cup {"none"},
                    apply : BOOLEAN, theme : ThemeType]
      /\ load'.at = "idle"
  BY <1>1, <1>2
<1>4. \A f \in ThemeFiles : disk[f].edit <= tried'[f] \/ disk[f].raced
  <2>1. \A f \in ThemeFiles : disk[f].edit \in 0 .. edits
    BY DEF ThemesInv
  <2> QED  BY <2>1 DEF ThemesInv
<1>5. theme'.files \subseteq ThemeFiles
  BY DEF ThemeType
<1> QED  BY <1>3, <1>4, <1>5 DEF ThemesInv

\* A load that has read a file goes on with the next, or to newest_mtime.
LEMMA LoadGoesOn ==
  ASSUME ThemesInv, NEW file \in ThemeFiles, load.at = file, NEW at \in {"palette", "mtime"},
         NEW files \in SUBSET ThemeFiles,
         load' = [load EXCEPT !.at = at, !.theme.files = files, !.theme.read[file] = disk[file].edit],
         tried' = [tried EXCEPT ![file] = edits],
         UNCHANGED <<disk, edits, theme, path, themeMtime, watching>>
  PROVE  ThemesInv'
<1>1. disk[file].edit \in Nat /\ edits \in Nat /\ \A f \in ThemeFiles : disk[f].edit \in 0 .. edits
  BY DEF ThemesInv
<1> DEFINE t == [load.theme EXCEPT !.files = files, !.read[file] = disk[file].edit]
<1>2. t \in ThemeType
  BY <1>1 DEF ThemesInv, ThemeType
<1>3. load' = [load EXCEPT !.at = at, !.theme = t]
  BY DEF ThemesInv, ThemeType
<1> HIDE DEF t
<1>4. /\ load' \in [at : {"idle", "theme", "palette", "mtime"}, from : ThemeFiles \cup {"none"},
                    apply : BOOLEAN, theme : ThemeType]
      /\ load'.at # "idle" /\ load'.apply = load.apply /\ load'.from = load.from
  BY <1>2, <1>3 DEF ThemesInv
<1>5. load.at # "idle"
  BY DEF ThemeFiles
<1>6. tried' \in [ThemeFiles -> Nat]
  BY <1>1 DEF ThemesInv
<1>7. \A f \in ThemeFiles : disk[f].edit <= tried'[f] \/ disk[f].raced
  BY <1>1, <1>5 DEF ThemesInv
<1> QED  BY <1>4, <1>5, <1>6, <1>7 DEF ThemesInv

LEMMA ThemesStep ==
  ASSUME ThemesInv, [ThemesNext]_themeVars
  PROVE  ThemesInv'
<1>1. CASE ApplyTheme
  <2>1. PICK f \in Resolve : load' = Loading(f, TRUE)
    BY <1>1 DEF ApplyTheme
  <2>2. f \in ThemeFiles /\ themeMtime' \in 0 .. edits
    BY <1>1 DEF Resolve, ApplyTheme, ThemesInv
  <2> QED  BY <1>1, <2>1, <2>2, LoadBegins DEF ApplyTheme
<1>2. ASSUME NEW file \in ThemeFiles, load.at = file, LoadFails, UNCHANGED <<disk, edits>>,
             tried' = [tried EXCEPT ![file] = edits]
      PROVE  ThemesInv'
  <2>1. tried' \in [ThemeFiles -> Nat] /\ \A f \in ThemeFiles : tried'[f] \in {tried[f], edits}
    BY <1>2 DEF ThemesInv
  <2>2. /\ load.at # "idle" /\ load' = Idle
        /\ UNCHANGED <<theme, path, themeMtime, watching>>
    BY <1>2 DEF LoadFails, ThemeFiles
  <2> QED  BY <1>2, <2>1, <2>2, LoadEnds DEF ThemesInv
<1>3. CASE ReadTheme
  <2>1. "theme" \in ThemeFiles /\ {"theme"} \in SUBSET ThemeFiles
    BY DEF ThemeFiles
  <2>2. CASE disk["theme"].state = "good"
    <3>1. PICK at \in {"palette", "mtime"} :
            load' = [load EXCEPT !.at = at, !.theme.files = {"theme"},
                                 !.theme.read["theme"] = disk["theme"].edit]
      BY <1>3, <2>2 DEF ReadTheme
    <3> QED  BY <1>3, <2>1, <2>2, <3>1, LoadGoesOn DEF ReadTheme
  <2>3. CASE disk["theme"].state # "good"
    BY <1>2, <1>3, <2>1, <2>3 DEF ReadTheme
  <2> QED  BY <2>2, <2>3
<1>4. CASE ReadPalette
  <2>1. "palette" \in ThemeFiles /\ load.theme.files \cup {"palette"} \in SUBSET ThemeFiles
    BY DEF ThemeFiles, ThemesInv, ThemeType
  <2>2. CASE disk["palette"].state = "good"
    <3>1. load' = [load EXCEPT !.at = "mtime", !.theme.files = load.theme.files \cup {"palette"},
                               !.theme.read["palette"] = disk["palette"].edit]
      BY <1>4, <2>2 DEF ReadPalette
    <3> QED  BY <1>4, <2>1, <2>2, <3>1, LoadGoesOn DEF ReadPalette
  <2>3. CASE disk["palette"].state # "good"
    BY <1>2, <1>4, <2>1, <2>3 DEF ReadPalette
  <2> QED  BY <2>2, <2>3
<1>5. CASE InstallTheme
  <2>1. /\ load.at # "idle" /\ load' = Idle /\ UNCHANGED <<disk, edits, tried>>
        /\ theme' = load.theme /\ path' = load.from
        /\ themeMtime' = Newest(load.theme.files) /\ watching' = (watching \/ load.apply)
    BY <1>5 DEF InstallTheme
  <2>2. /\ load.theme \in ThemeType /\ load.theme.files \in SUBSET ThemeFiles
        /\ load.from \in ThemeFiles /\ watching' = TRUE
    BY <2>1 DEF ThemesInv, ThemeType
  <2>3. Newest(load.theme.files) \in 0 .. edits
    BY <2>2, NewestBounds
  <2>4. tried' \in [ThemeFiles -> Nat] /\ path' # "none"
    BY <2>1, <2>2 DEF ThemesInv, ThemeFiles
  <2> QED  BY <2>1, <2>2, <2>3, <2>4, LoadEnds
<1>6. CASE RemoveTheme
  <2>1. /\ load.at = "idle" /\ theme' = BuiltIn /\ path' = "none" /\ themeMtime' = 0
        /\ UNCHANGED <<disk, edits, watching, load, tried>>
    BY <1>6 DEF RemoveTheme
  <2>2. BuiltIn \in ThemeType /\ BuiltIn.files = {}
    BY DEF BuiltIn, ThemeType
  <2>3. themeMtime' \in 0 .. edits
    BY <2>1 DEF ThemesInv
  <2> QED  BY <2>1, <2>2, <2>3 DEF ThemesInv
<1>7. CASE WatchTick
  <2>1. CASE theme = BuiltIn
    BY <1>7, <2>1 DEF WatchTick, ThemesInv
  <2>2. CASE theme # BuiltIn
    <3>1. path \in ThemeFiles /\ watching /\ theme.files \in SUBSET ThemeFiles
      BY <2>2 DEF ThemesInv, ThemeType
    <3>2. themeMtime' \in 0 .. edits
      BY <1>7, <2>2, <3>1, NewestBounds DEF WatchTick
    <3> QED  BY <1>7, <2>2, <3>1, <3>2, LoadBegins DEF WatchTick
  <2> QED  BY <2>1, <2>2
<1>8. CASE UNCHANGED themeVars
  BY <1>8 DEF themeVars, ThemesInv
<1> QED  BY <1>1, <1>3, <1>4, <1>5, <1>6, <1>7, <1>8, EditFileStep DEF ThemesNext

\* A theme on the screen is watched, and each edit of its files is loaded or will be
\* noticed, but for one made between a read and newest_mtime, after any number of
\* edits, choices, failed loads and turns of the watch (start_theme_watch,
\* reload_theme, install_theme).
THEOREM EditsAreAlwaysNoticed == ThemesSpec => []EditsAreNoticed
<1>1. ThemesInit => ThemesInv
  <2> SUFFICES ASSUME ThemesInit
               PROVE  ThemesInv
    OBVIOUS
  <2>1. BuiltIn \in ThemeType /\ BuiltIn.files = {}
    BY DEF BuiltIn, ThemeType
  <2>2. /\ Idle \in [at : {"idle", "theme", "palette", "mtime"}, from : ThemeFiles \cup {"none"},
                     apply : BOOLEAN, theme : ThemeType]
        /\ Idle.at = "idle"
    BY <2>1 DEF Idle
  <2>3. /\ edits \in Nat /\ themeMtime \in 0 .. edits /\ tried \in [ThemeFiles -> Nat]
        /\ 0 \in 0 .. edits
    BY DEF ThemesInit
  <2>4. disk \in [ThemeFiles -> [edit : 0 .. edits, state : {"good", "bad", "gone"}, raced : BOOLEAN]]
    BY <2>3 DEF ThemesInit
  <2> QED  BY <2>1, <2>2, <2>3, <2>4 DEF ThemesInit, ThemesInv
<1>2. ThemesInv => EditsAreNoticed
  BY EditsAreSeen
<1> QED  BY <1>1, <1>2, ThemesStep, PTL DEF ThemesSpec

-----------------------------------------------------------------------------
(* Anchors.                                                                *)

\* The rows of the patch that carry a line of one side, up to a row.
CarriedTo(i, side) == {j \in 1 .. i : Carries(j, side)}

LEMMA RowsAreNumbers ==
  ASSUME AnchorsInv
  PROVE  Len(patched.rows) \in Nat /\ Rows = 1 .. Len(patched.rows) /\ patched.cut \in Nat
  BY DEF AnchorsInv, Rows

LEMMA CarriedCount ==
  ASSUME AnchorsInv, NEW i \in Rows, NEW side \in Sides
  PROVE  /\ i \in Nat \ {0}
         /\ IsFiniteSet(CarriedTo(i, side))
         /\ Cardinality(CarriedTo(i, side)) \in Nat
<1>1. i \in Nat \ {0}
  BY RowsAreNumbers
<1>2. IsFiniteSet(1 .. i)
  BY <1>1, FS_Interval
<1>3. CarriedTo(i, side) \subseteq 1 .. i
  BY DEF CarriedTo
<1>4. IsFiniteSet(CarriedTo(i, side))
  BY <1>2, <1>3, FS_Subset
<1> QED
  BY <1>1, <1>4, FS_CardinalityType

\* A row has a number on the sides it carries, and on no other.
LEMMA NumberType ==
  ASSUME AnchorsInv, NEW i \in Rows, NEW side \in Sides
  PROVE  /\ NumberOn(i, side) \in Nat
         /\ Carries(i, side) <=> NumberOn(i, side) > 0
<1>1. CASE ~Carries(i, side)
  BY <1>1 DEF NumberOn
<1>2. CASE Carries(i, side)
  <2>1. i \in CarriedTo(i, side)
    <3>1. i \in 1 .. i
      BY CarriedCount
    <3> QED
      BY <1>2, <3>1 DEF CarriedTo
  <2>2. Cardinality(CarriedTo(i, side)) # 0
    BY <2>1, CarriedCount, FS_EmptySet
  <2>3. NumberOn(i, side) = Cardinality(CarriedTo(i, side)) + (IF i > patched.cut THEN 1 ELSE 0)
    BY <1>2 DEF NumberOn, CarriedTo
  <2>4. Cardinality(CarriedTo(i, side)) \in Nat
    BY CarriedCount
  <2> QED
    BY ONLY <1>2, <2>2, <2>3, <2>4
<1> QED
  BY <1>1, <1>2

\* The numbers of one side grow with the rows.
LEMMA NumbersGrow ==
  ASSUME AnchorsInv, NEW i \in Rows, NEW j \in Rows, NEW side \in Sides,
         i =< j, Carries(i, side), Carries(j, side)
  PROVE  NumberOn(i, side) =< NumberOn(j, side)
<1>1. i \in Nat /\ j \in Nat /\ patched.cut \in Nat
  BY CarriedCount, RowsAreNumbers
<1>2. CarriedTo(i, side) \subseteq CarriedTo(j, side)
  BY <1>1 DEF CarriedTo
<1>3. Cardinality(CarriedTo(i, side)) =< Cardinality(CarriedTo(j, side))
  BY <1>2, CarriedCount, FS_Subset
<1>4. /\ NumberOn(i, side) = Cardinality(CarriedTo(i, side)) + (IF i > patched.cut THEN 1 ELSE 0)
      /\ NumberOn(j, side) = Cardinality(CarriedTo(j, side)) + (IF j > patched.cut THEN 1 ELSE 0)
  BY DEF NumberOn, CarriedTo
<1>5. Cardinality(CarriedTo(i, side)) \in Nat /\ Cardinality(CarriedTo(j, side)) \in Nat
  BY CarriedCount
<1>6. i =< j
  OBVIOUS
<1> QED
  BY ONLY <1>1, <1>3, <1>4, <1>5, <1>6

\* FileChange::line finds the row of a number that the side has.
LEMMA RowOfLine ==
  ASSUME AnchorsInv, NEW side \in Sides, NEW n, HasLine(side, n)
  PROVE  /\ n \in Nat /\ n > 0
         /\ RowOf(side, n) \in Rows
         /\ NumberOn(RowOf(side, n), side) = n
         /\ Carries(RowOf(side, n), side)
<1>1. n > 0 /\ \E i \in Rows : NumberOn(i, side) = n
  BY DEF HasLine
<1>2. RowOf(side, n) \in Rows /\ NumberOn(RowOf(side, n), side) = n
  BY <1>1 DEF RowOf
<1> QED
  BY <1>1, <1>2, NumberType

\* A draft is on lines or on the whole file.
LEMMA DraftForms ==
  ASSUME NEW d \in Drafts
  PROVE  \/ /\ d.whole = TRUE
            /\ d = [side |-> "right", start |-> 0, line |-> 0, whole |-> TRUE]
         \/ /\ d.whole = FALSE
            /\ d.side \in Sides /\ d.start \in 1 .. MaxRows + 1 /\ d.line \in 1 .. MaxRows + 1
<1> DEFINE onFile == [side |-> "right", start |-> 0, line |-> 0, whole |-> TRUE]
           onLines == [side : Sides, start : 1 .. MaxRows + 1, line : 1 .. MaxRows + 1, whole : {FALSE}]
<1>1. CASE d = onFile
  BY <1>1
<1>2. CASE d \in onLines
  BY <1>2
<1>3. d \in onLines \cup {onFile}
  BY DEF Drafts
<1> HIDE DEF onFile, onLines
<1>4. d = onFile \/ d \in onLines
  BY <1>3
<1> QED
  BY <1>1, <1>2, <1>4

LEMMA LineDraft ==
  ASSUME NEW d \in Drafts, d.line # 0
  PROVE  ~d.whole
<1>1. d = [side |-> "right", start |-> 0, line |-> 0, whole |-> TRUE] => d.line = 0
  OBVIOUS
<1>2. d # [side |-> "right", start |-> 0, line |-> 0, whole |-> TRUE]
  BY <1>1, Zenon
<1>3. d.whole = FALSE
  BY <1>2, DraftForms, Zenon
<1> QED
  BY <1>3, Zenon

\* The place of a draft on lines: both ends of it are lines of its side.
LEMMA PostableLines ==
  ASSUME AnchorsInv, NEW d \in Drafts, Postable(d), ~d.whole
  PROVE  /\ d.side \in Sides /\ d.start \in Nat \ {0} /\ d.line \in Nat \ {0}
         /\ d.start =< d.line
         /\ HasLine(d.side, d.start) /\ HasLine(d.side, d.line)
<1>1. d.side \in Sides /\ d.start \in 1 .. MaxRows + 1 /\ d.line \in 1 .. MaxRows + 1
  BY DraftForms
<1>2. MaxRows \in Nat
  BY AnchorsAssumption DEF AnchorsAssumption
<1>3. d.start \in Nat \ {0} /\ d.line \in Nat \ {0} /\ d.side \in Sides
  BY ONLY <1>1, <1>2
<1>4. /\ d.start =< d.line
      /\ \E h \in HunkSpans : \A n \in d.start .. d.line : \E i \in h : NumberOn(i, d.side) = n
  BY DEF Postable, Eligible
<1>5. \A h \in HunkSpans : h \subseteq Rows
  BY RowsAreNumbers DEF HunkSpans, AnchorsInv
<1>6. d.start \in d.start .. d.line /\ d.line \in d.start .. d.line
  BY <1>3, <1>4
<1>7. HasLine(d.side, d.start) /\ HasLine(d.side, d.line)
  BY <1>3, <1>4, <1>5, <1>6 DEF HasLine
<1> QED
  BY <1>3, <1>4, <1>7

\* A comment is shown at its draft.
ShownAt(c, d) ==
  /\ RootsAt(Thread(c), d.side, d.line)
  /\ Location(Thread(c)) = IF d.whole THEN "file" ELSE "line"

\* A thread on a line of this file is in the list, and at that line.
LEMMA ShownOnItsLine ==
  ASSUME AnchorsInv, NEW c, NEW d \in Drafts, Postable(d), ~d.whole,
         NEW t, Thread(c) = t, t.path = NewPath, ~t.whole, t.side = d.side, t.line = d.line,
         Or(t.start, t.line) \in Nat, Or(t.start, t.line) =< t.line
  PROVE  ShownAt(c, d)
<1>1. /\ d.side \in Sides /\ d.line \in Nat /\ d.line > 0 /\ d.line # 0
      /\ HasLine(d.side, d.line)
  BY PostableLines
<1>2. d.line \in Or(t.start, t.line) .. t.line
  BY <1>1
<1>3. ThreadAt(t, d.side, d.line)
  BY <1>1, <1>2 DEF ThreadAt
<1>4. Location(t) = "line"
  BY <1>1 DEF Location
<1> QED
  BY <1>1, <1>3, <1>4 DEF ShownAt, RootsAt

LEMMA GithubShown ==
  ASSUME AnchorsInv, provider = "github", Postable(draft),
         NEW d \in Drafts, Postable(d), Matches(draft, GithubComment(d))
  PROVE  ShownAt(GithubComment(d), draft)
<1> DEFINE c == GithubComment(d)
<1>1. /\ c.path = NewPath /\ c.side = d.side /\ c.line = d.line /\ c.whole = d.whole
      /\ c.start = IF d.start < d.line THEN d.start ELSE 0
      /\ DOMAIN c = {"path", "side", "line", "start", "whole"}
      /\ c = [path |-> c.path, side |-> c.side, line |-> c.line, start |-> c.start, whole |-> c.whole]
  BY DEF GithubComment
<1> HIDE DEF c
<1>2. [path |-> NewPath, side |-> draft.side, start |-> draft.start, line |-> draft.line]
        \in GithubKeys(c)
  BY DEF Matches, Keys, c
<1>3. /\ ~c.whole /\ draft.side = c.side /\ draft.line = c.line
      /\ draft.start = Or(c.start, c.line)
  BY <1>2 DEF GithubKeys
<1>4. d.line \in Nat \ {0} /\ d.side \in Sides
  BY <1>1, <1>3, PostableLines
<1>5. ~draft.whole
  <2>1. draft \in Drafts
    BY DEF AnchorsInv
  <2>2. draft.line # 0
    BY <1>1, <1>3, <1>4
  <2> QED
    BY <2>1, <2>2, LineDraft
<1>6. draft \in Drafts /\ draft.start \in Nat /\ draft.start =< draft.line
  BY <1>5, PostableLines DEF AnchorsInv
<1>7. Thread(c) = c
  BY <1>1, <1>3 DEF Thread
<1>8. ShownAt(c, draft)
  BY <1>1, <1>3, <1>5, <1>6, <1>7, ShownOnItsLine
<1> QED
  BY <1>8 DEF c

\* The numbers that GitLab is given for a line of a draft.
PositionAt(d, n) ==
  IF d.whole THEN [old |-> 0, new |-> 0]
  ELSE [old |-> NumberOn(RowOf(d.side, n), "left"), new |-> NumberOn(RowOf(d.side, n), "right")]

LEMMA PositionFields ==
  ASSUME NEW d \in Drafts
  PROVE  /\ Position(d).oldPath = OldPath /\ Position(d).newPath = NewPath
         /\ Position(d).row = PositionAt(d, d.line) /\ Position(d).mark = d.side
         /\ Position(d).first = IF d.start # d.line THEN PositionAt(d, d.start)
                                ELSE [old |-> 0, new |-> 0]
         /\ Position(d).whole = d.whole
  BY DEF Position, PositionAt

LEMMA GitlabShown ==
  ASSUME AnchorsInv, provider = "gitlab", ~pushed, Postable(draft),
         NEW d \in Drafts, Postable(d), Matches(draft, Position(d))
  PROVE  ShownAt(Position(d), draft)
<1> DEFINE c == Position(d)
<1>1. /\ c.oldPath = OldPath /\ c.newPath = NewPath /\ c.mark = d.side /\ c.whole = d.whole
      /\ c.row = PositionAt(d, d.line)
      /\ c.first = IF d.start # d.line THEN PositionAt(d, d.start) ELSE [old |-> 0, new |-> 0]
  BY PositionFields
<1>2. GitlabKey(c) =
        [path |-> NewPath, side |-> draft.side, start |-> draft.start, line |-> draft.line]
  BY DEF Matches, Keys
<1> HIDE DEF c
<1>3. draft \in Drafts
  BY DEF AnchorsInv
<1>4. /\ Thread(c).path = IF c.whole \/ c.row.new > 0 THEN c.newPath ELSE c.oldPath
      /\ Thread(c).side = IF c.whole \/ c.row.new > 0 THEN "right" ELSE "left"
      /\ Thread(c).line = IF c.whole \/ c.row.new > 0 THEN c.row.new ELSE c.row.old
      /\ Thread(c).start = IF c.whole \/ c.row.new > 0 THEN c.first.new ELSE c.first.old
      /\ Thread(c).whole = c.whole
  BY DEF Thread
<1>5. CASE d.whole
  <2>1. draft.side = "right" /\ draft.line = 0 /\ draft.start = 0
    BY <1>1, <1>2, <1>5 DEF GitlabKey
  <2>2. draft.whole
    BY <1>3, <2>1, PostableLines
  <2>3. Location(Thread(c)) = "file"
    BY <1>1, <1>4, <1>5 DEF Location
  <2>4. ShownAt(c, draft)
    BY <2>1, <2>2, <2>3 DEF ShownAt, RootsAt
  <2> QED
    BY <2>4 DEF c
<1>6. CASE ~d.whole
  <2> DEFINE last == RowOf(d.side, d.line)
             from == RowOf(d.side, d.start)
  <2>1. /\ d.side \in Sides /\ d.start \in Nat /\ d.line \in Nat \ {0} /\ d.start =< d.line
        /\ HasLine(d.side, d.start) /\ HasLine(d.side, d.line)
    BY <1>6, PostableLines
  <2>2. /\ last \in Rows /\ NumberOn(last, d.side) = d.line /\ Carries(last, d.side)
        /\ from \in Rows /\ NumberOn(from, d.side) = d.start /\ Carries(from, d.side)
    BY <2>1, RowOfLine
  <2>3. /\ c.row = [old |-> NumberOn(last, "left"), new |-> NumberOn(last, "right")]
        /\ c.first = IF d.start # d.line
                       THEN [old |-> NumberOn(from, "left"), new |-> NumberOn(from, "right")]
                       ELSE [old |-> 0, new |-> 0]
    BY <1>1, <1>6 DEF PositionAt
  <2> HIDE DEF last, from
  <2>4. "left" \in Sides /\ "right" \in Sides
    BY DEF Sides
  <2>5. /\ c.row.old = NumberOn(last, "left") /\ c.row.new = NumberOn(last, "right")
        /\ c.row.old \in Nat /\ c.row.new \in Nat
        /\ c.row.new > 0 <=> Carries(last, "right")
    BY <2>2, <2>3, <2>4, NumberType
  <2>6. CASE d.side = "right"
    <3>1. /\ draft.side = "right" /\ draft.line = c.row.new
          /\ draft.start = Or(c.first.new, c.row.new)
      BY <1>1, <1>2, <1>6, <2>6 DEF GitlabKey
    <3>2. c.row.new = d.line /\ c.row.new > 0
      BY <2>1, <2>2, <2>5, <2>6
    <3>3. ~draft.whole
      <4>1. draft.line # 0
        BY <2>1, <3>1, <3>2
      <4> QED
        BY <1>3, <4>1, LineDraft
    <3>4. draft.start \in Nat /\ draft.start =< draft.line
      BY <1>3, <3>3, PostableLines
    <3>5. ShownAt(c, draft)
      BY <1>1, <1>3, <1>4, <1>6, <3>1, <3>2, <3>3, <3>4, ShownOnItsLine
    <3> QED
      BY <3>5 DEF c
  <2>7. CASE d.side = "left"
    <3>1. /\ draft.side = "left" /\ draft.line = c.row.old /\ c.oldPath = NewPath
          /\ draft.start = Or(c.first.old, c.row.old)
      BY <1>1, <1>2, <1>6, <2>7 DEF GitlabKey
    <3>2. c.row.old = d.line
      BY <2>2, <2>5, <2>7
    <3>3. ~draft.whole
      <4>1. draft.line # 0
        BY <2>1, <3>1, <3>2
      <4> QED
        BY <1>3, <4>1, LineDraft
    <3>4. draft.start \in Nat /\ draft.start =< draft.line /\ HasLine("left", draft.line)
      BY <1>3, <3>1, <3>3, PostableLines
    <3>5. CASE ~(c.row.new > 0)
      <4>1. ShownAt(c, draft)
        BY <1>1, <1>3, <1>4, <1>6, <3>1, <3>2, <3>3, <3>4, <3>5, ShownOnItsLine
      <4> QED
        BY <4>1 DEF c
    <3>6. CASE c.row.new > 0
      <4>1. /\ Thread(c).path = NewPath /\ Thread(c).side = "right" /\ ~Thread(c).whole
            /\ Thread(c).line = c.row.new /\ Thread(c).start = c.first.new
        BY <1>1, <1>4, <1>6, <3>6
      <4>2. HasLine("right", c.row.new)
        BY <2>2, <2>5, <3>6 DEF HasLine
      <4>3. Location(Thread(c)) = "line"
        BY <4>1, <4>2 DEF Location
      <4>4. RowOf("left", draft.line) = last
        BY <2>7, <3>1, <3>2 DEF last
      <4>5. Carries(last, "left") /\ Carries(last, "right")
        BY <2>2, <2>5, <2>7, <3>6
      <4>6. patched.rows[last] = "context"
        <5>1. patched.rows[last] \in RowKinds
          BY <2>2, RowsAreNumbers DEF AnchorsInv
        <5> QED
          BY <4>5, <5>1 DEF Carries, RowKinds
      <4>7. Or(c.first.new, c.row.new) \in Nat /\ Or(c.first.new, c.row.new) =< c.row.new
        <5>1. CASE ~(c.first.new > 0)
          BY <2>5, <5>1 DEF Or
        <5>2. CASE c.first.new > 0
          <6>1. d.start # d.line /\ c.first.new = NumberOn(from, "right")
            BY <2>3, <5>2
          <6>2. c.first.new \in Nat /\ Carries(from, "right")
            BY <2>2, <2>4, <5>2, <6>1, NumberType
          <6>3. from \in Nat /\ last \in Nat
            BY <2>2, RowsAreNumbers
          <6>4. ~(last =< from)
            BY <2>1, <2>2, <6>1, NumbersGrow
          <6>5. from =< last
            BY ONLY <6>3, <6>4
          <6>6. NumberOn(from, "right") =< NumberOn(last, "right")
            BY <2>2, <2>4, <4>5, <6>2, <6>5, NumbersGrow
          <6> QED
            BY <2>5, <5>2, <6>1, <6>2, <6>6 DEF Or
        <5> QED
          BY <5>1, <5>2
      <4>8. c.row.new \in Or(c.first.new, c.row.new) .. c.row.new
        BY <2>5, <4>7
      <4>9. ThreadAt(Thread(c), "right", c.row.new)
        BY <3>6, <4>1, <4>8 DEF ThreadAt
      <4>10. RootsAt(Thread(c), "left", draft.line)
        <5>1. draft.line # 0
          BY <2>1, <3>1, <3>2
        <5>2. "right" \in Sides \ {"left"} /\ NumberOn(RowOf("left", draft.line), "right") = c.row.new
          BY <2>4, <2>5, <4>4
        <5> QED
          BY <3>4, <4>4, <4>6, <4>9, <5>1, <5>2 DEF RootsAt
      <4>11. ShownAt(c, draft)
        BY <3>1, <3>3, <4>3, <4>10 DEF ShownAt
      <4> QED
        BY <4>11 DEF c
    <3> QED
      BY <3>5, <3>6
  <2> QED
    BY <2>1, <2>6, <2>7 DEF Sides
<1> QED
  BY <1>5, <1>6, DraftForms

LEMMA ConfirmedFollows == AnchorsInv => ConfirmedIsShown
<1> SUFFICES ASSUME AnchorsInv, phase = "confirmed", ~pushed, NEW c \in stored
             PROVE  ShownAt(c, draft)
  BY DEF ConfirmedIsShown, ShownAt
<1>1. Postable(draft)
  BY DEF AnchorsInv
<1>2. PICK d \in Drafts : Postable(d) /\ stored = {Comment(d)}
  BY DEF AnchorsInv
<1>3. c = Comment(d) /\ Matches(draft, c)
  BY <1>2 DEF AnchorsInv
<1>4. CASE provider = "github"
  BY <1>1, <1>2, <1>3, <1>4, GithubShown DEF Comment
<1>5. CASE provider = "gitlab"
  BY <1>1, <1>2, <1>3, <1>5, GitlabShown DEF Comment
<1> QED
  BY <1>4, <1>5 DEF AnchorsInv

LEMMA AnchorsInitially == AnchorsInit => AnchorsInv
<1> SUFFICES ASSUME AnchorsInit PROVE AnchorsInv
  OBVIOUS
<1>1. PICK n \in 1 .. MaxRows :
        patched \in [rows : [1 .. n -> RowKinds], cut : 1 .. n, renamed : BOOLEAN,
                     content : {"text", "binary"}]
  BY DEF AnchorsInit
<1>2. n \in Nat
  BY AnchorsAssumption DEF AnchorsAssumption
<1>3. patched.rows \in Seq(RowKinds) /\ Len(patched.rows) = n
  BY <1>1, <1>2
<1>4. patched.cut \in 1 .. n
  BY <1>1
<1>5. patched.cut \in Nat /\ patched.cut =< Len(patched.rows)
  BY ONLY <1>2, <1>3, <1>4
<1>6. patched \in [rows : Seq(RowKinds), cut : Nat, renamed : BOOLEAN, content : {"text", "binary"}]
  BY <1>1, <1>3, <1>5
<1> QED
  BY <1>5, <1>6 DEF AnchorsInit, AnchorsInv

LEMMA AnchorsStep == AnchorsInv /\ [AnchorsNext]_anchorVars => AnchorsInv'
<1> SUFFICES ASSUME AnchorsInv, [AnchorsNext]_anchorVars PROVE AnchorsInv'
  OBVIOUS
<1>1. UNCHANGED <<provider, patched, draft, boldTop>>
  BY DEF AnchorsNext, anchorVars, PrepareReview, Store, ReadComments, HeadMoves
<1>2. /\ \A d : Postable(d)' = Postable(d) /\ Comment(d)' = Comment(d)
      /\ \A d, c : Matches(d, c)' = Matches(d, c)
  BY <1>1 DEF Postable, Eligible, HunkSpans, NumberOn, Carries, Comment, GithubComment, Position,
       RowOf, Rows, OldPath, Matches, ExtraComment, Keys
<1>3. CASE UNCHANGED anchorVars \/ HeadMoves
  BY <1>1, <1>2, <1>3 DEF AnchorsInv, anchorVars, HeadMoves
<1>4. CASE PrepareReview
  BY <1>1, <1>2, <1>4 DEF AnchorsInv, PrepareReview, Postable
<1>5. CASE Store
  <2>1. PICK d \in {draft} \cup {e \in Drafts : e.whole \/ Eligible(e)} : stored' = {Comment(d)}
    BY <1>5 DEF Store
  <2>2. phase = "prepared" /\ phase' = "posted"
    BY <1>5 DEF Store
  <2>3. d \in Drafts /\ Postable(d)
    BY <2>1, <2>2 DEF AnchorsInv, Postable
  <2> QED
    BY <1>1, <1>2, <2>1, <2>2, <2>3 DEF AnchorsInv
<1>6. CASE ReadComments
  BY <1>1, <1>2, <1>6 DEF AnchorsInv, ReadComments
<1> QED
  BY <1>3, <1>4, <1>5, <1>6 DEF AnchorsNext

\* A comment that the outbox confirmed is shown where it was written
\* (ConfirmedIsShown), for every patch of any length and every draft: what is
\* sent, what recognises it and what shows it agree on the place.
THEOREM ConfirmedIsAlwaysShown == AnchorsSpec => []ConfirmedIsShown
<1>1. AnchorsInit => AnchorsInv
  BY AnchorsInitially
<1>2. AnchorsInv /\ [AnchorsNext]_anchorVars => AnchorsInv'
  BY AnchorsStep
<1>3. AnchorsInv => ConfirmedIsShown
  BY ConfirmedFollows
<1> QED
  BY <1>1, <1>2, <1>3, PTL DEF AnchorsSpec

-----------------------------------------------------------------------------
(* Viewport.                                                               *)

\* A set of natural numbers has a least one.
LEMMA LeastOf ==
  ASSUME NEW S, S \subseteq Nat, S # {}
  PROVE  \E x \in S : \A y \in S : x =< y
<1>1. PICK x \in S : \A y \in S : ~(<<y, x>> \in OpToRel(<, Nat))
  BY NatLessThanWellFounded, WFMin
<1>2. \A y \in S : ~(y < x)
  BY <1>1 DEF OpToRel
<1> QED BY <1>2

\* What holds at 0 and, where it holds, at the next number, holds up to n.
LEMMA UpToAll ==
  ASSUME NEW n \in Nat, NEW S, 0 \in S, \A k \in 1 .. n : k - 1 \in S => k \in S
  PROVE  0 .. n \subseteq S
<1> DEFINE Bad == {k \in 0 .. n : k \notin S}
<1> SUFFICES ASSUME Bad # {} PROVE FALSE
  OBVIOUS
<1>1. Bad \subseteq Nat
  OBVIOUS
<1>2. PICK k \in Bad : \A y \in Bad : k =< y
  <2> HIDE DEF Bad
  <2> QED BY <1>1, LeastOf
<1>3. k \in 0 .. n /\ k \notin S /\ k # 0
  BY <1>2
<1>4. k \in 1 .. n /\ k - 1 \in 0 .. n /\ ~(k =< k - 1)
  BY ONLY <1>3, n \in Nat
<1>5. k - 1 \in S
  BY <1>2, <1>4
<1> QED BY <1>3, <1>4, <1>5

\* f takes every value from the one before by the step of that place.
Steps(n, S) == [1 .. n -> [S -> S]]

Iteration(f, n, S, base, F) ==
  f \in [0 .. n -> S] /\ f[0] = base /\ \A k \in 1 .. n : f[k] = F[k][f[k - 1]]

\* A function on 0 .. n may be defined from each value to the next.
LEMMA Iterates ==
  ASSUME NEW n \in Nat, NEW S, NEW base \in S, NEW F \in Steps(n, S)
  PROVE  \E f : Iteration(f, n, S, base, F)
<1> USE DEF Steps
<1> DEFINE Ok(f, m) == Iteration(f, m, S, base, F)
           Good == {m \in 0 .. n : \E f : Ok(f, m)}
<1> USE DEF Iteration
<1>1. 0 \in Good
  <2>1. Ok([k \in 0 .. 0 |-> base], 0)
    OBVIOUS
  <2> HIDE DEF Iteration, Steps
  <2> QED BY <2>1
<1>2. ASSUME NEW m \in 1 .. n, m - 1 \in Good
      PROVE  m \in Good
  <2>1. PICK f : Ok(f, m - 1)
    BY <1>2
  <2> DEFINE g == [k \in 0 .. m |-> IF k < m THEN f[k] ELSE F[m][f[m - 1]]]
  <2>2. F[m] \in [S -> S] /\ f[m - 1] \in S
    BY <2>1
  <2>3. g \in [0 .. m -> S] /\ g[0] = base
    BY <2>1, <2>2
  <2>4. ASSUME NEW k \in 1 .. m PROVE g[k] = F[k][g[k - 1]]
    <3>1. g[k - 1] = f[k - 1]
      OBVIOUS
    <3>2. CASE k < m
      BY <2>1, <3>1, <3>2
    <3>3. CASE k = m
      BY <3>1, <3>3
    <3> QED BY <3>2, <3>3
  <2>5. Ok(g, m)
    BY <2>3, <2>4
  <2> HIDE DEF Iteration, Steps, g
  <2> QED BY <2>5
<1>3. 0 .. n \subseteq Good
  <2> HIDE DEF Good
  <2> QED BY <1>1, <1>2, UpToAll
<1> QED
  <2> HIDE DEF Iteration, Steps
  <2> QED BY <1>3

\* What the assumption says of the hunks, field by field.
LEMMA HunksAre ==
  /\ Len(Hunks) \in Nat /\ Len(Hunks) >= 1 /\ DOMAIN Hunks = 1 .. Len(Hunks)
  /\ \A h \in DOMAIN Hunks :
       /\ Hunks[h].old \in Nat /\ Hunks[h].new \in Nat
       /\ Hunks[h].blocks \in Seq([context : Nat, removed : Nat, added : Nat])
       /\ Len(Hunks[h].blocks) \in Nat
       /\ \A n \in 1 .. Len(Hunks[h].blocks) :
            LET b == Hunks[h].blocks[n] IN b.context \in Nat /\ b.removed \in Nat /\ b.added \in Nat
<1> DEFINE B == [context : Nat, removed : Nat, added : Nat]
           T == [old : Nat, new : Nat, blocks : Seq(B)]
<1>1. Hunks \in Seq(T) /\ Hunks # <<>>
  BY ViewportAssumption
<1>2. /\ Len(Hunks) \in Nat /\ Len(Hunks) >= 1 /\ DOMAIN Hunks = 1 .. Len(Hunks)
      /\ \A h \in DOMAIN Hunks : Hunks[h] \in T
  <2> HIDE DEF T
  <2> QED BY <1>1
<1>3. ASSUME NEW h \in DOMAIN Hunks
      PROVE  /\ Hunks[h].old \in Nat /\ Hunks[h].new \in Nat /\ Hunks[h].blocks \in Seq(B)
             /\ Len(Hunks[h].blocks) \in Nat
             /\ \A n \in 1 .. Len(Hunks[h].blocks) : Hunks[h].blocks[n] \in B
  <2>1. Hunks[h] \in T
    BY <1>2
  <2> HIDE DEF B
  <2> QED BY <2>1
<1>4. \A b \in B : b.context \in Nat /\ b.removed \in Nat /\ b.added \in Nat
  OBVIOUS
<1> HIDE DEF B, T
<1>5. ASSUME NEW h \in DOMAIN Hunks, NEW n \in 1 .. Len(Hunks[h].blocks)
      PROVE  LET b == Hunks[h].blocks[n] IN b.context \in Nat /\ b.removed \in Nat /\ b.added \in Nat
  BY <1>3, <1>4
<1> QED BY <1>2, <1>3, <1>5 DEF B

\* The starts of blocks may be unfolded.
LEMMA StartsUnfold ==
  ASSUME NEW h \in DOMAIN Hunks
  PROVE  LET bs == Hunks[h].blocks
         IN  /\ Starts(h) \in [0 .. Len(bs) -> [old : Nat, new : Nat]]
             /\ Starts(h)[0] = [old |-> Hunks[h].old, new |-> Hunks[h].new]
             /\ \A n \in 1 .. Len(bs) :
                  Starts(h)[n] = [old |-> Starts(h)[n - 1].old + bs[n].context + bs[n].removed,
                                  new |-> Starts(h)[n - 1].new + bs[n].context + bs[n].added]
<1> DEFINE bs == Hunks[h].blocks
           len == Len(bs)
           S == [old : Nat, new : Nat]
           base == [old |-> Hunks[h].old, new |-> Hunks[h].new]
           After(x, k) == [old |-> x.old + bs[k].context + bs[k].removed,
                           new |-> x.new + bs[k].context + bs[k].added]
           F == [k \in 1 .. len |-> [x \in S |-> After(x, k)]]
           Next(g) == [n \in 0 .. len |-> IF n = 0 THEN base ELSE After(g[n - 1], n)]
<1>1. base \in S /\ len \in Nat
  BY HunksAre
<1>2. ASSUME NEW k \in 1 .. len, NEW x \in S
      PROVE  After(x, k) \in S
  <2>1. bs[k].context \in Nat /\ bs[k].removed \in Nat /\ bs[k].added \in Nat
    BY HunksAre
  <2>2. x.old \in Nat /\ x.new \in Nat
    OBVIOUS
  <2>3. \A a, b, c \in Nat : a + b + c \in Nat
    OBVIOUS
  <2>4. x.old + bs[k].context + bs[k].removed \in Nat /\ x.new + bs[k].context + bs[k].added \in Nat
    BY <2>1, <2>2, <2>3, Zenon
  <2> QED BY <2>4
<1>7. Starts(h) = CHOOSE g : g = Next(g)
  BY DEF Starts
<1> HIDE DEF bs, len, S, base, After
<1>3. F \in Steps(len, S)
  BY <1>2 DEF Steps
<1>4. PICK f : Iteration(f, len, S, base, F)
  <2> HIDE DEF F
  <2> QED BY <1>1, <1>3, Iterates
<1>5. ASSUME NEW n \in 1 .. len
      PROVE  f[n] = After(f[n - 1], n)
  <2>1. f[n - 1] \in S
    BY <1>1, <1>4 DEF Iteration
  <2> QED BY <1>4, <2>1 DEF Iteration
<1>6. f = Next(f)
  BY <1>1, <1>4, <1>5 DEF Iteration
<1>8. Starts(h) = Next(Starts(h))
  <2> HIDE DEF Next
  <2> QED BY <1>6, <1>7
<1> DEFINE g == Starts(h)
<1> HIDE DEF g
<1>9. g = Next(g)
  BY <1>8 DEF g
<1>10. g[0] = base /\ \A n \in 1 .. len : g[n] = After(g[n - 1], n)
  BY <1>1, <1>9
<1>11. 0 .. len \subseteq {n \in 0 .. len : g[n] \in S}
  <2> DEFINE G == {n \in 0 .. len : g[n] \in S}
  <2>1. 0 \in G
    BY <1>1, <1>10
  <2>2. \A k \in 1 .. len : k - 1 \in G => k \in G
    BY <1>1, <1>2, <1>10
  <2> HIDE DEF G
  <2>3. 0 .. len \subseteq G
    BY <1>1, <2>1, <2>2, UpToAll
  <2> QED BY <2>3 DEF G
<1>12. g \in [0 .. len -> S]
  <2>1. DOMAIN g = 0 .. len /\ g = [n \in 0 .. len |-> g[n]]
    BY <1>9, Zenon
  <2> QED BY <1>11, <2>1
<1> QED BY <1>10, <1>12 DEF g, base, len, After, S, bs

-----------------------------------------------------------------------------
(* Rows in order.                                                          *)

\* The positive numbers of q are those of from .. to - 1, in order.
Numbered(q, from, to) ==
  /\ \A i \in DOMAIN q : q[i] > 0 => from =< q[i] /\ q[i] < to
  /\ \A i, j \in DOMAIN q : i < j /\ q[i] > 0 /\ q[j] > 0 => q[i] < q[j]
  /\ \A n \in from .. to - 1 : n > 0 => \E i \in DOMAIN q : q[i] = n

\* Columns that count on from one another can be joined.
LEMMA NumberedJoins ==
  ASSUME NEW p \in Seq(Int), NEW q \in Seq(Int), NEW a \in Int, NEW b \in Int, NEW c \in Int,
         a =< b, b =< c, Numbered(p, a, b), Numbered(q, b, c)
  PROVE  Numbered(p \o q, a, c)
<1> DEFINE r == p \o q
<1>1. /\ DOMAIN p = 1 .. Len(p) /\ Len(p) \in Nat /\ \A i \in DOMAIN p : p[i] \in Int
      /\ DOMAIN q = 1 .. Len(q) /\ Len(q) \in Nat /\ \A i \in DOMAIN q : q[i] \in Int
  OBVIOUS
<1>2. DOMAIN r = 1 .. Len(p) + Len(q)
  OBVIOUS
<1>3. /\ \A i \in DOMAIN p : r[i] = p[i] /\ i \in DOMAIN r
      /\ \A i \in DOMAIN q : r[Len(p) + i] = q[i] /\ Len(p) + i \in DOMAIN r
  OBVIOUS
<1>4. \A i \in DOMAIN r : i \in DOMAIN p \/ (i - Len(p) \in DOMAIN q /\ i = Len(p) + (i - Len(p)))
  BY <1>1, <1>2
<1> HIDE DEF r
<1>5. ASSUME NEW i \in DOMAIN r, r[i] > 0
      PROVE  /\ i \in DOMAIN p => a =< r[i] /\ r[i] < b
             /\ i \notin DOMAIN p => b =< r[i] /\ r[i] < c
  BY <1>1, <1>3, <1>4, <1>5 DEF Numbered
<1>6. ASSUME NEW i \in DOMAIN r, NEW j \in DOMAIN r, i < j, r[i] > 0, r[j] > 0
      PROVE  r[i] < r[j]
  <2>0. r[i] \in Int /\ r[j] \in Int
    BY <1>1, <1>3, <1>4
  <2>1. CASE j \in DOMAIN p
    <3>1. i \in DOMAIN p
      BY <1>1, <1>2, <1>6, <2>1
    <3> QED BY <1>3, <1>6, <2>1, <3>1 DEF Numbered
  <2>2. CASE i \in DOMAIN p /\ j \notin DOMAIN p
    BY <1>5, <1>6, <2>0, <2>2
  <2>3. CASE i \notin DOMAIN p /\ j \notin DOMAIN p
    <3> DEFINE x == i - Len(p)
               y == j - Len(p)
    <3>1. x \in DOMAIN q /\ y \in DOMAIN q /\ i = Len(p) + x /\ j = Len(p) + y
      BY <1>4, <2>3
    <3>2. x < y
      BY <1>1, <1>2, <1>6
    <3> HIDE DEF x, y
    <3>3. r[i] = q[x] /\ r[j] = q[y]
      BY <1>3, <3>1
    <3> QED BY <1>6, <3>1, <3>2, <3>3 DEF Numbered
  <2> QED BY <2>1, <2>2, <2>3
<1>7. ASSUME NEW n \in a .. c - 1, n > 0
      PROVE  \E i \in DOMAIN r : r[i] = n
  <2>1. CASE n < b
    <3>1. n \in a .. b - 1
      BY <2>1
    <3>2. PICK i \in DOMAIN p : p[i] = n
      BY <1>7, <3>1 DEF Numbered
    <3> QED BY <1>3, <3>2
  <2>2. CASE ~(n < b)
    <3>1. n \in b .. c - 1
      BY <2>2
    <3>2. PICK i \in DOMAIN q : q[i] = n
      BY <1>7, <3>1 DEF Numbered
    <3> QED BY <1>3, <3>2
  <2> QED BY <2>1, <2>2
<1>8. \A i \in DOMAIN r : r[i] > 0 => a =< r[i] /\ r[i] < c
  <2> SUFFICES ASSUME NEW i \in DOMAIN r, r[i] > 0 PROVE a =< r[i] /\ r[i] < c
    OBVIOUS
  <2>1. r[i] \in Int
    BY <1>1, <1>3, <1>4
  <2> QED BY <1>5, <2>1
<1> QED BY <1>6, <1>7, <1>8 DEF Numbered, r

\* Rows of one hunk.
Rights(rows) == [i \in DOMAIN rows |-> rows[i].right]
Olds(rows) == [i \in DOMAIN rows |-> rows[i].old]

Body(rows, h, old, oldTo, new, newTo, sided) ==
  /\ rows \in Seq(DisplayRow) /\ \A i \in DOMAIN rows : rows[i].hunk = h
  /\ Numbered(Olds(rows), old, oldTo) /\ Numbered(Rights(rows), new, newTo)
  /\ sided => \A i \in DOMAIN rows : rows[i].left = rows[i].old

\* The fields of a row.
LEMMA RowParts ==
  ASSUME NEW r \in DisplayRow
  PROVE  /\ r.hunk \in DOMAIN Hunks /\ r.head \in BOOLEAN
         /\ r.left \in Int /\ r.right \in Int /\ r.old \in Int
BY DEF DisplayRow

\* The numbers of joined rows are the joined numbers.
LEMMA ColumnsJoin ==
  ASSUME NEW p \in Seq(DisplayRow), NEW q \in Seq(DisplayRow)
  PROVE  /\ p \o q \in Seq(DisplayRow) /\ DOMAIN (p \o q) = 1 .. Len(p) + Len(q)
         /\ Rights(p) \in Seq(Int) /\ Olds(p) \in Seq(Int)
         /\ Rights(p \o q) = Rights(p) \o Rights(q) /\ Olds(p \o q) = Olds(p) \o Olds(q)
<1>1. ASSUME NEW r \in Seq(DisplayRow)
      PROVE  /\ Len(r) \in Nat /\ DOMAIN r = 1 .. Len(r) /\ \A i \in DOMAIN r : r[i] \in DisplayRow
             /\ Rights(r) \in Seq(Int) /\ Len(Rights(r)) = Len(r)
             /\ Olds(r) \in Seq(Int) /\ Len(Olds(r)) = Len(r)
  <2>1. Len(r) \in Nat /\ DOMAIN r = 1 .. Len(r) /\ \A i \in DOMAIN r : r[i] \in DisplayRow
    OBVIOUS
  <2>2. Rights(r) \in [1 .. Len(r) -> Int] /\ Olds(r) \in [1 .. Len(r) -> Int]
    BY <2>1, RowParts DEF Rights, Olds
  <2>3. ASSUME NEW n \in Nat, NEW f \in [1 .. n -> Int] PROVE f \in Seq(Int) /\ Len(f) = n
    BY ONLY <2>3
  <2> QED BY <2>1, <2>2, <2>3
<1>2. p \o q \in Seq(DisplayRow) /\ Len(p \o q) = Len(p) + Len(q)
  OBVIOUS
<1> DEFINE s == p \o q
<1>3. /\ \A i \in 1 .. Len(p) : s[i] = p[i]
      /\ \A i \in 1 .. Len(q) : s[Len(p) + i] = q[i]
  OBVIOUS
<1> HIDE DEF s
<1>4. ASSUME NEW i \in 1 .. Len(p) + Len(q)
      PROVE  (Rights(p) \o Rights(q))[i] = s[i].right /\ (Olds(p) \o Olds(q))[i] = s[i].old
  <2>1. CASE i \in 1 .. Len(p)
    <3>1. (Rights(p) \o Rights(q))[i] = Rights(p)[i] /\ (Olds(p) \o Olds(q))[i] = Olds(p)[i]
      BY <1>1, <2>1
    <3> QED BY <1>1, <1>3, <2>1, <3>1 DEF Rights, Olds
  <2>2. CASE i \notin 1 .. Len(p)
    <3> DEFINE j == i - Len(p)
    <3>1. j \in 1 .. Len(q) /\ i = Len(p) + j
      BY <1>1, <2>2
    <3> HIDE DEF j
    <3>2. (Rights(p) \o Rights(q))[i] = Rights(q)[j] /\ (Olds(p) \o Olds(q))[i] = Olds(q)[j]
      <4>1. ASSUME NEW t \in Seq(Int), NEW u \in Seq(Int), NEW k \in 1 .. Len(u)
            PROVE  (t \o u)[Len(t) + k] = u[k]
        BY ONLY <4>1
      <4>2. /\ Rights(p) \in Seq(Int) /\ Rights(q) \in Seq(Int) /\ Olds(p) \in Seq(Int) /\ Olds(q) \in Seq(Int)
            /\ Len(Rights(p)) = Len(p) /\ Len(Olds(p)) = Len(p)
            /\ j \in 1 .. Len(Rights(q)) /\ j \in 1 .. Len(Olds(q))
        BY <1>1, <3>1
      <4>3. (Rights(p) \o Rights(q))[Len(p) + j] = Rights(q)[j]
        <5> DEFINE t == Rights(p)
                   u == Rights(q)
        <5>1. t \in Seq(Int) /\ u \in Seq(Int) /\ j \in 1 .. Len(u) /\ Len(t) = Len(p)
          BY <4>2
        <5> HIDE DEF t, u
        <5>2. (t \o u)[Len(t) + j] = u[j]
          BY ONLY <4>1, <5>1
        <5> QED BY <5>1, <5>2 DEF t, u
      <4>4. (Olds(p) \o Olds(q))[Len(p) + j] = Olds(q)[j]
        <5> DEFINE t == Olds(p)
                   u == Olds(q)
        <5>1. t \in Seq(Int) /\ u \in Seq(Int) /\ j \in 1 .. Len(u) /\ Len(t) = Len(p)
          BY <4>2
        <5> HIDE DEF t, u
        <5>2. (t \o u)[Len(t) + j] = u[j]
          BY ONLY <4>1, <5>1
        <5> QED BY <5>1, <5>2 DEF t, u
      <4> QED BY <3>1, <4>3, <4>4
    <3> QED BY <1>1, <1>3, <3>1, <3>2 DEF Rights, Olds
  <2> QED BY <2>1, <2>2
<1>5. Rights(s) = Rights(p) \o Rights(q) /\ Olds(s) = Olds(p) \o Olds(q)
  <2>1. DOMAIN s = 1 .. Len(p) + Len(q)
    BY <1>1, <1>2 DEF s
  <2>2. /\ Rights(p) \o Rights(q) = [i \in 1 .. Len(p) + Len(q) |-> (Rights(p) \o Rights(q))[i]]
        /\ Olds(p) \o Olds(q) = [i \in 1 .. Len(p) + Len(q) |-> (Olds(p) \o Olds(q))[i]]
    <3>1. ASSUME NEW t \in Seq(Int), NEW u \in Seq(Int)
          PROVE  t \o u = [i \in 1 .. Len(t) + Len(u) |-> (t \o u)[i]]
      <4>1. t \o u \in Seq(Int) /\ Len(t \o u) = Len(t) + Len(u)
        OBVIOUS
      <4> DEFINE v == t \o u
      <4> HIDE DEF v
      <4>2. v \in Seq(Int) => v = [i \in 1 .. Len(v) |-> v[i]]
        OBVIOUS
      <4> QED BY <4>1, <4>2 DEF v
    <3> QED BY <1>1, <3>1
  <2>3. /\ Rights(s) = [i \in 1 .. Len(p) + Len(q) |-> s[i].right]
        /\ Olds(s) = [i \in 1 .. Len(p) + Len(q) |-> s[i].old]
    BY <2>1 DEF Rights, Olds
  <2> QED BY <1>4, <2>2, <2>3
<1> QED BY <1>1, <1>2, <1>5 DEF s

\* Rows of a hunk followed by the next ones are rows of the hunk.
LEMMA BodiesJoin ==
  ASSUME NEW p, NEW q, NEW h, NEW sided, NEW a \in Int, NEW b \in Int, NEW c \in Int,
         NEW d \in Int, NEW e \in Int, NEW f \in Int, a =< b, b =< c, d =< e, e =< f,
         Body(p, h, a, b, d, e, sided), Body(q, h, b, c, e, f, sided)
  PROVE  Body(p \o q, h, a, c, d, f, sided)
<1>1. p \in Seq(DisplayRow) /\ q \in Seq(DisplayRow)
  BY DEF Body
<1>2. /\ p \o q \in Seq(DisplayRow)
      /\ Rights(p) \in Seq(Int) /\ Olds(p) \in Seq(Int) /\ Rights(q) \in Seq(Int) /\ Olds(q) \in Seq(Int)
      /\ Rights(p \o q) = Rights(p) \o Rights(q) /\ Olds(p \o q) = Olds(p) \o Olds(q)
  BY <1>1, ColumnsJoin
<1>3. Numbered(Olds(p) \o Olds(q), a, c)
  <2>1. Numbered(Olds(p), a, b) /\ Numbered(Olds(q), b, c)
    BY DEF Body
  <2> QED BY <1>2, <2>1, NumberedJoins
<1>4. Numbered(Rights(p) \o Rights(q), d, f)
  <2>1. Numbered(Rights(p), d, e) /\ Numbered(Rights(q), e, f)
    BY DEF Body
  <2> QED BY <1>2, <2>1, NumberedJoins
<1>5. ASSUME NEW i \in DOMAIN (p \o q)
      PROVE  (p \o q)[i].hunk = h /\ (sided => (p \o q)[i].left = (p \o q)[i].old)
  <2>1. (\E j \in DOMAIN p : (p \o q)[i] = p[j]) \/ (\E j \in DOMAIN q : (p \o q)[i] = q[j])
    BY <1>1
  <2> QED BY <2>1 DEF Body
<1> QED BY <1>2, <1>3, <1>4, <1>5 DEF Body

\* Rows that are numbered by their place on a side that has them.
LEMMA PlainBody ==
  ASSUME NEW n \in Nat, NEW h \in DOMAIN Hunks, NEW sided, NEW rows \in [1 .. n -> DisplayRow],
         NEW old \in Int, NEW k \in 0 .. n, NEW new \in Int, NEW m \in 0 .. n,
         \A i \in 1 .. n : /\ rows[i].hunk = h
                           /\ rows[i].old = IF i =< k THEN old + i - 1 ELSE 0
                           /\ rows[i].right = IF i =< m THEN new + i - 1 ELSE 0
                           /\ sided => rows[i].left = rows[i].old
  PROVE  Body(rows, h, old, old + k, new, new + m, sided)
<1>1. rows \in Seq(DisplayRow) /\ DOMAIN rows = 1 .. n
  OBVIOUS
<1>2. ASSUME NEW q \in [1 .. n -> Int], NEW from \in Int, NEW l \in 0 .. n,
             \A i \in 1 .. n : q[i] = IF i =< l THEN from + i - 1 ELSE 0
      PROVE  Numbered(q, from, from + l)
  <2>1. \A i \in 1 .. n : q[i] > 0 => i =< l /\ q[i] = from + i - 1
    BY <1>2
  <2>2. ASSUME NEW x \in from .. from + l - 1
        PROVE  \E i \in DOMAIN q : q[i] = x
    <3>1. x - from + 1 \in 1 .. n /\ x - from + 1 =< l
      OBVIOUS
    <3>2. q[x - from + 1] = x
      BY <1>2, <3>1
    <3> QED BY <3>1, <3>2
  <2> QED BY <2>1, <2>2 DEF Numbered
<1>3. /\ Olds(rows) \in [1 .. n -> Int] /\ Rights(rows) \in [1 .. n -> Int]
      /\ \A i \in 1 .. n : Olds(rows)[i] = rows[i].old /\ Rights(rows)[i] = rows[i].right
  BY <1>1, RowParts DEF Olds, Rights
<1>4. Numbered(Olds(rows), old, old + k)
  <2>1. \A i \in 1 .. n : Olds(rows)[i] = IF i =< k THEN old + i - 1 ELSE 0
    BY <1>3
  <2> QED BY <1>2, <1>3, <2>1
<1>5. Numbered(Rights(rows), new, new + m)
  <2>1. \A i \in 1 .. n : Rights(rows)[i] = IF i =< m THEN new + i - 1 ELSE 0
    BY <1>3
  <2> QED BY <1>2, <1>3, <2>1
<1> QED BY <1>1, <1>4, <1>5 DEF Body

\* Context lines, fetched or in a hunk, count on on both sides.
LEMMA ContextBody ==
  ASSUME NEW h \in DOMAIN Hunks, NEW sided \in BOOLEAN, NEW old \in Int, NEW new \in Int, NEW count \in Nat
  PROVE  LET lines == [i \in 1 .. count |->
                         Row(h, IF sided THEN old + i - 1 ELSE 0, new + i - 1, old + i - 1)]
         IN  /\ Body(lines, h, old, old + count, new, new + count, sided)
             /\ \A i \in DOMAIN lines : ~lines[i].head
<1> DEFINE lines == [i \in 1 .. count |->
                       Row(h, IF sided THEN old + i - 1 ELSE 0, new + i - 1, old + i - 1)]
<1>1. ASSUME NEW i \in 1 .. count
      PROVE  /\ lines[i] \in DisplayRow /\ lines[i].hunk = h /\ ~lines[i].head
             /\ lines[i].old = old + i - 1 /\ lines[i].right = new + i - 1
             /\ sided => lines[i].left = lines[i].old
  <2> DEFINE lt == IF sided THEN old + i - 1 ELSE 0
  <2>1. lt \in Int /\ old + i - 1 \in Int /\ new + i - 1 \in Int /\ (sided => lt = old + i - 1)
    OBVIOUS
  <2>2. lines[i] = Row(h, lt, new + i - 1, old + i - 1)
    OBVIOUS
  <2> DEFINE rt == new + i - 1
             was == old + i - 1
             r == Row(h, lt, rt, was)
  <2>3. lt \in Int /\ rt \in Int /\ was \in Int
    BY <2>1
  <2>4. lines[i] = r /\ (sided => lt = was)
    BY <2>1, <2>2
  <2> HIDE DEF lt, rt, was
  <2>5. r \in DisplayRow /\ r.hunk = h /\ r.left = lt /\ r.right = rt /\ r.old = was /\ r.head = FALSE
    BY <2>3 DEF Row, DisplayRow
  <2> HIDE DEF r, lines
  <2>6. /\ lines[i] \in DisplayRow /\ lines[i].hunk = h /\ ~lines[i].head
        /\ lines[i].old = was /\ lines[i].right = rt
        /\ sided => lines[i].left = lines[i].old
    BY <2>4, <2>5
  <2> QED BY <2>6 DEF was, rt
<1>2. lines \in [1 .. count -> DisplayRow] /\ count \in 0 .. count
  <2>1. \A i \in 1 .. count : lines[i] \in DisplayRow
    BY <1>1
  <2>2. lines = [i \in 1 .. count |-> lines[i]]
    OBVIOUS
  <2> HIDE DEF lines
  <2> QED BY <2>1, <2>2
<1>3. DOMAIN lines = 1 .. count
  OBVIOUS
<1> HIDE DEF lines
<1>4. \A i \in 1 .. count : /\ lines[i].hunk = h
                            /\ lines[i].old = IF i =< count THEN old + i - 1 ELSE 0
                            /\ lines[i].right = IF i =< count THEN new + i - 1 ELSE 0
                            /\ sided => lines[i].left = lines[i].old
  BY <1>1
<1>5. Body(lines, h, old, old + count, new, new + count, sided)
  BY <1>2, <1>4, PlainBody
<1> QED BY <1>1, <1>3, <1>5 DEF lines

\* Rows of one kind after a block's context: removed, added, or both in pairs.
Changes(h, from, gone, to, come, n) ==
  [i \in 1 .. n |-> Row(h, IF i =< gone THEN from + i ELSE 0, IF i =< come THEN to + i ELSE 0,
                           IF i =< gone THEN from + i ELSE 0)]

\* Removed and added lines, paired or not, count on on their sides.
LEMMA ChangedBody ==
  ASSUME NEW h \in DOMAIN Hunks, NEW sided \in BOOLEAN, NEW from \in Int, NEW to \in Int,
         NEW gone \in Nat, NEW come \in Nat, NEW n \in Nat, gone =< n, come =< n,
         NEW lines, lines = Changes(h, from, gone, to, come, n)
  PROVE  /\ Body(lines, h, from + 1, from + 1 + gone, to + 1, to + 1 + come, sided)
         /\ \A i \in DOMAIN lines : ~lines[i].head
<1>1. ASSUME NEW i \in 1 .. n
      PROVE  /\ lines[i] \in DisplayRow /\ lines[i].hunk = h /\ ~lines[i].head
             /\ lines[i].old = IF i =< gone THEN from + i ELSE 0
             /\ lines[i].right = IF i =< come THEN to + i ELSE 0
             /\ lines[i].left = lines[i].old
  <2> DEFINE was == IF i =< gone THEN from + i ELSE 0
             is == IF i =< come THEN to + i ELSE 0
             r == Row(h, was, is, was)
  <2>1. was \in Int /\ is \in Int
    OBVIOUS
  <2>2. lines[i] = r
    BY DEF Changes
  <2> HIDE DEF was, is
  <2>3. r \in DisplayRow /\ r.hunk = h /\ r.left = was /\ r.right = is /\ r.old = was /\ r.head = FALSE
    BY <2>1 DEF Row, DisplayRow
  <2> HIDE DEF r
  <2>4. /\ lines[i] \in DisplayRow /\ lines[i].hunk = h /\ ~lines[i].head
        /\ lines[i].old = was /\ lines[i].right = is /\ lines[i].left = lines[i].old
    BY <2>2, <2>3
  <2> QED BY <2>4 DEF was, is
<1>2. lines \in [1 .. n -> DisplayRow] /\ DOMAIN lines = 1 .. n
  <2>1. \A i \in 1 .. n : lines[i] \in DisplayRow
    BY <1>1
  <2>2. DOMAIN lines = 1 .. n /\ lines = [i \in 1 .. n |-> lines[i]]
    BY DEF Changes
  <2> QED BY ONLY <2>1, <2>2
<1>3. gone \in 0 .. n /\ come \in 0 .. n
  OBVIOUS
<1>4. \A i \in 1 .. n : /\ lines[i].hunk = h
                        /\ lines[i].old = IF i =< gone THEN (from + 1) + i - 1 ELSE 0
                        /\ lines[i].right = IF i =< come THEN (to + 1) + i - 1 ELSE 0
                        /\ sided => lines[i].left = lines[i].old
  <2>1. \A i \in 1 .. n : (from + 1) + i - 1 = from + i /\ (to + 1) + i - 1 = to + i
    OBVIOUS
  <2> QED BY ONLY <1>1, <2>1
<1>5. from + 1 \in Int /\ to + 1 \in Int
  OBVIOUS
<1>6. Body(lines, h, from + 1, from + 1 + gone, to + 1, to + 1 + come, sided)
  BY ONLY <1>2, <1>3, <1>4, <1>5, n \in Nat, h \in DOMAIN Hunks, PlainBody
<1> QED BY <1>1, <1>2, <1>6

\* Joining rows makes no header.
LEMMA NoHeadsJoin ==
  ASSUME NEW p \in Seq(DisplayRow), NEW q \in Seq(DisplayRow),
         \A i \in DOMAIN p : ~p[i].head, \A i \in DOMAIN q : ~q[i].head
  PROVE  \A i \in DOMAIN (p \o q) : ~(p \o q)[i].head
<1> SUFFICES ASSUME NEW i \in DOMAIN (p \o q) PROVE ~(p \o q)[i].head
  OBVIOUS
<1>1. (\E j \in DOMAIN p : (p \o q)[i] = p[j]) \/ (\E j \in DOMAIN q : (p \o q)[i] = q[j])
  OBVIOUS
<1> QED BY <1>1

\* A block shows its lines of both sides in order.
LEMMA BlockBody ==
  ASSUME NEW h \in DOMAIN Hunks, NEW sided \in BOOLEAN, NEW old \in Int, NEW new \in Int, NEW b,
         b.context \in Nat, b.removed \in Nat, b.added \in Nat
  PROVE  /\ Body(BlockRows(h, b, old, new, sided), h, old, old + b.context + b.removed,
                 new, new + b.context + b.added, sided)
         /\ \A i \in DOMAIN BlockRows(h, b, old, new, sided) : ~BlockRows(h, b, old, new, sided)[i].head
<1> DEFINE c == b.context
           gone == b.removed
           come == b.added
           from == old + c - 1
           to == new + c - 1
           ctx == [i \in 1 .. c |-> Row(h, IF sided THEN old + i - 1 ELSE 0, new + i - 1, old + i - 1)]
           rem == [i \in 1 .. gone |-> Row(h, from + i, 0, from + i)]
           add == [i \in 1 .. come |-> Row(h, 0, to + i, 0)]
           par == [i \in 1 .. Larger(gone, come) |->
                     Row(h, IF i =< gone THEN from + i ELSE 0, IF i =< come THEN to + i ELSE 0,
                            IF i =< gone THEN from + i ELSE 0)]
           R == BlockRows(h, b, old, new, sided)
<1>1. R = ctx \o (IF sided THEN par ELSE rem \o add)
  BY DEF BlockRows
<1>2. c \in Nat /\ gone \in Nat /\ come \in Nat
  OBVIOUS
<1> HIDE DEF c, gone, come, R
<1>3. from \in Int /\ to \in Int /\ from + 1 = old + c /\ to + 1 = new + c
  BY <1>2
<1>4. Body(ctx, h, old, old + c, new, new + c, sided) /\ \A i \in DOMAIN ctx : ~ctx[i].head
  BY <1>2, ContextBody
<1> HIDE DEF from, to, ctx
<1>5. /\ Body(par, h, from + 1, from + 1 + gone, to + 1, to + 1 + come, sided)
      /\ \A i \in DOMAIN par : ~par[i].head
  <2> DEFINE n == Larger(gone, come)
  <2>1. n \in Nat /\ gone =< n /\ come =< n
    BY <1>2 DEF Larger
  <2> HIDE DEF n
  <2>2. par = Changes(h, from, gone, to, come, n)
    BY DEF n, Changes
  <2> HIDE DEF par
  <2> QED BY <1>2, <1>3, <2>1, <2>2, ChangedBody
<1>6. /\ Body(rem, h, from + 1, from + 1 + gone, to + 1, to + 1 + 0, sided)
      /\ \A i \in DOMAIN rem : ~rem[i].head
  <2>1. rem = Changes(h, from, gone, to, 0, gone)
    BY <1>2 DEF Changes
  <2>2. gone =< gone /\ 0 =< gone /\ 0 \in Nat
    BY <1>2
  <2> HIDE DEF rem
  <2> QED BY <1>2, <1>3, <2>1, <2>2, ChangedBody
<1>7. /\ Body(add, h, (from + gone) + 1, (from + gone) + 1 + 0, to + 1, to + 1 + come, sided)
      /\ \A i \in DOMAIN add : ~add[i].head
  <2> DEFINE g == from + gone
  <2>1. add = Changes(h, g, 0, to, come, come)
    BY <1>2 DEF Changes
  <2>2. come =< come /\ 0 =< come /\ 0 \in Nat /\ g \in Int
    BY <1>2, <1>3
  <2> HIDE DEF add, g
  <2>3. /\ Body(add, h, g + 1, g + 1 + 0, to + 1, to + 1 + come, sided)
        /\ \A i \in DOMAIN add : ~add[i].head
    BY <1>2, <1>3, <2>1, <2>2, ChangedBody
  <2> QED BY <2>3 DEF g
<1> HIDE DEF par, rem, add
<1>8. /\ Body(rem \o add, h, from + 1, from + 1 + gone, to + 1, to + 1 + come, sided)
      /\ \A i \in DOMAIN (rem \o add) : ~(rem \o add)[i].head
  <2>1. /\ from + 1 \in Int /\ from + 1 + gone \in Int /\ to + 1 \in Int /\ to + 1 + come \in Int
        /\ from + 1 =< from + 1 + gone /\ to + 1 =< to + 1 + come
        /\ (from + gone) + 1 = from + 1 + gone /\ (from + gone) + 1 + 0 = from + 1 + gone /\ to + 1 + 0 = to + 1
        /\ from + 1 + gone =< from + 1 + gone /\ to + 1 =< to + 1
    BY <1>2, <1>3
  <2>2. Body(rem, h, from + 1, from + 1 + gone, to + 1, to + 1, sided)
    BY ONLY <1>6, <2>1
  <2>3. Body(add, h, from + 1 + gone, from + 1 + gone, to + 1, to + 1 + come, sided)
    BY ONLY <1>7, <2>1
  <2>4. Body(rem \o add, h, from + 1, from + 1 + gone, to + 1, to + 1 + come, sided)
    BY ONLY <2>1, <2>2, <2>3, BodiesJoin
  <2>5. rem \in Seq(DisplayRow) /\ add \in Seq(DisplayRow)
    BY <1>6, <1>7 DEF Body
  <2> QED BY ONLY <1>6, <1>7, <2>4, <2>5, NoHeadsJoin
<1> DEFINE rest == IF sided THEN par ELSE rem \o add
<1>9. /\ Body(rest, h, old + c, old + c + gone, new + c, new + c + come, sided)
      /\ \A i \in DOMAIN rest : ~rest[i].head
  BY <1>3, <1>5, <1>8
<1> HIDE DEF rest
<1>10. Body(ctx \o rest, h, old, old + c + gone, new, new + c + come, sided)
  <2>1. /\ old + c \in Int /\ old + c + gone \in Int /\ new + c \in Int /\ new + c + come \in Int
        /\ old =< old + c /\ old + c =< old + c + gone /\ new =< new + c /\ new + c =< new + c + come
    BY <1>2
  <2> QED BY ONLY <1>4, <1>9, <2>1, old \in Int, new \in Int, BodiesJoin
<1>11. \A i \in DOMAIN (ctx \o rest) : ~(ctx \o rest)[i].head
  <2>1. ctx \in Seq(DisplayRow) /\ rest \in Seq(DisplayRow)
    BY <1>4, <1>9 DEF Body
  <2> QED BY ONLY <1>4, <1>9, <2>1, NoHeadsJoin
<1>12. R = ctx \o rest
  BY <1>1 DEF rest
<1>13. /\ Body(R, h, old, old + c + gone, new, new + c + come, sided)
       /\ \A i \in DOMAIN R : ~R[i].head
  BY ONLY <1>10, <1>11, <1>12
<1> QED BY <1>13 DEF R, c, gone, come

-----------------------------------------------------------------------------
(* The rows of a file.                                                     *)

\* g grows by one part after the other.
Chain(g, n, base, parts) ==
  g = [k \in 0 .. n |-> IF k = 0 THEN base ELSE g[k - 1] \o parts[k]]

Parts(n) == [1 .. n -> Seq(DisplayRow)]

\* A chain of any parts exists.
LEMMA ChainExists ==
  ASSUME NEW n \in Nat, NEW base \in Seq(DisplayRow), NEW parts \in Parts(n)
  PROVE  \E g : Chain(g, n, base, parts)
<1> DEFINE S == Seq(DisplayRow)
           F == [k \in 1 .. n |-> [x \in S |-> x \o parts[k]]]
<1>1. F \in Steps(n, S)
  <2>1. ASSUME NEW k \in 1 .. n, NEW x \in S PROVE x \o parts[k] \in S
    <3>1. parts[k] \in S
      BY DEF Parts
    <3> QED BY <3>1
  <2> HIDE DEF S
  <2> QED BY <2>1 DEF Steps
<1>2. PICK f : Iteration(f, n, S, base, F)
  <2> HIDE DEF F, S
  <2>1. base \in S
    BY DEF S
  <2> QED BY <1>1, <2>1, Iterates
<1> HIDE DEF S
<1>3. ASSUME NEW k \in 1 .. n PROVE f[k] = f[k - 1] \o parts[k]
  <2>1. f[k - 1] \in S
    BY <1>2 DEF Iteration
  <2> QED BY <1>2, <2>1 DEF Iteration
<1>4. f = [k \in 0 .. n |-> IF k = 0 THEN base ELSE f[k - 1] \o parts[k]]
  BY <1>2, <1>3 DEF Iteration
<1>5. Chain(f, n, base, parts)
  BY ONLY <1>4 DEF Chain
<1> HIDE DEF Chain
<1> QED BY <1>5

Grown(g, n, base, parts) ==
  /\ g[0] = base
  /\ \A k \in 1 .. n : g[k] = g[k - 1] \o parts[k]
  /\ \A k \in 0 .. n : g[k] \in Seq(DisplayRow)

\* It grows from row sequence to row sequence.
LEMMA ChainGrows ==
  ASSUME NEW n \in Nat, NEW base \in Seq(DisplayRow), NEW parts \in Parts(n), NEW g,
         Chain(g, n, base, parts)
  PROVE  Grown(g, n, base, parts)
<1>1. g[0] = base /\ \A k \in 1 .. n : g[k] = g[k - 1] \o parts[k]
  <2> DEFINE N == [k \in 0 .. n |-> IF k = 0 THEN base ELSE g[k - 1] \o parts[k]]
  <2>1. g = N
    BY DEF Chain
  <2>2. N[0] = base /\ \A k \in 1 .. n : N[k] = g[k - 1] \o parts[k]
    <3>1. 0 \in 0 .. n /\ \A k \in 1 .. n : k \in 0 .. n /\ k # 0
      OBVIOUS
    <3> QED BY ONLY <3>1
  <2> HIDE DEF N
  <2>3. \A k : g[k] = N[k]
    BY <2>1
  <2> QED BY ONLY <2>2, <2>3
<1> DEFINE G == {k \in 0 .. n : g[k] \in Seq(DisplayRow)}
<1>2. 0 \in G
  BY <1>1
<1>3. ASSUME NEW k \in 1 .. n, k - 1 \in G PROVE k \in G
  <2>1. g[k - 1] \in Seq(DisplayRow) /\ parts[k] \in Seq(DisplayRow)
    BY <1>3 DEF Parts
  <2>2. g[k - 1] \o parts[k] \in Seq(DisplayRow)
    BY <2>1
  <2>3. g[k] \in Seq(DisplayRow)
    BY <1>1, <2>2
  <2>4. k \in 0 .. n
    OBVIOUS
  <2> QED BY ONLY <2>3, <2>4
<1>4. 0 .. n \subseteq G
  <2> HIDE DEF G
  <2> QED BY <1>2, <1>3, UpToAll
<1> QED BY <1>1, <1>4 DEF Grown

\* The rows of each block of a hunk.
BlockParts(h, sided) ==
  [n \in 1 .. Len(Hunks[h].blocks) |->
     BlockRows(h, Hunks[h].blocks[n], Starts(h)[n - 1].old, Starts(h)[n - 1].new, sided)]

\* The header of a hunk shows no line.
LEMMA HeaderRowIs ==
  ASSUME NEW h \in DOMAIN Hunks
  PROVE  /\ HeaderRow(h) \in DisplayRow /\ HeaderRow(h).hunk = h /\ HeaderRow(h).head
         /\ HeaderRow(h).left = 0 /\ HeaderRow(h).right = 0 /\ HeaderRow(h).old = 0
BY DEF HeaderRow, DisplayRow

\* The rows of a hunk are a chain of its blocks.
LEMMA HunkRowsUnfold ==
  ASSUME NEW h \in DOMAIN Hunks, NEW sided \in BOOLEAN,
         BlockParts(h, sided) \in Parts(Len(Hunks[h].blocks))
  PROVE  \E g : /\ Chain(g, Len(Hunks[h].blocks), <<HeaderRow(h)>>, BlockParts(h, sided))
                /\ HunkRows(h, sided) = g[Len(Hunks[h].blocks)]
<1> DEFINE bs == Hunks[h].blocks
           len == Len(bs)
           base == <<HeaderRow(h)>>
           Next(g) == [n \in 0 .. len |->
                         IF n = 0 THEN <<HeaderRow(h)>>
                         ELSE g[n - 1] \o BlockRows(h, bs[n], Starts(h)[n - 1].old, Starts(h)[n - 1].new, sided)]
           rows == CHOOSE g : g = Next(g)
<1>1. HunkRows(h, sided) = rows[len]
  BY DEF HunkRows
<1>2. len \in Nat
  BY HunksAre
<1>3. base \in Seq(DisplayRow)
  BY HeaderRowIs
<1>4. \A g : Chain(g, len, base, BlockParts(h, sided)) <=> g = Next(g)
  <2>1. \A n \in 0 .. len : n # 0 => n \in 1 .. len
    BY <1>2
  <2>2. \A n \in 1 .. len :
          BlockParts(h, sided)[n] = BlockRows(h, bs[n], Starts(h)[n - 1].old, Starts(h)[n - 1].new, sided)
    BY DEF BlockParts
  <2>3. ASSUME NEW g
        PROVE  [k \in 0 .. len |-> IF k = 0 THEN base ELSE g[k - 1] \o BlockParts(h, sided)[k]] = Next(g)
    BY <2>1, <2>2
  <2> HIDE DEF Next, base, len
  <2> QED BY <2>3 DEF Chain
<1>5. \E g : Chain(g, len, base, BlockParts(h, sided))
  <2> HIDE DEF base
  <2>1. BlockParts(h, sided) \in Parts(len)
    OBVIOUS
  <2> HIDE DEF len
  <2> QED BY <1>2, <1>3, <2>1, ChainExists
<1> HIDE DEF Next, base, len
<1>6. \E g : g = Next(g)
  BY <1>4, <1>5
<1>7. rows = Next(rows)
  BY <1>6
<1>8. Chain(rows, len, base, BlockParts(h, sided))
  BY <1>4, <1>7
<1> HIDE DEF rows
<1> QED BY <1>1, <1>8 DEF base, len

\* A header and rows that are none.
HeadFirst(rows) ==
  /\ Len(rows) >= 1 /\ rows[1].head /\ rows[1].right = 0 /\ rows[1].old = 0
  /\ \A i \in DOMAIN rows : rows[i].head => i = 1

\* Lines after a header leave it the only one.
LEMMA HeadStaysFirst ==
  ASSUME NEW p \in Seq(DisplayRow), NEW q \in Seq(DisplayRow), HeadFirst(p),
         \A i \in DOMAIN q : ~q[i].head
  PROVE  HeadFirst(p \o q)
<1>1. Len(p \o q) >= 1 /\ (p \o q)[1] = p[1]
  BY DEF HeadFirst
<1>2. ASSUME NEW i \in DOMAIN (p \o q), (p \o q)[i].head PROVE i = 1
  <2>1. (i \in DOMAIN p /\ (p \o q)[i] = p[i]) \/ (\E j \in DOMAIN q : (p \o q)[i] = q[j])
    OBVIOUS
  <2> QED BY <1>2, <2>1 DEF HeadFirst
<1> QED BY <1>1, <1>2 DEF HeadFirst

\* A header alone shows no line of its hunk.
LEMMA HeaderBody ==
  ASSUME NEW h \in DOMAIN Hunks, NEW sided \in BOOLEAN, NEW old \in Int, NEW new \in Int
  PROVE  Body(<<HeaderRow(h)>>, h, old, old, new, new, sided) /\ HeadFirst(<<HeaderRow(h)>>)
<1> DEFINE rows == <<HeaderRow(h)>>
<1>1. rows[1] = HeaderRow(h) /\ rows \in [1 .. 1 -> DisplayRow] /\ Len(rows) = 1 /\ DOMAIN rows = 1 .. 1
  BY HeaderRowIs
<1> HIDE DEF rows
<1>2. \A i \in 1 .. 1 : /\ rows[i].hunk = h
                        /\ rows[i].old = IF i =< 0 THEN old + i - 1 ELSE 0
                        /\ rows[i].right = IF i =< 0 THEN new + i - 1 ELSE 0
                        /\ sided => rows[i].left = rows[i].old
  BY <1>1, HeaderRowIs
<1>3. Body(rows, h, old, old + 0, new, new + 0, sided)
  <2>1. 1 \in Nat /\ 0 \in 0 .. 1
    OBVIOUS
  <2> QED BY <1>1, <1>2, <2>1, PlainBody
<1>4. old + 0 = old /\ new + 0 = new
  OBVIOUS
<1>5. Body(rows, h, old, old, new, new, sided)
  BY <1>3, <1>4
<1>6. HeadFirst(rows)
  BY <1>1, HeaderRowIs DEF HeadFirst
<1> QED BY <1>5, <1>6 DEF rows

\* The rows of a hunk show its lines of both sides in order, under its header.
LEMMA HunkBody ==
  ASSUME NEW h \in DOMAIN Hunks, NEW sided \in BOOLEAN
  PROVE  /\ EndOf(h).old \in Nat /\ Hunks[h].old =< EndOf(h).old
         /\ EndOf(h).new \in Nat /\ Hunks[h].new =< EndOf(h).new
         /\ Body(HunkRows(h, sided), h, Hunks[h].old, EndOf(h).old, Hunks[h].new, EndOf(h).new, sided)
         /\ HeadFirst(HunkRows(h, sided))
<1> DEFINE bs == Hunks[h].blocks
           len == Len(bs)
           base == <<HeaderRow(h)>>
           parts == BlockParts(h, sided)
           st == Starts(h)
           old == Hunks[h].old
           new == Hunks[h].new
           Gone(k) == bs[k].context + bs[k].removed
<1>1. len \in Nat /\ old \in Nat /\ new \in Nat
  BY HunksAre
<1>2. /\ \A k \in 0 .. len : st[k].old \in Nat /\ st[k].new \in Nat
      /\ st[0].old = old /\ st[0].new = new
      /\ \A k \in 1 .. len : /\ st[k].old = st[k - 1].old + bs[k].context + bs[k].removed
                             /\ st[k].new = st[k - 1].new + bs[k].context + bs[k].added
  <2>1. /\ st \in [0 .. len -> [old : Nat, new : Nat]]
        /\ st[0] = [old |-> old, new |-> new]
        /\ \A k \in 1 .. len : st[k] = [old |-> st[k - 1].old + bs[k].context + bs[k].removed,
                                       new |-> st[k - 1].new + bs[k].context + bs[k].added]
    BY StartsUnfold
  <2> HIDE DEF st, bs, len, old, new
  <2>2. \A k \in 0 .. len : st[k] \in [old : Nat, new : Nat]
    BY <2>1
  <2>3. \A r \in [old : Nat, new : Nat] : r.old \in Nat /\ r.new \in Nat
    OBVIOUS
  <2>4. \A k \in 0 .. len : st[k].old \in Nat /\ st[k].new \in Nat
    BY <2>2, <2>3
  <2>5. \A a, c : [old |-> a, new |-> c].old = a /\ [old |-> a, new |-> c].new = c
    OBVIOUS
  <2>6. st[0].old = old /\ st[0].new = new
    BY <2>1, <2>5
  <2>7. ASSUME NEW k \in 1 .. len
        PROVE  /\ st[k].old = st[k - 1].old + bs[k].context + bs[k].removed
               /\ st[k].new = st[k - 1].new + bs[k].context + bs[k].added
    <3> DEFINE x == st[k - 1].old + bs[k].context + bs[k].removed
               y == st[k - 1].new + bs[k].context + bs[k].added
    <3>1. st[k] = [old |-> x, new |-> y]
      BY <2>1
    <3> HIDE DEF x, y
    <3>2. st[k].old = x /\ st[k].new = y
      BY <2>5, <3>1
    <3> QED BY <3>2 DEF x, y
  <2> QED BY ONLY <2>4, <2>6, <2>7
<1>3. ASSUME NEW k \in 1 .. len
      PROVE  /\ Body(parts[k], h, st[k - 1].old, st[k].old, st[k - 1].new, st[k].new, sided)
             /\ \A i \in DOMAIN parts[k] : ~parts[k][i].head
             /\ st[k - 1].old =< st[k].old /\ st[k - 1].new =< st[k].new
  <2> DEFINE b == bs[k]
             o == st[k - 1].old
             w == st[k - 1].new
  <2>1. b.context \in Nat /\ b.removed \in Nat /\ b.added \in Nat
    BY HunksAre
  <2>2. parts[k] = BlockRows(h, b, o, w, sided)
    BY DEF BlockParts
  <2>3. k - 1 \in 0 .. len
    BY <1>1
  <2>4. o \in Nat /\ w \in Nat
    BY <1>2, <2>3
  <2>5. st[k].old = o + b.context + b.removed /\ st[k].new = w + b.context + b.added
    BY <1>2
  <2> HIDE DEF parts, b, o, w, st
  <2>6. o \in Int /\ w \in Int
    BY <2>4
  <2>7. /\ Body(BlockRows(h, b, o, w, sided), h, o, o + b.context + b.removed, w, w + b.context + b.added, sided)
        /\ \A i \in DOMAIN BlockRows(h, b, o, w, sided) : ~BlockRows(h, b, o, w, sided)[i].head
    BY ONLY <2>1, <2>6, BlockBody, h \in DOMAIN Hunks, sided \in BOOLEAN
  <2>8. o =< st[k].old /\ w =< st[k].new
    BY <2>1, <2>4, <2>5
  <2>9. /\ Body(parts[k], h, o, st[k].old, w, st[k].new, sided)
        /\ \A i \in DOMAIN parts[k] : ~parts[k][i].head
    BY ONLY <2>2, <2>5, <2>7
  <2> QED BY <2>8, <2>9 DEF o, w
<1>4. parts \in Parts(len)
  <2>1. \A k \in 1 .. len : parts[k] \in Seq(DisplayRow)
    BY <1>3 DEF Body
  <2>2. DOMAIN parts = 1 .. len /\ parts = [k \in 1 .. len |-> parts[k]]
    BY DEF BlockParts
  <2> HIDE DEF parts, len
  <2> QED BY <2>1, <2>2 DEF Parts
<1>5. PICK g : Chain(g, len, base, parts) /\ HunkRows(h, sided) = g[len]
  BY <1>4, HunkRowsUnfold
<1>6. EndOf(h) = st[len]
  BY DEF EndOf
<1> HIDE DEF bs, len, base, parts, st, old, new
<1>7. base \in Seq(DisplayRow)
  BY HeaderRowIs DEF base
<1>8. /\ g[0] = base /\ \A k \in 1 .. len : g[k] = g[k - 1] \o parts[k]
      /\ \A k \in 0 .. len : g[k] \in Seq(DisplayRow)
  <2>1. Chain(g, len, base, parts)
    BY <1>5
  <2>2. Grown(g, len, base, parts)
    BY ONLY <1>1, <1>4, <2>1, <1>7, ChainGrows
  <2> QED BY ONLY <2>2 DEF Grown
<1> DEFINE Fine(k) == /\ Body(g[k], h, old, st[k].old, new, st[k].new, sided) /\ HeadFirst(g[k])
                      /\ old =< st[k].old /\ new =< st[k].new
           G == {k \in 0 .. len : Fine(k)}
<1>9. 0 \in G
  <2>1. Body(base, h, old, old, new, new, sided) /\ HeadFirst(base)
    BY <1>1, HeaderBody DEF base
  <2>2. Fine(0)
    BY <1>1, <1>2, <1>8, <2>1
  <2> HIDE DEF Fine
  <2> QED BY <1>1, <2>2
<1>10. ASSUME NEW k \in 1 .. len, k - 1 \in G PROVE k \in G
  <2> DEFINE p == g[k - 1]
             q == parts[k]
             o == st[k - 1].old
             w == st[k - 1].new
             oo == st[k].old
             ww == st[k].new
  <2>0. k - 1 \in 0 .. len /\ k \in 0 .. len
    BY <1>1
  <2>1. /\ Body(p, h, old, o, new, w, sided) /\ HeadFirst(p) /\ old =< o /\ new =< w
        /\ Body(q, h, o, oo, w, ww, sided) /\ o =< oo /\ w =< ww /\ \A i \in DOMAIN q : ~q[i].head
    BY <1>3, <1>10
  <2>2. o \in Nat /\ w \in Nat /\ oo \in Nat /\ ww \in Nat
    BY <1>2, <2>0
  <2>3. g[k] = p \o q
    BY <1>8
  <2> HIDE DEF p, q, o, w, oo, ww
  <2>4. /\ o \in Int /\ w \in Int /\ oo \in Int /\ ww \in Int /\ old \in Int /\ new \in Int
        /\ old =< oo /\ new =< ww
    BY <1>1, <2>1, <2>2
  <2>5. Body(p \o q, h, old, oo, new, ww, sided)
    BY ONLY <2>1, <2>4, BodiesJoin
  <2>6. p \in Seq(DisplayRow) /\ q \in Seq(DisplayRow)
    BY <2>1 DEF Body
  <2>7. HeadFirst(p \o q)
    BY ONLY <2>1, <2>6, HeadStaysFirst
  <2>8. Body(g[k], h, old, oo, new, ww, sided) /\ HeadFirst(g[k])
    BY ONLY <2>3, <2>5, <2>7
  <2>9. Fine(k)
    BY <2>4, <2>8 DEF oo, ww
  <2> HIDE DEF Fine
  <2> QED BY <2>0, <2>9
<1>11. 0 .. len \subseteq G
  <2> HIDE DEF G
  <2> QED BY <1>1, <1>9, <1>10, UpToAll
<1>12. len \in 0 .. len
  BY <1>1
<1>13. Fine(len)
  BY <1>11, <1>12
<1>14. st[len].old \in Nat /\ st[len].new \in Nat
  BY <1>2, <1>12
<1> QED BY <1>5, <1>6, <1>13, <1>14 DEF old, new

HunkParts(sided) == [h \in 1 .. Len(Hunks) |-> HunkRows(h, sided)]

\* The rows of a file are a chain of its hunks.
LEMMA PresentationUnfold ==
  ASSUME NEW sided \in BOOLEAN, HunkParts(sided) \in Parts(Len(Hunks))
  PROVE  \E g : /\ Chain(g, Len(Hunks), <<>>, HunkParts(sided))
                /\ Presentation(sided) = g[Len(Hunks)]
<1> DEFINE len == Len(Hunks)
           Next(g) == [h \in 0 .. len |-> IF h = 0 THEN <<>> ELSE g[h - 1] \o HunkRows(h, sided)]
           rows == CHOOSE g : g = Next(g)
<1>1. Presentation(sided) = rows[len]
  BY DEF Presentation
<1>2. len \in Nat
  BY HunksAre
<1>3. <<>> \in Seq(DisplayRow)
  OBVIOUS
<1>4. \A g : Chain(g, len, <<>>, HunkParts(sided)) <=> g = Next(g)
  <2>1. \A n \in 0 .. len : n # 0 => n \in 1 .. len
    BY <1>2
  <2>2. \A n \in 1 .. len : HunkParts(sided)[n] = HunkRows(n, sided)
    BY DEF HunkParts
  <2>3. ASSUME NEW g
        PROVE  [k \in 0 .. len |-> IF k = 0 THEN <<>> ELSE g[k - 1] \o HunkParts(sided)[k]] = Next(g)
    BY <2>1, <2>2
  <2> HIDE DEF Next, len
  <2> QED BY <2>3 DEF Chain
<1>5. \E g : Chain(g, len, <<>>, HunkParts(sided))
  <2>1. HunkParts(sided) \in Parts(len)
    OBVIOUS
  <2> HIDE DEF len
  <2> QED BY <1>2, <1>3, <2>1, ChainExists
<1> HIDE DEF Next, len
<1>6. \E g : g = Next(g)
  BY <1>4, <1>5
<1>7. rows = Next(rows)
  BY <1>6
<1>8. Chain(rows, len, <<>>, HunkParts(sided))
  BY <1>4, <1>7
<1> HIDE DEF rows
<1> QED BY <1>1, <1>8 DEF len

\* Every row is one of a part's, and the parts follow each other.
Placed(rows, m, parts, at) ==
  /\ \A h \in 1 .. m : \A j \in 1 .. Len(parts[h]) :
       at[h] + j \in 1 .. Len(rows) /\ rows[at[h] + j] = parts[h][j]
  /\ \A i \in 1 .. Len(rows) : \E h \in 1 .. m : i - at[h] \in 1 .. Len(parts[h])
  /\ \A a, b \in 1 .. m + 1 : a < b => at[a] < at[b]

\* In a chain every part has its place.
LEMMA ChainPlaces ==
  ASSUME NEW n \in Nat, NEW parts \in Parts(n), NEW g, Grown(g, n, <<>>, parts),
         \A h \in 1 .. n : Len(parts[h]) >= 1
  PROVE  \E at : /\ at \in [1 .. n + 1 -> Nat] /\ at[n + 1] = Len(g[n])
                 /\ \A h \in 1 .. n : at[h + 1] = at[h] + Len(parts[h])
                 /\ Placed(g[n], n, parts, at)
<1> DEFINE at == [h \in 1 .. n + 1 |-> Len(g[h - 1])]
<1>1. /\ g[0] = <<>> /\ \A k \in 1 .. n : g[k] = g[k - 1] \o parts[k] /\ parts[k] \in Seq(DisplayRow)
      /\ \A k \in 0 .. n : g[k] \in Seq(DisplayRow)
  BY DEF Grown, Parts
<1>2. \A k \in 0 .. n : Len(g[k]) \in Nat
  BY <1>1
<1>3. at \in [1 .. n + 1 -> Nat] /\ \A k \in 0 .. n : at[k + 1] = Len(g[k])
  <2>1. \A h \in 1 .. n + 1 : h - 1 \in 0 .. n
    OBVIOUS
  <2>2. \A k \in 0 .. n : k + 1 \in 1 .. n + 1 /\ (k + 1) - 1 = k
    OBVIOUS
  <2> QED BY <1>2, <2>1, <2>2
<1> HIDE DEF at
<1>4. ASSUME NEW h \in 1 .. n
      PROVE  /\ Len(parts[h]) \in Nat /\ Len(parts[h]) >= 1
             /\ at[h] = Len(g[h - 1]) /\ at[h] \in Nat
             /\ at[h + 1] = Len(g[h]) /\ at[h + 1] = at[h] + Len(parts[h])
  <2>1. h - 1 \in 0 .. n /\ h \in 0 .. n /\ (h - 1) + 1 = h
    OBVIOUS
  <2>2. at[h] = Len(g[h - 1]) /\ at[h + 1] = Len(g[h])
    BY <1>3, <2>1
  <2>3. Len(parts[h]) \in Nat /\ Len(g[h - 1] \o parts[h]) = Len(g[h - 1]) + Len(parts[h])
    BY <1>1, <2>1
  <2> QED BY <1>1, <1>2, <2>1, <2>2, <2>3
<1> DEFINE G == {m \in 0 .. n : Placed(g[m], m, parts, at)}
<1>5. 0 \in G
  BY <1>1 DEF Placed
<1>6. ASSUME NEW m \in 1 .. n, m - 1 \in G PROVE m \in G
  <2> DEFINE p == g[m - 1]
             q == parts[m]
             r == g[m]
  <2>0. m - 1 \in 0 .. n /\ m \in 0 .. n
    OBVIOUS
  <2>1. Placed(p, m - 1, parts, at)
    BY <1>6
  <2>2. r = p \o q /\ p \in Seq(DisplayRow) /\ q \in Seq(DisplayRow)
    BY <1>1, <2>0
  <2>3. at[m] = Len(p) /\ at[m] \in Nat /\ at[m + 1] = at[m] + Len(q) /\ Len(q) \in Nat /\ Len(q) >= 1
    BY <1>4
  <2> HIDE DEF p, q, r, G
  <2>4. /\ Len(r) = Len(p) + Len(q) /\ \A i \in 1 .. Len(p) : r[i] = p[i]
        /\ \A j \in 1 .. Len(q) : r[Len(p) + j] = q[j]
    BY ONLY <2>2
  <2>5. ASSUME NEW h \in 1 .. m, NEW j \in 1 .. Len(parts[h])
        PROVE  at[h] + j \in 1 .. Len(r) /\ r[at[h] + j] = parts[h][j]
    <3>1. CASE h = m
      <4>1. j \in 1 .. Len(q)
        BY <3>1 DEF q
      <4>2. r[at[m] + j] = q[j]
        BY <2>3, <2>4, <4>1
      <4>3. at[m] + j \in 1 .. Len(r)
        BY <2>3, <2>4, <4>1
      <4> QED BY <3>1, <4>2, <4>3 DEF q
    <3>2. CASE h # m
      <4>1. h \in 1 .. m - 1
        BY <3>2
      <4>2. at[h] + j \in 1 .. Len(p) /\ p[at[h] + j] = parts[h][j]
        BY <2>1, <4>1 DEF Placed
      <4>3. at[h] + j \in 1 .. Len(r)
        BY <2>3, <2>4, <4>2
      <4> QED BY <2>4, <4>2, <4>3
    <3> QED BY <3>1, <3>2
  <2>6. ASSUME NEW i \in 1 .. Len(r)
        PROVE  \E h \in 1 .. m : i - at[h] \in 1 .. Len(parts[h])
    <3>1. CASE i =< Len(p)
      <4>1. i \in 1 .. Len(p)
        BY <2>3, <2>4, <3>1
      <4>2. PICK h \in 1 .. m - 1 : i - at[h] \in 1 .. Len(parts[h])
        BY <2>1, <4>1 DEF Placed
      <4>3. h \in 1 .. m
        OBVIOUS
      <4> QED BY <4>2, <4>3
    <3>2. CASE i > Len(p)
      <4>1. i - at[m] \in 1 .. Len(q)
        BY <2>3, <2>4, <3>2
      <4>2. m \in 1 .. m
        OBVIOUS
      <4> QED BY <4>1, <4>2 DEF q
    <3> QED BY <2>3, <3>1, <3>2
  <2>7. ASSUME NEW a \in 1 .. m + 1, NEW b \in 1 .. m + 1, a < b
        PROVE  at[a] < at[b]
    <3>0. \A x \in 1 .. m + 1 : at[x] \in Nat
      BY <1>3
    <3>1. CASE b =< m
      <4>1. a \in 1 .. (m - 1) + 1 /\ b \in 1 .. (m - 1) + 1
        BY <2>7, <3>1
      <4> QED BY <2>1, <2>7, <4>1 DEF Placed
    <3>2. CASE b = m + 1 /\ a = m
      BY <2>3, <3>2
    <3>3. CASE b = m + 1 /\ a < m
      <4>1. a \in 1 .. (m - 1) + 1 /\ m \in 1 .. (m - 1) + 1
        BY <3>3
      <4>2. at[a] < at[m]
        BY <2>1, <3>3, <4>1 DEF Placed
      <4>3. at[m] < at[m + 1]
        BY <2>3
      <4>4. at[a] \in Nat /\ at[m] \in Nat /\ at[m + 1] \in Nat
        BY <3>0, <2>3
      <4> QED BY <3>3, <4>2, <4>3, <4>4
    <3>4. b =< m \/ (b = m + 1 /\ (a = m \/ a < m))
      BY <2>7
    <3> QED BY <3>1, <3>2, <3>3, <3>4
  <2>8. Placed(r, m, parts, at)
    BY <2>5, <2>6, <2>7 DEF Placed
  <2> QED BY <2>0, <2>8 DEF G, r
<1>7. 0 .. n \subseteq G
  <2> HIDE DEF G
  <2> QED BY <1>5, <1>6, UpToAll
<1>8. Placed(g[n], n, parts, at)
  BY <1>7
<1>9. at[n + 1] = Len(g[n])
  BY <1>3
<1>10. \A h \in 1 .. n : at[h + 1] = at[h] + Len(parts[h])
  BY <1>4
<1> QED BY <1>3, <1>8, <1>9, <1>10

\* The rows before anything was fetched: hunk after hunk, each with all its lines.
LEMMA PresentationIs ==
  ASSUME NEW sided \in BOOLEAN
  PROVE  LET P == Presentation(sided)
         IN  /\ \E first : LaidOut(P, first)
             /\ sided => \A i \in DOMAIN P : P[i].left = P[i].old
             /\ \A h \in DOMAIN Hunks : /\ Runs(P, h, Rights(P), Hunks[h].new, EndOf(h).new)
                                        /\ Runs(P, h, Olds(P), Hunks[h].old, EndOf(h).old)
<1> DEFINE P == Presentation(sided)
           len == Len(Hunks)
           parts == HunkParts(sided)
<1>1. len \in Nat /\ len >= 1 /\ DOMAIN Hunks = 1 .. len
  BY HunksAre
<1>2. ASSUME NEW h \in 1 .. len
      PROVE  /\ parts[h] \in Seq(DisplayRow) /\ HeadFirst(parts[h])
             /\ Body(parts[h], h, Hunks[h].old, EndOf(h).old, Hunks[h].new, EndOf(h).new, sided)
  <2>1. h \in DOMAIN Hunks /\ parts[h] = HunkRows(h, sided)
    BY <1>1 DEF HunkParts
  <2>2. /\ HeadFirst(HunkRows(h, sided))
        /\ Body(HunkRows(h, sided), h, Hunks[h].old, EndOf(h).old, Hunks[h].new, EndOf(h).new, sided)
    BY <2>1, HunkBody
  <2> HIDE DEF parts
  <2>3. /\ HeadFirst(parts[h])
        /\ Body(parts[h], h, Hunks[h].old, EndOf(h).old, Hunks[h].new, EndOf(h).new, sided)
    BY ONLY <2>1, <2>2
  <2> QED BY <2>3 DEF Body
<1>3. parts \in Parts(len)
  <2>1. DOMAIN parts = 1 .. len /\ parts = [h \in 1 .. len |-> parts[h]]
    BY DEF HunkParts
  <2> HIDE DEF parts, len
  <2> QED BY <1>2, <2>1 DEF Parts
<1>4. PICK g : Chain(g, len, <<>>, parts) /\ P = g[len]
  BY <1>3, PresentationUnfold
<1> HIDE DEF P, parts, len
<1>5. Grown(g, len, <<>>, parts)
  <2>1. <<>> \in Seq(DisplayRow)
    OBVIOUS
  <2> QED BY ONLY <1>1, <1>3, <1>4, <2>1, ChainGrows
<1>6. \A h \in 1 .. len : Len(parts[h]) >= 1
  BY <1>2 DEF HeadFirst
<1>7. PICK at : /\ at \in [1 .. len + 1 -> Nat] /\ at[len + 1] = Len(g[len])
                /\ \A h \in 1 .. len : at[h + 1] = at[h] + Len(parts[h])
                /\ Placed(g[len], len, parts, at)
  BY ONLY <1>1, <1>3, <1>5, <1>6, ChainPlaces
<1>8. P \in Seq(DisplayRow)
  BY <1>1, <1>4, <1>5 DEF Grown
<1>9. Len(P) \in Nat /\ DOMAIN P = 1 .. Len(P) /\ at[len + 1] = Len(P) /\ Placed(P, len, parts, at)
  BY <1>4, <1>7, <1>8
<1>10. \A h \in 1 .. len : /\ Len(parts[h]) \in Nat /\ DOMAIN parts[h] = 1 .. Len(parts[h])
                           /\ at[h] \in Nat /\ at[h + 1] = at[h] + Len(parts[h])
  <2>1. \A h \in 1 .. len : h \in 1 .. len + 1
    BY <1>1
  <2>2. \A h \in 1 .. len : at[h] \in Nat /\ at[h + 1] = at[h] + Len(parts[h])
    BY <1>7, <2>1
  <2>3. \A h \in 1 .. len : Len(parts[h]) \in Nat /\ DOMAIN parts[h] = 1 .. Len(parts[h])
    BY <1>2
  <2> QED BY ONLY <2>2, <2>3
\* Row i is row j of hunk h.
<1>11. ASSUME NEW i \in DOMAIN P
       PROVE  \E h \in 1 .. len : \E j \in 1 .. Len(parts[h]) :
                i = at[h] + j /\ P[i] = parts[h][j] /\ P[i].hunk = h
  <2>1. PICK h \in 1 .. len : i - at[h] \in 1 .. Len(parts[h])
    BY <1>9 DEF Placed
  <2> DEFINE j == i - at[h]
  <2>2. j \in 1 .. Len(parts[h]) /\ i = at[h] + j
    BY <1>9, <1>10, <2>1
  <2> HIDE DEF j
  <2>3. P[i] = parts[h][j]
    BY <1>9, <2>2 DEF Placed
  <2>4. parts[h][j].hunk = h
    BY <1>2, <1>10, <2>2 DEF Body
  <2> QED BY <2>2, <2>3, <2>4
<1> DEFINE first == [h \in 1 .. len + 1 |-> at[h] + 1]
<1>12. LaidOut(P, first)
  <2>1. \A h \in 1 .. len + 1 : first[h] = at[h] + 1 /\ at[h] \in Nat
    BY <1>7
  <2>2. first[len + 1] = Len(P) + 1
    BY <1>1, <1>9, <2>1
  <2> HIDE DEF first
  <2>3. \A a, b \in 1 .. len + 1 : a < b => first[a] < first[b]
    BY <1>9, <2>1 DEF Placed
  <2>4. ASSUME NEW h \in 1 .. len
        PROVE  first[h] \in DOMAIN P /\ P[first[h]].head /\ P[first[h]].hunk = h
    <3>1. Len(parts[h]) >= 1 /\ parts[h][1].head
      BY <1>2 DEF HeadFirst
    <3>2. 1 \in 1 .. Len(parts[h]) /\ h \in 1 .. len + 1
      BY <1>1, <1>10, <3>1
    <3>3. at[h] + 1 \in 1 .. Len(P) /\ P[at[h] + 1] = parts[h][1]
      BY <1>9, <3>2 DEF Placed
    <3>4. parts[h][1].hunk = h
      BY <1>2, <1>10, <3>2 DEF Body
    <3> QED BY <1>9, <2>1, <3>1, <3>2, <3>3, <3>4
  <2>5. ASSUME NEW i \in DOMAIN P
        PROVE  /\ first[P[i].hunk] =< i /\ i < first[P[i].hunk + 1]
               /\ P[i].head => i = first[P[i].hunk] /\ P[i].right = 0 /\ P[i].old = 0
    <3>0. PICK h \in 1 .. len : \E j \in 1 .. Len(parts[h]) :
                                 i = at[h] + j /\ P[i] = parts[h][j] /\ P[i].hunk = h
      BY <1>11
    <3>1. PICK j \in 1 .. Len(parts[h]) : i = at[h] + j /\ P[i] = parts[h][j] /\ P[i].hunk = h
      BY <3>0
    <3>2. h \in 1 .. len + 1 /\ h + 1 \in 1 .. len + 1
      BY <1>1
    <3>3. first[h] = at[h] + 1 /\ first[h + 1] = at[h] + Len(parts[h]) + 1
      BY <1>10, <2>1, <3>2
    <3>4. first[h] =< i /\ i < first[h + 1]
      BY <1>10, <3>1, <3>3
    <3>5. P[i].head => j = 1 /\ P[i].right = 0 /\ P[i].old = 0
      BY <1>2, <1>10, <3>1 DEF HeadFirst
    <3>6. P[i].head => i = first[h]
      BY <1>10, <3>1, <3>3, <3>5
    <3> QED BY <3>1, <3>4, <3>5, <3>6
  <2> QED BY <1>1, <1>8, <2>2, <2>3, <2>4, <2>5 DEF LaidOut, len
<1>13. ASSUME sided, NEW i \in DOMAIN P PROVE P[i].left = P[i].old
  <2>0. PICK h \in 1 .. len : \E j \in 1 .. Len(parts[h]) : P[i] = parts[h][j]
    BY <1>11
  <2>1. PICK j \in 1 .. Len(parts[h]) : P[i] = parts[h][j]
    BY <2>0
  <2> QED BY <1>2, <1>10, <1>13, <2>1 DEF Body
<1>14. ASSUME NEW h \in 1 .. len, NEW q, NEW r, NEW from \in Int, NEW to \in Int, Numbered(r, from, to),
              DOMAIN r = 1 .. Len(parts[h]), \A j \in 1 .. Len(parts[h]) : q[at[h] + j] = r[j]
       PROVE  Runs(P, h, q, from, to)
  <2>1. ASSUME NEW i \in DOMAIN P, P[i].hunk = h
        PROVE  \E j \in 1 .. Len(parts[h]) : i = at[h] + j /\ q[i] = r[j]
    BY <1>11, <1>14, <2>1
  <2>2. ASSUME NEW i \in DOMAIN P, P[i].hunk = h, q[i] > 0
        PROVE  from =< q[i] /\ q[i] < to
    <3>1. PICK j \in 1 .. Len(parts[h]) : i = at[h] + j /\ q[i] = r[j]
      BY <2>1, <2>2
    <3> QED BY <1>14, <2>2, <3>1 DEF Numbered
  <2>3. ASSUME NEW i \in DOMAIN P, NEW k \in DOMAIN P, i < k, P[i].hunk = h, P[k].hunk = h,
               q[i] > 0, q[k] > 0
        PROVE  q[i] < q[k]
    <3>1. PICK j \in 1 .. Len(parts[h]) : i = at[h] + j /\ q[i] = r[j]
      BY <2>1, <2>3
    <3>2. PICK l \in 1 .. Len(parts[h]) : k = at[h] + l /\ q[k] = r[l]
      BY <2>1, <2>3
    <3>3. j < l
      BY <1>10, <2>3, <3>1, <3>2
    <3> QED BY <1>14, <2>3, <3>1, <3>2, <3>3 DEF Numbered
  <2>4. ASSUME NEW n \in from .. to - 1, n > 0
        PROVE  \E i \in DOMAIN P : P[i].hunk = h /\ q[i] = n
    <3>1. PICK j \in 1 .. Len(parts[h]) : r[j] = n
      BY <1>14, <2>4 DEF Numbered
    <3>2. at[h] + j \in DOMAIN P /\ P[at[h] + j] = parts[h][j]
      BY <1>9 DEF Placed
    <3>3. parts[h][j].hunk = h
      BY <1>2, <1>10 DEF Body
    <3> QED BY <1>14, <3>1, <3>2, <3>3
  <2> QED BY <2>2, <2>3, <2>4 DEF Runs
<1>15. ASSUME NEW h \in 1 .. len
       PROVE  /\ Runs(P, h, Rights(P), Hunks[h].new, EndOf(h).new)
              /\ Runs(P, h, Olds(P), Hunks[h].old, EndOf(h).old)
  <2>1. /\ Numbered(Olds(parts[h]), Hunks[h].old, EndOf(h).old)
        /\ Numbered(Rights(parts[h]), Hunks[h].new, EndOf(h).new)
    BY <1>2 DEF Body
  <2>2. \A j \in 1 .. Len(parts[h]) : at[h] + j \in DOMAIN P /\ P[at[h] + j] = parts[h][j]
    BY <1>9 DEF Placed
  <2>3. \A j \in 1 .. Len(parts[h]) : /\ Rights(P)[at[h] + j] = Rights(parts[h])[j]
                                      /\ Olds(P)[at[h] + j] = Olds(parts[h])[j]
    BY <1>10, <2>2 DEF Rights, Olds
  <2>4. DOMAIN Rights(parts[h]) = 1 .. Len(parts[h]) /\ DOMAIN Olds(parts[h]) = 1 .. Len(parts[h])
    BY <1>10 DEF Rights, Olds
  <2>5. Hunks[h].old \in Int /\ Hunks[h].new \in Int /\ EndOf(h).old \in Int /\ EndOf(h).new \in Int
    <3>1. h \in DOMAIN Hunks
      BY <1>1
    <3>2. Hunks[h].old \in Nat /\ Hunks[h].new \in Nat
      BY <3>1, HunksAre
    <3>3. EndOf(h).old \in Nat /\ EndOf(h).new \in Nat
      BY <3>1, HunkBody
    <3> QED BY <3>2, <3>3
  <2>6. Runs(P, h, Rights(P), Hunks[h].new, EndOf(h).new)
    BY <1>14, <2>1, <2>3, <2>4, <2>5
  <2>7. Runs(P, h, Olds(P), Hunks[h].old, EndOf(h).old)
    BY <1>14, <2>1, <2>3, <2>4, <2>5
  <2> QED BY <2>6, <2>7
<1>16. \E f : LaidOut(P, f)
  BY <1>12
<1> QED BY <1>1, <1>13, <1>15, <1>16 DEF P

-----------------------------------------------------------------------------
(* Where a hunk begins, and what inserting lines changes.                  *)

\* The header that is looked up is where the hunk begins.
LEMMA HeaderIs ==
  ASSUME NEW rows, NEW first, LaidOut(rows, first), NEW h \in DOMAIN Hunks
  PROVE  (CHOOSE i \in DOMAIN rows : rows[i].head /\ rows[i].hunk = h) = first[h]
<1>1. first[h] \in DOMAIN rows /\ rows[first[h]].head /\ rows[first[h]].hunk = h
  BY DEF LaidOut
<1>2. \A i \in DOMAIN rows : rows[i].head /\ rows[i].hunk = h => i = first[h]
  BY DEF LaidOut
<1> QED BY ONLY <1>1, <1>2

HeadersOf(rows) ==
  [h \in 1 .. Len(Hunks) + 1 |->
     IF h =< Len(Hunks) THEN CHOOSE i \in DOMAIN rows : rows[i].head /\ rows[i].hunk = h ELSE Len(rows) + 1]

\* Rows that are laid out at all are laid out by their headers.
LEMMA LaidOutByHeaders ==
  ASSUME NEW rows, NEW first, LaidOut(rows, first)
  PROVE  LaidOut(rows, HeadersOf(rows)) /\ \A h \in 1 .. Len(Hunks) + 1 : HeadersOf(rows)[h] = first[h]
<1> DEFINE len == Len(Hunks)
           s == HeadersOf(rows)
<1>1. len \in Nat /\ DOMAIN Hunks = 1 .. len
  BY HunksAre
<1>2. ASSUME NEW h \in 1 .. len + 1 PROVE s[h] = first[h]
  <2>1. CASE h =< len
    <3>1. h \in DOMAIN Hunks
      BY <1>1, <2>1
    <3>2. s[h] = CHOOSE i \in DOMAIN rows : rows[i].head /\ rows[i].hunk = h
      BY <2>1 DEF HeadersOf
    <3> QED BY <3>1, <3>2, HeaderIs
  <2>2. CASE ~(h =< len)
    <3>1. h = len + 1 /\ s[h] = Len(rows) + 1
      BY <1>1, <2>2 DEF HeadersOf
    <3> QED BY <3>1 DEF LaidOut
  <2> QED BY <2>1, <2>2
<1> HIDE DEF s
<1>3. \A i \in DOMAIN rows : rows[i].hunk \in 1 .. len + 1 /\ rows[i].hunk + 1 \in 1 .. len + 1
  <2>1. \A i \in DOMAIN rows : rows[i] \in DisplayRow
    BY DEF LaidOut
  <2>2. \A i \in DOMAIN rows : rows[i].hunk \in 1 .. len
    BY <1>1, <2>1, RowParts
  <2> HIDE DEF len
  <2> QED BY <1>1, <2>2
<1>4. \A h \in DOMAIN Hunks : h \in 1 .. len + 1
  BY <1>1
<1>5. len + 1 \in 1 .. len + 1
  BY <1>1
<1>6. LaidOut(rows, s)
  <2>1. rows \in Seq(DisplayRow) /\ s[len + 1] = Len(rows) + 1
    BY <1>2, <1>5 DEF LaidOut
  <2>2. \A g, h \in 1 .. len + 1 : g < h => s[g] < s[h]
    BY <1>2 DEF LaidOut
  <2>3. \A h \in DOMAIN Hunks : s[h] \in DOMAIN rows /\ rows[s[h]].head /\ rows[s[h]].hunk = h
    BY <1>2, <1>4 DEF LaidOut
  <2>4. ASSUME NEW i \in DOMAIN rows
        PROVE  /\ s[rows[i].hunk] =< i /\ i < s[rows[i].hunk + 1]
               /\ rows[i].head => i = s[rows[i].hunk] /\ rows[i].right = 0 /\ rows[i].old = 0
    <3>1. s[rows[i].hunk] = first[rows[i].hunk] /\ s[rows[i].hunk + 1] = first[rows[i].hunk + 1]
      BY <1>2, <1>3
    <3> QED BY <3>1 DEF LaidOut
  <2> QED BY <2>1, <2>2, <2>3, <2>4 DEF LaidOut
<1> QED BY <1>2, <1>6 DEF s

\* Lines have been put before row p, and nothing else changed.
Woven(out, rows, lines, p) ==
  /\ out \in Seq(DisplayRow) /\ Len(out) = Len(rows) + Len(lines)
  /\ \A i \in 1 .. Len(rows) : i < p => out[i] = rows[i]
  /\ \A i \in 1 .. Len(rows) : i >= p => out[i + Len(lines)] = rows[i]
  /\ \A j \in 1 .. Len(lines) : out[p - 1 + j] = lines[j]

\* Rows that are joined stay what they are.
LEMMA RowsJoin ==
  ASSUME NEW s \in Seq(DisplayRow), NEW t \in Seq(DisplayRow)
  PROVE  /\ s \o t \in Seq(DisplayRow) /\ Len(s \o t) = Len(s) + Len(t)
         /\ \A i \in 1 .. Len(s) : (s \o t)[i] = s[i]
         /\ \A i \in 1 .. Len(t) : (s \o t)[Len(s) + i] = t[i]
OBVIOUS

\* Cutting the rows at p and putting lines between the parts does that.
LEMMA InsertedIsWoven ==
  ASSUME NEW rows \in Seq(DisplayRow), NEW lines \in Seq(DisplayRow), NEW p \in 1 .. Len(rows) + 1
  PROVE  Woven(SubSeq(rows, 1, p - 1) \o lines \o SubSeq(rows, p, Len(rows)), rows, lines, p)
<1> DEFINE a == SubSeq(rows, 1, p - 1)
           c == SubSeq(rows, p, Len(rows))
           ab == a \o lines
<1>0. Len(rows) \in Nat /\ Len(lines) \in Nat
  OBVIOUS
<1>1. a \in Seq(DisplayRow) /\ Len(a) = p - 1 /\ \A i \in 1 .. p - 1 : a[i] = rows[i]
  <2>1. p - 1 \in 0 .. Len(rows)
    BY <1>0
  <2> QED BY <2>1, SubSeqProperties
<1>2. c \in Seq(DisplayRow) /\ Len(c) = Len(rows) - p + 1 /\ \A i \in 1 .. Len(rows) - p + 1 : c[i] = rows[p - 1 + i]
  <2>1. \A i \in 1 .. Len(rows) - p + 1 : p - 1 + i = p + i - 1
    BY <1>0
  <2>2. c \in Seq(DisplayRow) /\ Len(c) = Len(rows) - p + 1
    BY <1>0
  <2>3. \A i \in 1 .. Len(rows) - p + 1 : c[i] = rows[p + i - 1]
    BY <1>0
  <2> HIDE DEF c
  <2> QED BY ONLY <2>1, <2>2, <2>3
<1> HIDE DEF a, c
<1>3. /\ ab \in Seq(DisplayRow) /\ Len(ab) = p - 1 + Len(lines)
      /\ \A i \in 1 .. p - 1 : ab[i] = a[i]
      /\ \A j \in 1 .. Len(lines) : ab[p - 1 + j] = lines[j]
  <2>1. a \in Seq(DisplayRow) /\ lines \in Seq(DisplayRow) /\ Len(a) = p - 1
    BY <1>1
  <2>2. /\ ab \in Seq(DisplayRow) /\ Len(ab) = Len(a) + Len(lines)
        /\ \A i \in 1 .. Len(a) : ab[i] = a[i]
        /\ \A j \in 1 .. Len(lines) : ab[Len(a) + j] = lines[j]
    BY ONLY <2>1, RowsJoin
  <2> QED BY ONLY <2>1, <2>2
<1> HIDE DEF ab
<1> DEFINE out == ab \o c
<1>4. /\ out \in Seq(DisplayRow) /\ Len(out) = Len(ab) + Len(c)
      /\ \A i \in 1 .. Len(ab) : out[i] = ab[i]
      /\ \A i \in 1 .. Len(c) : out[Len(ab) + i] = c[i]
  <2>1. ab \in Seq(DisplayRow) /\ c \in Seq(DisplayRow)
    BY <1>2, <1>3
  <2> QED BY ONLY <2>1, RowsJoin
<1> HIDE DEF out
<1>5. Len(out) = Len(rows) + Len(lines)
  BY <1>0, <1>2, <1>3, <1>4
<1>6. ASSUME NEW i \in 1 .. Len(rows), i < p PROVE out[i] = rows[i]
  <2>1. i \in 1 .. p - 1 /\ i \in 1 .. Len(ab)
    BY <1>0, <1>3, <1>6
  <2> QED BY <1>1, <1>3, <1>4, <2>1
<1>7. ASSUME NEW i \in 1 .. Len(rows), i >= p PROVE out[i + Len(lines)] = rows[i]
  <2> DEFINE k == i - p + 1
  <2>1. k \in 1 .. Len(rows) - p + 1 /\ p - 1 + k = i /\ Len(ab) + k = i + Len(lines)
    BY <1>0, <1>3, <1>7
  <2> HIDE DEF k
  <2>2. k \in 1 .. Len(c)
    BY <1>2, <2>1
  <2>3. out[Len(ab) + k] = c[k] /\ c[k] = rows[p - 1 + k]
    BY <1>2, <1>4, <2>1, <2>2
  <2> QED BY <2>1, <2>3
<1>8. ASSUME NEW j \in 1 .. Len(lines) PROVE out[p - 1 + j] = lines[j]
  <2>1. p - 1 + j \in 1 .. Len(ab)
    BY <1>0, <1>3
  <2> QED BY <1>3, <1>4, <2>1
<1> QED BY <1>4, <1>5, <1>6, <1>7, <1>8 DEF Woven, out, ab, a, c

\* Every row after the insertion was there before or is one of the lines.
LEMMA WovenFrom ==
  ASSUME NEW out, NEW rows \in Seq(DisplayRow), NEW lines \in Seq(DisplayRow), NEW p \in 1 .. Len(rows) + 1,
         Woven(out, rows, lines, p), NEW n \in 1 .. Len(out)
  PROVE  \/ \E i \in 1 .. Len(rows) : i < p /\ n = i /\ out[n] = rows[i]
         \/ \E i \in 1 .. Len(rows) : i >= p /\ n = i + Len(lines) /\ out[n] = rows[i]
         \/ \E j \in 1 .. Len(lines) : n = p - 1 + j /\ out[n] = lines[j]
<1>0. Len(rows) \in Nat /\ Len(lines) \in Nat /\ Len(out) = Len(rows) + Len(lines)
  BY DEF Woven
<1>1. CASE n < p
  <2>1. n \in 1 .. Len(rows)
    BY <1>0, <1>1
  <2> QED BY <1>1, <2>1 DEF Woven
<1>2. CASE p =< n /\ n < p + Len(lines)
  <2> DEFINE j == n - p + 1
  <2>1. j \in 1 .. Len(lines) /\ n = p - 1 + j
    BY <1>0, <1>2
  <2> HIDE DEF j
  <2> QED BY <2>1 DEF Woven
<1>3. CASE n >= p + Len(lines)
  <2> DEFINE i == n - Len(lines)
  <2>1. i \in 1 .. Len(rows) /\ i >= p /\ n = i + Len(lines)
    BY <1>0, <1>3
  <2> HIDE DEF i
  <2> QED BY <2>1 DEF Woven
<1> QED BY <1>0, <1>1, <1>2, <1>3

\* Lines of hunk h under its header or before the next one leave the layout.
LEMMA WovenIsLaidOut ==
  ASSUME NEW rows, NEW first, LaidOut(rows, first), NEW h \in DOMAIN Hunks, NEW lines \in Seq(DisplayRow),
         \A j \in 1 .. Len(lines) : lines[j].hunk = h /\ ~lines[j].head,
         NEW p, p = first[h] + 1 \/ p = first[h + 1], NEW out, Woven(out, rows, lines, p)
  PROVE  \E f : LaidOut(out, f)
<1> DEFINE len == Len(Hunks)
           c == Len(lines)
           f == [k \in 1 .. len + 1 |-> IF k =< h THEN first[k] ELSE first[k] + c]
<1>1. len \in Nat /\ DOMAIN Hunks = 1 .. len /\ c \in Nat /\ h \in 1 .. len
  BY HunksAre
<1>2. rows \in Seq(DisplayRow) /\ Len(rows) \in Nat /\ DOMAIN rows = 1 .. Len(rows)
  BY DEF LaidOut
<1>3. first[len + 1] = Len(rows) + 1 /\ \A k \in 1 .. len : first[k] \in 1 .. Len(rows)
  BY <1>1, <1>2 DEF LaidOut
<1>4. \A k \in 1 .. len + 1 : first[k] \in Nat /\ first[k] >= 1 /\ first[k] =< Len(rows) + 1
  <2>1. \A k \in 1 .. len + 1 : k \in 1 .. len \/ k = len + 1
    BY <1>1
  <2> QED BY <1>2, <1>3, <2>1
<1>5. \A a, b \in 1 .. len + 1 : a < b => first[a] < first[b]
  BY DEF LaidOut
<1>6. h \in 1 .. len + 1 /\ h + 1 \in 1 .. len + 1 /\ len + 1 \in 1 .. len + 1
  BY <1>1
<1>7. first[h] < p /\ p =< first[h + 1] /\ p \in 1 .. Len(rows) + 1
  <2>1. first[h] < first[h + 1]
    BY <1>1, <1>5, <1>6
  <2>2. first[h] \in Nat /\ first[h + 1] \in Nat /\ first[h] >= 1 /\ first[h + 1] =< Len(rows) + 1
    BY <1>4, <1>6
  <2> QED BY <1>2, <2>1, <2>2
<1>8. /\ \A k \in 1 .. len + 1 : k =< h => f[k] = first[k] /\ first[k] < p
      /\ \A k \in 1 .. len + 1 : k > h => f[k] = first[k] + c /\ first[k] >= p
      /\ \A k \in 1 .. len + 1 : f[k] \in Nat
  <2>1. ASSUME NEW k \in 1 .. len + 1, k =< h PROVE f[k] = first[k] /\ first[k] < p
    <3>1. k = h \/ first[k] < first[h]
      BY <1>1, <1>5, <1>6, <2>1
    <3> QED BY <1>4, <1>6, <1>7, <2>1, <3>1
  <2>2. ASSUME NEW k \in 1 .. len + 1, k > h PROVE f[k] = first[k] + c /\ first[k] >= p
    <3>1. k = h + 1 \/ first[h + 1] < first[k]
      BY <1>1, <1>5, <1>6, <2>2
    <3> QED BY <1>1, <1>4, <1>6, <1>7, <2>2, <3>1
  <2>3. \A k \in 1 .. len + 1 : k =< h \/ k > h
    BY <1>1
  <2> HIDE DEF f
  <2> QED BY <1>1, <1>4, <2>1, <2>2, <2>3
<1> HIDE DEF f
<1>9. out \in Seq(DisplayRow) /\ Len(out) = Len(rows) + c /\ DOMAIN out = 1 .. Len(out)
  BY DEF Woven
<1> HIDE DEF len, c
<1>16. ASSUME NEW k \in 1 .. len + 1
       PROVE  /\ f[k] >= first[k] /\ f[k] =< first[k] + c /\ f[k] \in Nat /\ first[k] \in Nat
              /\ k \in Nat /\ (first[k] < p => k =< h) /\ (first[k] >= p => k > h)
  <2>1. k =< h \/ k > h
    BY <1>1
  <2>2. first[k] \in Nat /\ p \in Nat /\ f[k] \in Nat
    BY <1>4, <1>7, <1>8
  <2>3. k =< h => f[k] = first[k] /\ first[k] < p
    BY <1>8
  <2>4. k > h => f[k] = first[k] + c /\ first[k] >= p
    BY <1>8
  <2> QED BY ONLY <1>1, <2>1, <2>2, <2>3, <2>4, k \in 1 .. len + 1
<1>10. f[len + 1] = Len(out) + 1
  <2>1. len + 1 > h
    BY <1>1
  <2>2. f[len + 1] = first[len + 1] + c
    BY <1>6, <1>8, <2>1
  <2> QED BY <1>1, <1>2, <1>3, <1>9, <2>2
<1>11. \A a, b \in 1 .. len + 1 : a < b => f[a] < f[b]
  <2> SUFFICES ASSUME NEW a \in 1 .. len + 1, NEW b \in 1 .. len + 1, a < b PROVE f[a] < f[b]
    OBVIOUS
  <2>1. first[a] < first[b] /\ first[a] \in Nat /\ first[b] \in Nat
    BY <1>4, <1>5
  <2>2. a =< h \/ (a > h /\ b > h)
    BY <1>1
  <2>3. b =< h \/ b > h
    BY <1>1
  <2> QED BY <1>1, <1>8, <2>1, <2>2, <2>3
<1>12. ASSUME NEW k \in DOMAIN Hunks
       PROVE  f[k] \in DOMAIN out /\ out[f[k]].head /\ out[f[k]].hunk = k
  <2>1. k \in 1 .. len + 1 /\ first[k] \in 1 .. Len(rows) /\ rows[first[k]].head /\ rows[first[k]].hunk = k
    BY <1>1, <1>2 DEF LaidOut
  <2>2. CASE k =< h
    <3>1. f[k] = first[k] /\ first[k] < p
      BY <1>8, <2>1, <2>2
    <3>2. out[f[k]] = rows[first[k]]
      BY <2>1, <3>1 DEF Woven
    <3>3. f[k] \in DOMAIN out
      BY <1>1, <1>2, <1>9, <2>1, <3>1
    <3> QED BY <2>1, <3>2, <3>3
  <2>3. CASE k > h
    <3>1. f[k] = first[k] + c /\ first[k] >= p
      BY <1>8, <2>1, <2>3
    <3>2. out[f[k]] = rows[first[k]]
      BY <2>1, <3>1 DEF Woven, c
    <3>3. f[k] \in DOMAIN out
      BY <1>1, <1>2, <1>9, <2>1, <3>1
    <3> QED BY <2>1, <3>2, <3>3
  <2> QED BY <1>1, <2>1, <2>2, <2>3
<1>13. ASSUME NEW i \in 1 .. Len(rows)
       PROVE  /\ rows[i].hunk \in 1 .. len + 1 /\ rows[i].hunk + 1 \in 1 .. len + 1 /\ rows[i].hunk \in 1 .. len
              /\ first[rows[i].hunk] =< i /\ i < first[rows[i].hunk + 1]
              /\ rows[i].head => i = first[rows[i].hunk] /\ rows[i].right = 0 /\ rows[i].old = 0
  <2>1. rows[i] \in DisplayRow
    BY <1>2
  <2>2. rows[i].hunk \in 1 .. len
    BY <1>1, <2>1, RowParts
  <2>3. rows[i].hunk \in 1 .. len + 1 /\ rows[i].hunk + 1 \in 1 .. len + 1
    BY <1>1, <2>2
  <2> QED BY <1>2, <2>2, <2>3 DEF LaidOut
<1>14. ASSUME NEW n \in 1 .. Len(out)
       PROVE  /\ f[out[n].hunk] =< n /\ n < f[out[n].hunk + 1]
              /\ out[n].head => n = f[out[n].hunk] /\ out[n].right = 0 /\ out[n].old = 0
  <2>0. \/ \E i \in 1 .. Len(rows) : i < p /\ n = i /\ out[n] = rows[i]
        \/ \E i \in 1 .. Len(rows) : i >= p /\ n = i + c /\ out[n] = rows[i]
        \/ \E j \in 1 .. c : n = p - 1 + j /\ out[n] = lines[j]
    BY <1>2, <1>7, WovenFrom DEF c
  <2>1. ASSUME NEW i \in 1 .. Len(rows), i < p, n = i, out[n] = rows[i]
        PROVE  /\ f[out[n].hunk] =< n /\ n < f[out[n].hunk + 1]
               /\ out[n].head => n = f[out[n].hunk] /\ out[n].right = 0 /\ out[n].old = 0
    <3> DEFINE k == rows[i].hunk
    <3>1. /\ k \in 1 .. len + 1 /\ k + 1 \in 1 .. len + 1 /\ first[k] =< i /\ i < first[k + 1]
          /\ rows[i].head => i = first[k] /\ rows[i].right = 0 /\ rows[i].old = 0
      BY <1>13
    <3>2. k =< h
      <4> HIDE DEF k
      <4>1. first[k] < p
        BY <1>2, <1>7, <1>16, <2>1, <3>1
      <4> QED BY <1>16, <3>1, <4>1
    <3> HIDE DEF k
    <3>3. f[k] = first[k]
      BY <1>8, <3>1, <3>2
    <3>4. f[k + 1] >= first[k + 1] /\ f[k + 1] \in Nat /\ first[k + 1] \in Nat
      BY <1>16, <3>1
    <3>5. f[k] =< n /\ n < f[k + 1] /\ (rows[i].head => n = f[k])
      BY <1>2, <2>1, <3>1, <3>3, <3>4
    <3> QED BY <2>1, <3>1, <3>5 DEF k
  <2>2. ASSUME NEW i \in 1 .. Len(rows), i >= p, n = i + c, out[n] = rows[i]
        PROVE  /\ f[out[n].hunk] =< n /\ n < f[out[n].hunk + 1]
               /\ out[n].head => n = f[out[n].hunk] /\ out[n].right = 0 /\ out[n].old = 0
    <3> DEFINE k == rows[i].hunk
    <3>1. /\ k \in 1 .. len + 1 /\ k + 1 \in 1 .. len + 1 /\ first[k] =< i /\ i < first[k + 1]
          /\ rows[i].head => i = first[k] /\ rows[i].right = 0 /\ rows[i].old = 0
      BY <1>13
    <3> HIDE DEF k
    <3>2. k + 1 > h
      <4>1. first[k + 1] >= p
        BY <1>2, <1>7, <1>16, <2>2, <3>1
      <4> QED BY <1>16, <3>1, <4>1
    <3>3. f[k + 1] = first[k + 1] + c
      BY <1>8, <3>1, <3>2
    <3>4. f[k] =< first[k] + c /\ f[k] \in Nat /\ first[k] \in Nat /\ first[k + 1] \in Nat
      BY <1>16, <3>1
    <3>5. rows[i].head => f[k] = first[k] + c
      <4> SUFFICES ASSUME rows[i].head PROVE f[k] = first[k] + c
        OBVIOUS
      <4>1. first[k] >= p
        BY <2>2, <3>1
      <4>2. k > h
        BY <1>16, <3>1, <4>1
      <4> QED BY <1>8, <3>1, <4>2
    <3>6. f[k] =< n /\ n < f[k + 1] /\ (rows[i].head => n = f[k])
      <4> DEFINE u == f[k]
                 v == f[k + 1]
                 x == first[k]
                 y == first[k + 1]
                 head == rows[i].head
      <4>1. /\ u =< x + c /\ v = y + c /\ x =< i /\ i < y /\ n = i + c
            /\ u \in Nat /\ x \in Nat /\ y \in Nat /\ c \in Nat /\ i \in Nat
        BY <1>1, <1>2, <2>2, <3>1, <3>3, <3>4
      <4>2. head => i = x /\ u = x + c
        BY <3>1, <3>5
      <4> HIDE DEF u, v, x, y, head
      <4>3. u =< n /\ n < v
        BY ONLY <4>1
      <4>4. head => n = u
        BY ONLY <4>1, <4>2
      <4> QED BY <4>3, <4>4 DEF u, v, head
    <3> QED BY <2>2, <3>1, <3>6 DEF k
  <2>3. ASSUME NEW j \in 1 .. c, n = p - 1 + j, out[n] = lines[j]
        PROVE  /\ f[out[n].hunk] =< n /\ n < f[out[n].hunk + 1]
               /\ out[n].head => n = f[out[n].hunk] /\ out[n].right = 0 /\ out[n].old = 0
    <3>1. out[n].hunk = h /\ ~out[n].head
      BY <2>3 DEF c
    <3>0. h =< h /\ h + 1 > h
      BY <1>1
    <3>2. f[h] = first[h] /\ f[h + 1] = first[h + 1] + c
      BY <1>6, <1>8, <3>0
    <3>3. f[h] =< n /\ n < f[h + 1]
      <4> DEFINE x == first[h]
                 y == first[h + 1]
      <4>1. x \in Nat /\ y \in Nat /\ p \in Nat /\ c \in Nat /\ x < p /\ p =< y /\ j \in 1 .. c /\ n = p - 1 + j
        BY <1>1, <1>2, <1>4, <1>6, <1>7, <2>3
      <4> HIDE DEF x, y
      <4>2. x =< n /\ n < y + c
        BY ONLY <4>1
      <4> QED BY <3>2, <4>2 DEF x, y
    <3> QED BY <3>1, <3>3
  <2> QED BY <2>0, <2>1, <2>2, <2>3
<1>15. LaidOut(out, f)
  BY <1>9, <1>10, <1>11, <1>12, <1>14 DEF LaidOut, len
<1> QED BY <1>15

\* The numbers of those rows, on one side.
WovenNumbers(out, q2, rows, q, lines, r, p) ==
  /\ q \in [1 .. Len(rows) -> Int] /\ r \in [1 .. Len(lines) -> Int] /\ q2 \in [1 .. Len(out) -> Int]
  /\ \A i \in 1 .. Len(rows) : i < p => q2[i] = q[i]
  /\ \A i \in 1 .. Len(rows) : i >= p => q2[i + Len(lines)] = q[i]
  /\ \A j \in 1 .. Len(lines) : q2[p - 1 + j] = r[j]

\* Row i of the old rows or line j of the new ones is row n now.
KeptAt(n, i, p, c) == (i < p /\ n = i) \/ (i >= p /\ n = i + c)

Weaving(out, q2, rows, q, lines, r, p, h) ==
  /\ rows \in Seq(DisplayRow) /\ lines \in Seq(DisplayRow) /\ p \in 1 .. Len(rows) + 1
  /\ Woven(out, rows, lines, p) /\ WovenNumbers(out, q2, rows, q, lines, r, p)
  /\ \A j \in 1 .. Len(lines) : lines[j].hunk = h

\* Every row after the insertion has its number from where it came from.
LEMMA WeavingFrom ==
  ASSUME NEW out, NEW q2, NEW rows, NEW q, NEW lines, NEW r, NEW p, NEW h,
         Weaving(out, q2, rows, q, lines, r, p, h), NEW n \in DOMAIN out
  PROVE  \/ \E i \in DOMAIN rows : KeptAt(n, i, p, Len(lines)) /\ out[n] = rows[i] /\ q2[n] = q[i]
         \/ \E j \in DOMAIN lines : n = p - 1 + j /\ out[n].hunk = h /\ q2[n] = r[j]
<1>1. /\ rows \in Seq(DisplayRow) /\ lines \in Seq(DisplayRow) /\ p \in 1 .. Len(rows) + 1
      /\ Woven(out, rows, lines, p) /\ n \in 1 .. Len(out)
      /\ DOMAIN rows = 1 .. Len(rows) /\ DOMAIN lines = 1 .. Len(lines)
  <2>1. /\ rows \in Seq(DisplayRow) /\ lines \in Seq(DisplayRow) /\ p \in 1 .. Len(rows) + 1
        /\ Woven(out, rows, lines, p)
    BY DEF Weaving
  <2>2. out \in Seq(DisplayRow)
    BY <2>1 DEF Woven
  <2>3. DOMAIN rows = 1 .. Len(rows) /\ DOMAIN lines = 1 .. Len(lines) /\ DOMAIN out = 1 .. Len(out)
    BY ONLY <2>1, <2>2
  <2> QED BY <2>1, <2>3
<1>2. \/ \E i \in 1 .. Len(rows) : i < p /\ n = i /\ out[n] = rows[i]
      \/ \E i \in 1 .. Len(rows) : i >= p /\ n = i + Len(lines) /\ out[n] = rows[i]
      \/ \E j \in 1 .. Len(lines) : n = p - 1 + j /\ out[n] = lines[j]
  BY ONLY <1>1, WovenFrom
<1>3. ASSUME NEW i \in 1 .. Len(rows), i < p, n = i, out[n] = rows[i]
      PROVE  KeptAt(n, i, p, Len(lines)) /\ out[n] = rows[i] /\ q2[n] = q[i]
  BY <1>3 DEF Weaving, WovenNumbers, KeptAt
<1>4. ASSUME NEW i \in 1 .. Len(rows), i >= p, n = i + Len(lines), out[n] = rows[i]
      PROVE  KeptAt(n, i, p, Len(lines)) /\ out[n] = rows[i] /\ q2[n] = q[i]
  BY <1>4 DEF Weaving, WovenNumbers, KeptAt
<1>5. ASSUME NEW j \in 1 .. Len(lines), n = p - 1 + j, out[n] = lines[j]
      PROVE  n = p - 1 + j /\ out[n].hunk = h /\ q2[n] = r[j]
  BY <1>5 DEF Weaving, WovenNumbers
<1> QED BY <1>1, <1>2, <1>3, <1>4, <1>5

\* No row and no line is lost, and their order is kept.
LEMMA WeavingKeeps ==
  ASSUME NEW out, NEW q2, NEW rows, NEW q, NEW lines, NEW r, NEW p, NEW h,
         Weaving(out, q2, rows, q, lines, r, p, h)
  PROVE  /\ \A i \in DOMAIN rows : \E n \in DOMAIN out : out[n] = rows[i] /\ q2[n] = q[i]
         /\ \A j \in DOMAIN lines : \E n \in DOMAIN out : out[n].hunk = h /\ q2[n] = r[j]
         /\ \A i, j \in DOMAIN rows : \A m, n \in DOMAIN out :
              KeptAt(m, i, p, Len(lines)) /\ KeptAt(n, j, p, Len(lines)) /\ m < n => i < j
         /\ \A i \in DOMAIN rows : q[i] \in Int
         /\ \A j \in DOMAIN lines : r[j] \in Int
         /\ \A n \in DOMAIN out : q2[n] \in Int
<1>1. /\ Len(rows) \in Nat /\ Len(lines) \in Nat /\ p \in 1 .. Len(rows) + 1
      /\ Len(out) = Len(rows) + Len(lines)
      /\ DOMAIN rows = 1 .. Len(rows) /\ DOMAIN lines = 1 .. Len(lines) /\ DOMAIN out = 1 .. Len(out)
  BY DEF Weaving, Woven
<1>2. ASSUME NEW i \in DOMAIN rows
      PROVE  \E n \in DOMAIN out : out[n] = rows[i] /\ q2[n] = q[i]
  <2>1. CASE i < p
    <3>1. i \in DOMAIN out
      BY <1>1
    <3> QED BY <1>1, <2>1, <3>1 DEF Weaving, Woven, WovenNumbers
  <2>2. CASE i >= p
    <3>1. i + Len(lines) \in DOMAIN out
      BY <1>1
    <3>2. out[i + Len(lines)] = rows[i] /\ q2[i + Len(lines)] = q[i]
      BY <1>1, <2>2 DEF Weaving, Woven, WovenNumbers
    <3> QED BY <3>1, <3>2
  <2> QED BY <1>1, <2>1, <2>2
<1>3. ASSUME NEW j \in DOMAIN lines
      PROVE  \E n \in DOMAIN out : out[n].hunk = h /\ q2[n] = r[j]
  <2>1. p - 1 + j \in DOMAIN out
    BY <1>1
  <2>2. out[p - 1 + j].hunk = h /\ q2[p - 1 + j] = r[j]
    BY <1>1 DEF Weaving, Woven, WovenNumbers
  <2> QED BY <2>1, <2>2
<1>4. ASSUME NEW i \in DOMAIN rows, NEW j \in DOMAIN rows, NEW m \in DOMAIN out, NEW n \in DOMAIN out,
             KeptAt(m, i, p, Len(lines)), KeptAt(n, j, p, Len(lines)), m < n
      PROVE  i < j
  BY <1>1, <1>4 DEF KeptAt
<1>5. /\ \A i \in DOMAIN rows : q[i] \in Int
      /\ \A j \in DOMAIN lines : r[j] \in Int
      /\ \A n \in DOMAIN out : q2[n] \in Int
  BY <1>1 DEF Weaving, WovenNumbers
<1> QED BY <1>2, <1>3, <1>4, <1>5

\* Other hunks keep their numbers.
LEMMA OtherHunksRun ==
  ASSUME NEW out, NEW q2, NEW rows, NEW q, NEW lines, NEW r, NEW p, NEW h,
         Weaving(out, q2, rows, q, lines, r, p, h),
         NEW k, k # h, NEW from, NEW to, Runs(rows, k, q, from, to)
  PROVE  Runs(out, k, q2, from, to)
<1>1. ASSUME NEW n \in DOMAIN out, out[n].hunk = k
      PROVE  \E i \in DOMAIN rows : KeptAt(n, i, p, Len(lines)) /\ out[n] = rows[i] /\ q2[n] = q[i]
  <2>1. \/ \E i \in DOMAIN rows : KeptAt(n, i, p, Len(lines)) /\ out[n] = rows[i] /\ q2[n] = q[i]
        \/ \E j \in DOMAIN lines : n = p - 1 + j /\ out[n].hunk = h /\ q2[n] = r[j]
    BY WeavingFrom
  <2> QED BY <1>1, <2>1
<1>2. ASSUME NEW n \in DOMAIN out, out[n].hunk = k, q2[n] > 0
      PROVE  from =< q2[n] /\ q2[n] < to
  <2>1. PICK i \in DOMAIN rows : out[n] = rows[i] /\ q2[n] = q[i]
    BY <1>1, <1>2
  <2> QED BY <1>2, <2>1 DEF Runs
<1>3. ASSUME NEW m \in DOMAIN out, NEW n \in DOMAIN out, m < n, out[m].hunk = k, out[n].hunk = k,
             q2[m] > 0, q2[n] > 0
      PROVE  q2[m] < q2[n]
  <2>1. PICK i \in DOMAIN rows : KeptAt(m, i, p, Len(lines)) /\ out[m] = rows[i] /\ q2[m] = q[i]
    BY <1>1, <1>3
  <2>2. PICK j \in DOMAIN rows : KeptAt(n, j, p, Len(lines)) /\ out[n] = rows[j] /\ q2[n] = q[j]
    BY <1>1, <1>3
  <2>3. i < j
    BY <1>3, <2>1, <2>2, WeavingKeeps
  <2> QED BY <1>3, <2>1, <2>2, <2>3 DEF Runs
<1>4. ASSUME NEW x \in from .. to - 1, x > 0
      PROVE  \E n \in DOMAIN out : out[n].hunk = k /\ q2[n] = x
  <2>1. PICK i \in DOMAIN rows : rows[i].hunk = k /\ q[i] = x
    BY <1>4 DEF Runs
  <2>2. PICK n \in DOMAIN out : out[n] = rows[i] /\ q2[n] = q[i]
    BY WeavingKeeps
  <2> QED BY <2>1, <2>2
<1> QED BY <1>2, <1>3, <1>4 DEF Runs

\* Lines put above those of their hunk count up to them.
LEMMA RunsFromAbove ==
  ASSUME NEW out, NEW q2, NEW rows, NEW q, NEW lines, NEW r, NEW p, NEW h,
         Weaving(out, q2, rows, q, lines, r, p, h),
         \A i \in DOMAIN rows : rows[i].hunk = h /\ q[i] > 0 => i >= p,
         NEW a \in Int, NEW b \in Int, NEW c \in Int, a =< b, b =< c,
         Runs(rows, h, q, b, c), Numbered(r, a, b)
  PROVE  Runs(out, h, q2, a, c)
<1>0. /\ Len(rows) \in Nat /\ Len(lines) \in Nat /\ p \in 1 .. Len(rows) + 1
      /\ DOMAIN rows = 1 .. Len(rows) /\ DOMAIN lines = 1 .. Len(lines) /\ DOMAIN r = DOMAIN lines
      /\ Len(out) \in Nat /\ DOMAIN out = 1 .. Len(out)
  BY DEF Weaving, Woven, WovenNumbers
<1> DEFINE Kept(n, i) == i \in DOMAIN rows /\ KeptAt(n, i, p, Len(lines)) /\ out[n] = rows[i] /\ q2[n] = q[i]
           Put(n, j) == j \in DOMAIN lines /\ n = p - 1 + j /\ out[n].hunk = h /\ q2[n] = r[j]
<1>1. \A n \in DOMAIN out : (\E i : Kept(n, i)) \/ (\E j : Put(n, j))
  BY WeavingFrom
<1>2. \A n \in DOMAIN out : q2[n] \in Int
  BY WeavingKeeps
<1>3. ASSUME NEW n, NEW i, Kept(n, i), out[n].hunk = h, q2[n] > 0
      PROVE  i >= p /\ b =< q2[n] /\ q2[n] < c
  BY <1>3 DEF Runs
<1>4. ASSUME NEW n, NEW j, Put(n, j), q2[n] > 0
      PROVE  a =< q2[n] /\ q2[n] < b
  BY <1>0, <1>4 DEF Numbered
<1>5. ASSUME NEW m \in DOMAIN out, NEW n \in DOMAIN out, NEW i, NEW j, m < n, Kept(m, i), Kept(n, j)
      PROVE  i < j
  BY <1>5, WeavingKeeps
<1>6. ASSUME NEW m \in DOMAIN out, NEW n \in DOMAIN out, NEW i, NEW j, Put(m, j), Kept(n, i), i >= p
      PROVE  m < n
  BY <1>0, <1>6 DEF KeptAt
<1>7. ASSUME NEW n \in DOMAIN out, out[n].hunk = h, q2[n] > 0
      PROVE  a =< q2[n] /\ q2[n] < c
  <2>1. ASSUME NEW i, Kept(n, i) PROVE a =< q2[n] /\ q2[n] < c
    <3>1. b =< q2[n] /\ q2[n] < c
      BY <1>3, <1>7, <2>1
    <3>2. q2[n] \in Int
      BY <1>2
    <3> QED BY ONLY <3>1, <3>2, a \in Int, b \in Int, c \in Int, a =< b, b =< c
  <2>2. ASSUME NEW j, Put(n, j) PROVE a =< q2[n] /\ q2[n] < c
    <3>1. a =< q2[n] /\ q2[n] < b
      BY <1>4, <1>7, <2>2
    <3>2. q2[n] \in Int
      BY <1>2
    <3> QED BY ONLY <3>1, <3>2, a \in Int, b \in Int, c \in Int, a =< b, b =< c
  <2> HIDE DEF Kept, Put
  <2> QED BY <1>1, <2>1, <2>2
<1>8. ASSUME NEW m \in DOMAIN out, NEW n \in DOMAIN out, m < n, out[m].hunk = h, out[n].hunk = h,
             q2[m] > 0, q2[n] > 0
      PROVE  q2[m] < q2[n]
  <2>0. q2[m] \in Int /\ q2[n] \in Int /\ m \in Int /\ n \in Int
    BY <1>0, <1>2
  <2>1. ASSUME NEW i, NEW j, Kept(m, i), Kept(n, j) PROVE q2[m] < q2[n]
    <3>1. i < j
      BY <1>5, <1>8, <2>1
    <3> QED BY <1>8, <2>1, <3>1 DEF Runs
  <2>2. ASSUME NEW i, NEW j, Put(m, i), Put(n, j) PROVE q2[m] < q2[n]
    <3>1. i < j
      BY <1>0, <1>8, <2>2
    <3> QED BY <1>0, <1>8, <2>2, <3>1 DEF Numbered
  <2>3. ASSUME NEW i, NEW j, Put(m, i), Kept(n, j) PROVE q2[m] < q2[n]
    <3>1. q2[m] < b /\ b =< q2[n]
      BY <1>3, <1>4, <1>8, <2>3
    <3> QED BY ONLY <1>8, <2>0, <3>1, b \in Int
  <2>4. ASSUME NEW i, NEW j, Kept(m, i), Put(n, j) PROVE q2[m] < q2[n]
    <3>1. n < m
      BY <1>3, <1>4, <1>8, <2>4, <1>6
    <3> QED BY ONLY <1>8, <2>0, <3>1, b \in Int
  <2> HIDE DEF Kept, Put
  <2> QED BY <1>1, <2>1, <2>2, <2>3, <2>4
<1>9. ASSUME NEW x \in a .. c - 1, x > 0
      PROVE  \E n \in DOMAIN out : out[n].hunk = h /\ q2[n] = x
  <2>1. CASE x >= b
    <3>1. x \in b .. c - 1
      BY <2>1
    <3>2. PICK i \in DOMAIN rows : rows[i].hunk = h /\ q[i] = x
      BY <1>9, <3>1 DEF Runs
    <3>3. PICK n \in DOMAIN out : out[n] = rows[i] /\ q2[n] = q[i]
      BY WeavingKeeps
    <3> QED BY <3>2, <3>3
  <2>2. CASE x < b
    <3>1. x \in a .. b - 1
      BY <2>2
    <3>2. PICK j \in DOMAIN lines : r[j] = x
      BY <1>0, <1>9, <3>1 DEF Numbered
    <3>3. PICK n \in DOMAIN out : out[n].hunk = h /\ q2[n] = r[j]
      BY WeavingKeeps
    <3> QED BY <3>2, <3>3
  <2> QED BY <2>1, <2>2
<1> QED BY <1>7, <1>8, <1>9 DEF Runs

\* Lines put below those of their hunk count on from them.
LEMMA RunsFromBelow ==
  ASSUME NEW out, NEW q2, NEW rows, NEW q, NEW lines, NEW r, NEW p, NEW h,
         Weaving(out, q2, rows, q, lines, r, p, h),
         \A i \in DOMAIN rows : rows[i].hunk = h /\ q[i] > 0 => i < p,
         NEW a \in Int, NEW b \in Int, NEW c \in Int, a =< b, b =< c,
         Runs(rows, h, q, a, b), Numbered(r, b, c)
  PROVE  Runs(out, h, q2, a, c)
<1>0. /\ Len(rows) \in Nat /\ Len(lines) \in Nat /\ p \in 1 .. Len(rows) + 1
      /\ DOMAIN rows = 1 .. Len(rows) /\ DOMAIN lines = 1 .. Len(lines) /\ DOMAIN r = DOMAIN lines
      /\ Len(out) \in Nat /\ DOMAIN out = 1 .. Len(out)
  BY DEF Weaving, Woven, WovenNumbers
<1> DEFINE Kept(n, i) == i \in DOMAIN rows /\ KeptAt(n, i, p, Len(lines)) /\ out[n] = rows[i] /\ q2[n] = q[i]
           Put(n, j) == j \in DOMAIN lines /\ n = p - 1 + j /\ out[n].hunk = h /\ q2[n] = r[j]
<1>1. \A n \in DOMAIN out : (\E i : Kept(n, i)) \/ (\E j : Put(n, j))
  BY WeavingFrom
<1>2. \A n \in DOMAIN out : q2[n] \in Int
  BY WeavingKeeps
<1>3. ASSUME NEW n, NEW i, Kept(n, i), out[n].hunk = h, q2[n] > 0
      PROVE  i < p /\ a =< q2[n] /\ q2[n] < b
  BY <1>3 DEF Runs
<1>4. ASSUME NEW n, NEW j, Put(n, j), q2[n] > 0
      PROVE  b =< q2[n] /\ q2[n] < c
  BY <1>0, <1>4 DEF Numbered
<1>5. ASSUME NEW m \in DOMAIN out, NEW n \in DOMAIN out, NEW i, NEW j, m < n, Kept(m, i), Kept(n, j)
      PROVE  i < j
  BY <1>5, WeavingKeeps
<1>6. ASSUME NEW m \in DOMAIN out, NEW n \in DOMAIN out, NEW i, NEW j, Put(m, j), Kept(n, i), i < p
      PROVE  n < m
  BY <1>0, <1>6 DEF KeptAt
<1>7. ASSUME NEW n \in DOMAIN out, out[n].hunk = h, q2[n] > 0
      PROVE  a =< q2[n] /\ q2[n] < c
  <2>1. ASSUME NEW i, Kept(n, i) PROVE a =< q2[n] /\ q2[n] < c
    <3>1. a =< q2[n] /\ q2[n] < b
      BY <1>3, <1>7, <2>1
    <3>2. q2[n] \in Int
      BY <1>2
    <3> QED BY ONLY <3>1, <3>2, a \in Int, b \in Int, c \in Int, a =< b, b =< c
  <2>2. ASSUME NEW j, Put(n, j) PROVE a =< q2[n] /\ q2[n] < c
    <3>1. b =< q2[n] /\ q2[n] < c
      BY <1>4, <1>7, <2>2
    <3>2. q2[n] \in Int
      BY <1>2
    <3> QED BY ONLY <3>1, <3>2, a \in Int, b \in Int, c \in Int, a =< b, b =< c
  <2> HIDE DEF Kept, Put
  <2> QED BY <1>1, <2>1, <2>2
<1>8. ASSUME NEW m \in DOMAIN out, NEW n \in DOMAIN out, m < n, out[m].hunk = h, out[n].hunk = h,
             q2[m] > 0, q2[n] > 0
      PROVE  q2[m] < q2[n]
  <2>0. q2[m] \in Int /\ q2[n] \in Int /\ m \in Int /\ n \in Int
    BY <1>0, <1>2
  <2>1. ASSUME NEW i, NEW j, Kept(m, i), Kept(n, j) PROVE q2[m] < q2[n]
    <3>1. i < j
      BY <1>5, <1>8, <2>1
    <3> QED BY <1>8, <2>1, <3>1 DEF Runs
  <2>2. ASSUME NEW i, NEW j, Put(m, i), Put(n, j) PROVE q2[m] < q2[n]
    <3>1. i < j
      BY <1>0, <1>8, <2>2
    <3> QED BY <1>0, <1>8, <2>2, <3>1 DEF Numbered
  <2>3. ASSUME NEW i, NEW j, Put(m, i), Kept(n, j) PROVE q2[m] < q2[n]
    <3>1. n < m
      BY <1>3, <1>4, <1>8, <2>3, <1>6
    <3> QED BY ONLY <1>8, <2>0, <3>1, b \in Int
  <2>4. ASSUME NEW i, NEW j, Kept(m, i), Put(n, j) PROVE q2[m] < q2[n]
    <3>1. q2[m] < b /\ b =< q2[n]
      BY <1>3, <1>4, <1>8, <2>4
    <3> QED BY ONLY <1>8, <2>0, <3>1, b \in Int
  <2> HIDE DEF Kept, Put
  <2> QED BY <1>1, <2>1, <2>2, <2>3, <2>4
<1>9. ASSUME NEW x \in a .. c - 1, x > 0
      PROVE  \E n \in DOMAIN out : out[n].hunk = h /\ q2[n] = x
  <2>1. CASE x < b
    <3>1. x \in a .. b - 1
      BY <2>1
    <3>2. PICK i \in DOMAIN rows : rows[i].hunk = h /\ q[i] = x
      BY <1>9, <3>1 DEF Runs
    <3>3. PICK n \in DOMAIN out : out[n] = rows[i] /\ q2[n] = q[i]
      BY WeavingKeeps
    <3> QED BY <3>2, <3>3
  <2>2. CASE x >= b
    <3>1. x \in b .. c - 1
      BY <2>2
    <3>2. PICK j \in DOMAIN lines : r[j] = x
      BY <1>0, <1>9, <3>1 DEF Numbered
    <3>3. PICK n \in DOMAIN out : out[n].hunk = h /\ q2[n] = r[j]
      BY WeavingKeeps
    <3> QED BY <3>2, <3>3
  <2> QED BY <2>1, <2>2
<1> QED BY <1>7, <1>8, <1>9 DEF Runs

-----------------------------------------------------------------------------
(* What is fetched.                                                        *)

\* A row is of one of the hunks.
LEMMA HunkOfRow ==
  ASSUME NEW row
  PROVE  HunkOf(row) \in DOMAIN Hunks
<1> DEFINE S == {h \in DOMAIN Hunks : Header(h) =< row}
           len == Len(Hunks)
<1>1. len \in Nat /\ len >= 1 /\ DOMAIN Hunks = 1 .. len
  BY HunksAre
<1>2. S \subseteq 1 .. len
  BY <1>1
<1> HIDE DEF S
<1>3. IsFiniteSet(1 .. len) /\ Cardinality(1 .. len) = len
  <2>1. 1 \in Int /\ len \in Int /\ ~(1 > len) /\ len - 1 + 1 = len
    BY <1>1
  <2> HIDE DEF len
  <2> QED BY <2>1, FS_Interval
<1>4. Cardinality(S) \in Nat /\ Cardinality(S) =< len
  BY <1>2, <1>3, FS_Subset, FS_CardinalityType
<1>5. HunkOf(row) = Larger(1, Cardinality(S))
  BY DEF HunkOf, S
<1> HIDE DEF len
<1> QED BY <1>1, <1>4, <1>5 DEF Larger

\* The ends of a hunk, and how much of it is shown.
LEMMA EndsOf ==
  ASSUME NEW h \in DOMAIN Hunks
  PROVE  /\ Hunks[h].old \in Nat /\ Hunks[h].new \in Nat /\ EndOf(h).old \in Nat /\ EndOf(h).new \in Nat
         /\ Hunks[h].old =< EndOf(h).old /\ Hunks[h].new =< EndOf(h).new
         /\ Hunks[h].old + OldCount(h) = EndOf(h).old /\ Hunks[h].new + NewCount(h) = EndOf(h).new
         /\ EndOf(h).old =< FileLines + 1
<1>1. TRUE \in BOOLEAN
  OBVIOUS
<1>2. /\ EndOf(h).old \in Nat /\ Hunks[h].old =< EndOf(h).old
      /\ EndOf(h).new \in Nat /\ Hunks[h].new =< EndOf(h).new
  BY <1>1, HunkBody
<1>3. Hunks[h].old \in Nat /\ Hunks[h].new \in Nat
  BY HunksAre
<1>4. Hunks[h].old + OldCount(h) - 1 =< FileLines /\ FileLines \in Nat
  BY ViewportAssumption
<1>5. Hunks[h].old + OldCount(h) = EndOf(h).old /\ Hunks[h].new + NewCount(h) = EndOf(h).new
  BY <1>2, <1>3 DEF OldCount, NewCount
<1>6. EndOf(h).old - 1 =< FileLines
  <2>1. OldCount(h) \in Int
    BY <1>2, <1>3 DEF OldCount
  <2> QED BY <1>2, <1>3, <1>4, <1>5, <2>1
<1>7. EndOf(h).old =< FileLines + 1
  BY ONLY <1>2, <1>4, <1>6
<1> QED BY <1>2, <1>3, <1>5, <1>7

\* A fetch continues what is shown of its hunk, with e expanded.
NextTo(f, e) ==
  /\ f \in [hunk : DOMAIN Hunks, above : BOOLEAN, old : Int, new : Int, count : Nat]
  /\ f.above => /\ f.old + f.count = Hunks[f.hunk].old - e[f.hunk].above
                /\ f.new + f.count = Hunks[f.hunk].new - e[f.hunk].above
  /\ ~f.above => /\ f.old = EndOf(f.hunk).old + e[f.hunk].below
                 /\ f.new = EndOf(f.hunk).new + e[f.hunk].below

\* What a request asks for is next to what is shown.
LEMMA PlanIsNext ==
  ASSUME expanded \in [DOMAIN Hunks -> [above : Nat, below : Nat]], NEW row, NEW request,
         Plan(row, request) # NoFetch
  PROVE  NextTo(Plan(row, request), expanded)
<1> DEFINE h == HunkOf(row)
           before == expanded[h].above
           after == expanded[h].below
           oldTop == Hunks[h].old - before
           newTop == Hunks[h].new - before
           previousEnd == IF h = 1 THEN 1 ELSE Hunks[h - 1].old + OldCount(h - 1) + expanded[h - 1].below
           gap == Smaller(Larger(0, oldTop - previousEnd), newTop - 1)
           oldEnd == Hunks[h].old + OldCount(h) + after
           newEnd == Hunks[h].new + NewCount(h) + after
           room == IF h = Len(Hunks) THEN Step
                   ELSE Smaller(Step, Larger(0, Hunks[h + 1].old - expanded[h + 1].above - oldEnd))
           Asked(above, old, new, count) ==
             IF count > 0 THEN [hunk |-> h, above |-> above, old |-> old, new |-> new, count |-> count]
             ELSE NoFetch
           Up(count) == Asked(TRUE, oldTop - count, newTop - count, count)
           P == Plan(row, request)
           none == Used >= Budget \/ OldCount(h) = 0 \/ NewCount(h) = 0
           some == Used < Budget /\ OldCount(h) > 0 /\ NewCount(h) > 0
           tight == gap =< Step \/ gap > Budget - Used
<1>1. h \in DOMAIN Hunks /\ h \in 1 .. Len(Hunks) /\ Len(Hunks) \in Nat
  BY HunkOfRow, HunksAre
<1>2. P = CASE none -> NoFetch
            [] some /\ request = "above" -> Up(Smaller(gap, Step))
            [] some /\ request = "all" -> IF tight THEN NoFetch ELSE Up(gap)
            [] OTHER -> Asked(FALSE, oldEnd, newEnd, room)
  BY Zenon DEF Plan
<1>3. ASSUME NEW k \in DOMAIN Hunks
      PROVE  /\ expanded[k].above \in Nat /\ expanded[k].below \in Nat
             /\ Hunks[k].old + OldCount(k) = EndOf(k).old /\ Hunks[k].new + NewCount(k) = EndOf(k).new
             /\ EndOf(k).old \in Nat /\ EndOf(k).new \in Nat /\ Hunks[k].old \in Nat /\ Hunks[k].new \in Nat
  BY EndsOf
<1>4. /\ before \in Nat /\ after \in Nat /\ oldTop \in Int /\ newTop \in Int
      /\ oldEnd = EndOf(h).old + after /\ newEnd = EndOf(h).new + after /\ oldEnd \in Int /\ newEnd \in Int
  <2> HIDE DEF P, none, some, tight, gap, room, previousEnd
  <2>1. before \in Nat /\ after \in Nat
    BY <1>1, <1>3
  <2>2. oldEnd = EndOf(h).old + after /\ newEnd = EndOf(h).new + after
    BY <1>1, <1>3
  <2>3. Hunks[h].old \in Nat /\ Hunks[h].new \in Nat /\ EndOf(h).old \in Nat /\ EndOf(h).new \in Nat
    BY <1>1, <1>3
  <2> HIDE DEF before, after
  <2>4. oldTop \in Int /\ newTop \in Int
    BY <2>1, <2>3
  <2> QED BY <2>1, <2>2, <2>3, <2>4
<1>5. gap \in Int /\ Step \in Nat
  <2>1. previousEnd \in Int
    <3>1. h # 1 => h - 1 \in DOMAIN Hunks
      BY <1>1, HunksAre
    <3>2. h # 1 => previousEnd = EndOf(h - 1).old + expanded[h - 1].below
      BY <1>3, <3>1
    <3> HIDE DEF h
    <3> QED BY <1>3, <3>1, <3>2
  <2> HIDE DEF previousEnd, oldTop, newTop
  <2> QED BY <1>4, <2>1, ViewportAssumption DEF Smaller, Larger
<1>6. room \in Int
  <2>1. h # Len(Hunks) => h + 1 \in DOMAIN Hunks
    BY <1>1, HunksAre
  <2> DEFINE next == Hunks[h + 1].old - expanded[h + 1].above
  <2>2. h # Len(Hunks) => next \in Int
    BY <1>3, <2>1
  <2> HIDE DEF next, oldEnd, h
  <2>3. room = IF h = Len(Hunks) THEN Step ELSE Smaller(Step, Larger(0, next - oldEnd))
    BY DEF next
  <2> QED BY <1>4, <1>5, <2>2, <2>3 DEF Smaller, Larger
<1>7. Smaller(gap, Step) \in Int
  <2> HIDE DEF gap
  <2> QED BY <1>5 DEF Smaller
<1> HIDE DEF gap, room, none, some, tight, oldTop, newTop, oldEnd, newEnd
<1>8. \/ P = NoFetch
      \/ \E count \in Int : P = Up(count)
      \/ P = Asked(FALSE, oldEnd, newEnd, room)
  <2> DEFINE u == Up(Smaller(gap, Step))
             v == Up(gap)
             w == Asked(FALSE, oldEnd, newEnd, room)
             above == some /\ request = "above"
             all == some /\ request = "all"
  <2>1. P = CASE none -> NoFetch [] above -> u [] all -> IF tight THEN NoFetch ELSE v [] OTHER -> w
    BY <1>2, Zenon
  <2>2. (\E count \in Int : u = Up(count)) /\ (\E count \in Int : v = Up(count))
    <3> HIDE DEF Up
    <3> QED BY <1>5, <1>7
  <2> HIDE DEF u, v, w, above, all, P
  <2>3. P = NoFetch \/ P = u \/ P = v \/ P = w
    BY ONLY <2>1
  <2> QED BY <2>2, <2>3 DEF w
<1>9. ASSUME NEW count \in Int, P = Up(count) PROVE NextTo(P, expanded)
  <2>1. count > 0 /\ P = [hunk |-> h, above |-> TRUE, old |-> oldTop - count, new |-> newTop - count, count |-> count]
    BY <1>9
  <2> HIDE DEF P, h
  <2>2. /\ P.hunk = h /\ P.above /\ P.old = oldTop - count /\ P.new = newTop - count /\ P.count = count
        /\ P \in [hunk : DOMAIN Hunks, above : BOOLEAN, old : Int, new : Int, count : Nat]
    BY <1>1, <1>4, <2>1
  <2>3. P.old + P.count = Hunks[h].old - before /\ P.new + P.count = Hunks[h].new - before
    BY <1>4, <2>2 DEF oldTop, newTop
  <2> QED BY <2>2, <2>3 DEF NextTo
<1>10. ASSUME P = Asked(FALSE, oldEnd, newEnd, room) PROVE NextTo(P, expanded)
  <2>1. room > 0 /\ P = [hunk |-> h, above |-> FALSE, old |-> oldEnd, new |-> newEnd, count |-> room]
    BY <1>10
  <2> HIDE DEF P, h
  <2>2. /\ P.hunk = h /\ ~P.above /\ P.old = oldEnd /\ P.new = newEnd
        /\ P \in [hunk : DOMAIN Hunks, above : BOOLEAN, old : Int, new : Int, count : Nat]
    BY <1>1, <1>4, <1>6, <2>1
  <2> QED BY <1>4, <2>2 DEF NextTo
<1> QED BY <1>8, <1>9, <1>10

-----------------------------------------------------------------------------
(* Context that arrives.                                                   *)
Expansions == [DOMAIN Hunks -> [above : Nat, below : Nat]]

\* The numbers on both sides of all hunks, with e expanded.
Counted(rows, e) ==
  \A h \in DOMAIN Hunks :
    /\ Runs(rows, h, Rights(rows), Hunks[h].new - e[h].above, EndOf(h).new + e[h].below)
    /\ Runs(rows, h, Olds(rows), Hunks[h].old - e[h].above, EndOf(h).old + e[h].below)

\* More of hunk h is expanded, on one side of it.
Expands(e2, e, h, above, count) ==
  /\ e \in Expansions /\ e2 \in Expansions
  /\ \A k \in DOMAIN Hunks : k # h => e2[k] = e[k]
  /\ above => e2[h].above = e[h].above + count /\ e2[h].below = e[h].below
  /\ ~above => e2[h].above = e[h].above /\ e2[h].below = e[h].below + count

\* Both columns of numbers are woven as the rows are.
LEMMA WovenColumns ==
  ASSUME NEW rows \in Seq(DisplayRow), NEW lines \in Seq(DisplayRow), NEW p \in 1 .. Len(rows) + 1, NEW h,
         \A j \in DOMAIN lines : lines[j].hunk = h, NEW out, Woven(out, rows, lines, p)
  PROVE  /\ Weaving(out, Rights(out), rows, Rights(rows), lines, Rights(lines), p, h)
         /\ Weaving(out, Olds(out), rows, Olds(rows), lines, Olds(lines), p, h)
<1>1. /\ DOMAIN rows = 1 .. Len(rows) /\ DOMAIN lines = 1 .. Len(lines) /\ DOMAIN out = 1 .. Len(out)
      /\ Len(rows) \in Nat /\ Len(lines) \in Nat /\ Len(out) = Len(rows) + Len(lines)
      /\ \A i \in DOMAIN rows : rows[i] \in DisplayRow
      /\ \A i \in DOMAIN lines : lines[i] \in DisplayRow
      /\ \A i \in DOMAIN out : out[i] \in DisplayRow
  BY DEF Woven
<1>2. /\ \A i \in DOMAIN rows : rows[i].right \in Int /\ rows[i].old \in Int
      /\ \A i \in DOMAIN lines : lines[i].right \in Int /\ lines[i].old \in Int
      /\ \A i \in DOMAIN out : out[i].right \in Int /\ out[i].old \in Int
  BY <1>1, RowParts
<1>3. /\ \A i \in 1 .. Len(rows) : i < p => out[i] = rows[i] /\ i \in DOMAIN out
      /\ \A i \in 1 .. Len(rows) : i >= p => out[i + Len(lines)] = rows[i] /\ i + Len(lines) \in DOMAIN out
      /\ \A j \in 1 .. Len(lines) : out[p - 1 + j] = lines[j] /\ p - 1 + j \in DOMAIN out
  BY <1>1 DEF Woven
<1>4. WovenNumbers(out, Rights(out), rows, Rights(rows), lines, Rights(lines), p)
  BY <1>1, <1>2, <1>3 DEF WovenNumbers, Rights
<1>5. WovenNumbers(out, Olds(out), rows, Olds(rows), lines, Olds(lines), p)
  BY <1>1, <1>2, <1>3 DEF WovenNumbers, Olds
<1> QED BY <1>1, <1>4, <1>5 DEF Weaving

\* All numbered rows of a hunk are under its header and before the next one.
LEMMA NumberedRows ==
  ASSUME NEW rows, NEW first, LaidOut(rows, first), NEW h \in DOMAIN Hunks
  PROVE  /\ \A i \in DOMAIN rows : rows[i].hunk = h /\ Rights(rows)[i] > 0 => i >= first[h] + 1
         /\ \A i \in DOMAIN rows : rows[i].hunk = h /\ Olds(rows)[i] > 0 => i >= first[h] + 1
         /\ \A i \in DOMAIN rows : rows[i].hunk = h => i < first[h + 1]
         /\ first[h] + 1 \in 1 .. Len(rows) + 1 /\ first[h + 1] \in 1 .. Len(rows) + 1
<1>1. /\ rows \in Seq(DisplayRow) /\ Len(rows) \in Nat /\ DOMAIN rows = 1 .. Len(rows)
      /\ Len(Hunks) \in Nat /\ DOMAIN Hunks = 1 .. Len(Hunks) /\ h \in 1 .. Len(Hunks)
  BY HunksAre DEF LaidOut
<1>2. first[h] \in DOMAIN rows /\ rows[first[h]].head /\ rows[first[h]].hunk = h
  BY DEF LaidOut
<1>3. ASSUME NEW i \in DOMAIN rows, rows[i].hunk = h
      PROVE  first[h] =< i /\ i < first[h + 1] /\ (rows[i].head => i = first[h])
  BY <1>3 DEF LaidOut
<1>4. rows[first[h]].right = 0 /\ rows[first[h]].old = 0
  BY <1>2 DEF LaidOut
<1>5. ASSUME NEW i \in DOMAIN rows, rows[i].hunk = h, i # first[h] PROVE i >= first[h] + 1
  BY <1>1, <1>2, <1>3, <1>5
<1>6. /\ \A i \in DOMAIN rows : rows[i].hunk = h /\ Rights(rows)[i] > 0 => i >= first[h] + 1
      /\ \A i \in DOMAIN rows : rows[i].hunk = h /\ Olds(rows)[i] > 0 => i >= first[h] + 1
  BY <1>4, <1>5 DEF Rights, Olds
<1>7. first[h + 1] \in 1 .. Len(rows) + 1
  <2>1. CASE h = Len(Hunks)
    BY <1>1, <2>1 DEF LaidOut
  <2>2. CASE h # Len(Hunks)
    <3>1. h + 1 \in DOMAIN Hunks
      BY <1>1, <2>2
    <3>2. first[h + 1] \in DOMAIN rows
      BY <3>1 DEF LaidOut
    <3> QED BY <1>1, <3>2
  <2> QED BY <2>1, <2>2
<1> QED BY <1>1, <1>2, <1>3, <1>6, <1>7

\* The lines that came, with the rows as they were, count through the hunk.
LEMMA ArrivalCounts ==
  ASSUME NEW rows, NEW first, LaidOut(rows, first), NEW e, Counted(rows, e), NEW h \in DOMAIN Hunks,
         NEW sided, NEW old \in Int, NEW new \in Int, NEW count \in Nat, NEW above \in BOOLEAN,
         above => old + count = Hunks[h].old - e[h].above /\ new + count = Hunks[h].new - e[h].above,
         ~above => old = EndOf(h).old + e[h].below /\ new = EndOf(h).new + e[h].below,
         NEW lines, Body(lines, h, old, old + count, new, new + count, sided),
         NEW out, Woven(out, rows, lines, IF above THEN first[h] + 1 ELSE first[h + 1]),
         NEW e2, Expands(e2, e, h, above, count)
  PROVE  Counted(out, e2)
<1> DEFINE p == IF above THEN first[h] + 1 ELSE first[h + 1]
<1>1. /\ \A i \in DOMAIN rows : rows[i].hunk = h /\ Rights(rows)[i] > 0 => i >= first[h] + 1
      /\ \A i \in DOMAIN rows : rows[i].hunk = h /\ Olds(rows)[i] > 0 => i >= first[h] + 1
      /\ \A i \in DOMAIN rows : rows[i].hunk = h => i < first[h + 1]
      /\ first[h] + 1 \in 1 .. Len(rows) + 1 /\ first[h + 1] \in 1 .. Len(rows) + 1
  BY NumberedRows
<1>2. p \in 1 .. Len(rows) + 1 /\ rows \in Seq(DisplayRow) /\ lines \in Seq(DisplayRow)
  BY <1>1 DEF Body, LaidOut
<1>3. Woven(out, rows, lines, p)
  OBVIOUS
<1>4. /\ above => \A i \in DOMAIN rows : rows[i].hunk = h /\ Rights(rows)[i] > 0 => i >= p
      /\ above => \A i \in DOMAIN rows : rows[i].hunk = h /\ Olds(rows)[i] > 0 => i >= p
      /\ ~above => \A i \in DOMAIN rows : rows[i].hunk = h => i < p
  BY <1>1
<1> HIDE DEF p
<1>5. /\ Weaving(out, Rights(out), rows, Rights(rows), lines, Rights(lines), p, h)
      /\ Weaving(out, Olds(out), rows, Olds(rows), lines, Olds(lines), p, h)
  <2>1. \A j \in DOMAIN lines : lines[j].hunk = h
    BY DEF Body
  <2> QED BY ONLY <1>2, <1>3, <2>1, WovenColumns
<1>6. /\ Numbered(Rights(lines), new, new + count) /\ Numbered(Olds(lines), old, old + count)
  BY DEF Body
<1> DEFINE a == Hunks[h].old - e[h].above
           b == EndOf(h).old + e[h].below
           c == Hunks[h].new - e[h].above
           d == EndOf(h).new + e[h].below
<1>7. a \in Int /\ b \in Int /\ c \in Int /\ d \in Int /\ a =< b /\ c =< d
  <2>1. e[h].above \in Nat /\ e[h].below \in Nat
    BY DEF Expands, Expansions
  <2> QED BY <2>1, EndsOf
<1>8. Runs(rows, h, Rights(rows), c, d) /\ Runs(rows, h, Olds(rows), a, b)
  BY DEF Counted
<1>9. ASSUME NEW k \in DOMAIN Hunks, k # h
      PROVE  /\ Runs(out, k, Rights(out), Hunks[k].new - e2[k].above, EndOf(k).new + e2[k].below)
             /\ Runs(out, k, Olds(out), Hunks[k].old - e2[k].above, EndOf(k).old + e2[k].below)
  <2>1. e2[k] = e[k]
    BY <1>9 DEF Expands
  <2> DEFINE s == Hunks[k].old - e[k].above
             t == EndOf(k).old + e[k].below
             u == Hunks[k].new - e[k].above
             v == EndOf(k).new + e[k].below
  <2>2. Runs(rows, k, Rights(rows), u, v) /\ Runs(rows, k, Olds(rows), s, t)
    BY DEF Counted
  <2> HIDE DEF s, t, u, v
  <2>3. Runs(out, k, Rights(out), u, v)
    BY ONLY <1>5, <1>9, <2>2, OtherHunksRun
  <2>4. Runs(out, k, Olds(out), s, t)
    BY ONLY <1>5, <1>9, <2>2, OtherHunksRun
  <2> QED BY <2>1, <2>3, <2>4 DEF s, t, u, v
<1>10. CASE above
  <2>1. old + count = a /\ new + count = c
    BY <1>10
  <2>2. old =< a /\ new =< c
    BY <2>1
  <2>3. Numbered(Rights(lines), new, c) /\ Numbered(Olds(lines), old, a)
    BY <1>6, <2>1
  <2>4. /\ \A i \in DOMAIN rows : rows[i].hunk = h /\ Rights(rows)[i] > 0 => i >= p
        /\ \A i \in DOMAIN rows : rows[i].hunk = h /\ Olds(rows)[i] > 0 => i >= p
    BY <1>4, <1>10
  <2>5. old = Hunks[h].old - e2[h].above /\ new = Hunks[h].new - e2[h].above
    <3>1. e2[h].above = e[h].above + count /\ e[h].above \in Nat
      BY <1>10 DEF Expands, Expansions
    <3> QED BY <2>1, <3>1, EndsOf
  <2>6. b = EndOf(h).old + e2[h].below /\ d = EndOf(h).new + e2[h].below
    BY <1>10 DEF Expands
  <2> HIDE DEF a, b, c, d
  <2>7. Runs(out, h, Rights(out), new, d)
    BY ONLY <1>5, <1>7, <1>8, <2>2, <2>3, <2>4, new \in Int, RunsFromAbove
  <2>8. Runs(out, h, Olds(out), old, b)
    BY ONLY <1>5, <1>7, <1>8, <2>2, <2>3, <2>4, old \in Int, RunsFromAbove
  <2> QED BY <1>9, <2>5, <2>6, <2>7, <2>8 DEF Counted
<1>11. CASE ~above
  <2>1. old = b /\ new = d
    BY <1>11
  <2> DEFINE b2 == b + count
             d2 == d + count
  <2>2. b =< b2 /\ d =< d2 /\ b2 \in Int /\ d2 \in Int
    BY <1>7
  <2>3. Numbered(Rights(lines), d, d2) /\ Numbered(Olds(lines), b, b2)
    BY <1>6, <2>1
  <2>4. /\ \A i \in DOMAIN rows : rows[i].hunk = h /\ Rights(rows)[i] > 0 => i < p
        /\ \A i \in DOMAIN rows : rows[i].hunk = h /\ Olds(rows)[i] > 0 => i < p
    BY <1>4, <1>11
  <2>5. b2 = EndOf(h).old + e2[h].below /\ d2 = EndOf(h).new + e2[h].below
    <3>1. e2[h].below = e[h].below + count /\ e[h].below \in Nat
      BY <1>11 DEF Expands, Expansions
    <3> QED BY <3>1, EndsOf
  <2>6. a = Hunks[h].old - e2[h].above /\ c = Hunks[h].new - e2[h].above
    BY <1>11 DEF Expands
  <2> HIDE DEF a, b, c, d, b2, d2
  <2>7. Runs(out, h, Rights(out), c, d2)
    BY ONLY <1>5, <1>7, <1>8, <2>2, <2>3, <2>4, RunsFromBelow
  <2>8. Runs(out, h, Olds(out), a, b2)
    BY ONLY <1>5, <1>7, <1>8, <2>2, <2>3, <2>4, RunsFromBelow
  <2> QED BY <1>9, <2>5, <2>6, <2>7, <2>8 DEF Counted
<1> QED BY <1>10, <1>11

-----------------------------------------------------------------------------
(* The invariant.                                                          *)

\* Its parts, said of the rows as a whole.
LEMMA InvParts ==
  /\ Headers = HeadersOf(shown)
  /\ NumbersInv <=> /\ split => \A i \in DOMAIN shown : shown[i].left = shown[i].old
                    /\ ~mixed => Counted(shown, expanded)
<1>1. Headers = HeadersOf(shown)
  BY DEF Headers, HeadersOf, Header
<1>2. /\ Rights(shown) = [i \in DOMAIN shown |-> shown[i].right]
      /\ Olds(shown) = [i \in DOMAIN shown |-> shown[i].old]
  BY DEF Rights, Olds
<1>3. NumbersInv <=> /\ split => \A i \in DOMAIN shown : shown[i].left = shown[i].old
                     /\ ~mixed => Counted(shown, expanded)
  BY <1>2, Zenon DEF NumbersInv, Counted
<1> QED BY <1>1, <1>3

\* The rows as they are first presented.
LEMMA FreshRows ==
  ASSUME NEW sided \in BOOLEAN, NEW e, e = [h \in DOMAIN Hunks |-> [above |-> 0, below |-> 0]],
         NEW rows, rows = Presentation(sided)
  PROVE  /\ e \in Expansions /\ LaidOut(rows, HeadersOf(rows)) /\ Counted(rows, e)
         /\ sided => \A i \in DOMAIN rows : rows[i].left = rows[i].old
<1>1. /\ \E first : LaidOut(rows, first)
      /\ sided => \A i \in DOMAIN rows : rows[i].left = rows[i].old
      /\ \A h \in DOMAIN Hunks : /\ Runs(rows, h, Rights(rows), Hunks[h].new, EndOf(h).new)
                                 /\ Runs(rows, h, Olds(rows), Hunks[h].old, EndOf(h).old)
  BY PresentationIs
<1>2. LaidOut(rows, HeadersOf(rows))
  BY <1>1, LaidOutByHeaders
<1>3. e \in Expansions /\ \A h \in DOMAIN Hunks : e[h].above = 0 /\ e[h].below = 0
  BY DEF Expansions
<1>4. ASSUME NEW h \in DOMAIN Hunks
      PROVE  /\ Hunks[h].new - e[h].above = Hunks[h].new /\ EndOf(h).new + e[h].below = EndOf(h).new
             /\ Hunks[h].old - e[h].above = Hunks[h].old /\ EndOf(h).old + e[h].below = EndOf(h).old
  BY <1>3, EndsOf
<1>5. Counted(rows, e)
  BY <1>1, <1>4 DEF Counted
<1> QED BY <1>1, <1>2, <1>3, <1>5

\* The rows, the numbers and the columns stay.
LEMMA RowsStay ==
  ASSUME ViewportInv, UNCHANGED <<split, shown, expanded, mixed>>, stale' \in BOOLEAN, FetchInv'
  PROVE  ViewportInv'
<1>1. Headers' = Headers /\ NumbersInv' = NumbersInv
  BY DEF Headers, Header, NumbersInv
<1> QED BY <1>1 DEF ViewportInv

\* A fetch that is the one it was, next to the same rows, or none.
LEMMA FetchStays ==
  ASSUME FetchInv, UNCHANGED <<expanded, fetch>>, stale => stale'
  PROVE  FetchInv'
BY DEF FetchInv

\* With no fetch on its way there is nothing to say of it.
LEMMA NoFetchIsFine == fetch' = NoFetch => FetchInv'
BY DEF FetchInv, NoFetch

\* Other columns present the rows anew, and a fetch on its way turns stale.
LEMMA ConfigureStep ==
  ASSUME ViewportInv, NEW sided \in BOOLEAN, NEW wrapped \in BOOLEAN, Configure(sided, wrapped)
  PROVE  ViewportInv'
<1>1. stale' \in BOOLEAN /\ mixed' \in BOOLEAN /\ split' \in BOOLEAN /\ split' = sided
  BY DEF Configure, ViewportInv
<1>2. CASE sided = split
  <2>1. UNCHANGED <<split, shown, expanded, mixed, stale, fetch>>
    BY <1>2 DEF Configure, ViewportInv
  <2>2. FetchInv'
    BY <2>1, FetchStays DEF ViewportInv
  <2> QED BY <1>1, <2>1, <2>2, RowsStay
<1>3. CASE sided # split
  <2>1. /\ shown' = Presentation(sided) /\ expanded' = [h \in DOMAIN Hunks |-> [above |-> 0, below |-> 0]]
        /\ fetch' = fetch /\ (fetch # NoFetch => stale')
    BY <1>3 DEF Configure
  <2>2. /\ expanded' \in Expansions /\ LaidOut(shown', HeadersOf(shown')) /\ Counted(shown', expanded')
        /\ sided => \A i \in DOMAIN shown' : shown'[i].left = shown'[i].old
    BY <2>1, FreshRows
  <2>3. FetchInv'
    BY <2>1 DEF ViewportInv, FetchInv, NoFetch
  <2>4. Headers' = HeadersOf(shown')
    BY DEF Headers, HeadersOf, Header
  <2>5. NumbersInv'
    <3>1. (NumbersInv <=> /\ split => \A i \in DOMAIN shown : shown[i].left = shown[i].old
                          /\ ~mixed => Counted(shown, expanded))'
      BY InvParts, PTL
    <3> QED BY <1>1, <2>2, <3>1
  <2> QED BY <1>1, <2>2, <2>3, <2>4, <2>5 DEF ViewportInv, Expansions
<1> QED BY <1>2, <1>3

\* Under the header of the hunk, or before the next one.
LEMMA InsertPointIs ==
  ASSUME NEW h \in DOMAIN Hunks, NEW above \in BOOLEAN
  PROVE  InsertPoint(h, above) = IF above THEN Headers[h] + 1 ELSE Headers[h + 1]
<1>1. Len(Hunks) \in Nat /\ h \in 1 .. Len(Hunks) /\ DOMAIN Hunks = 1 .. Len(Hunks)
  BY HunksAre
<1>2. Headers[h] = Header(h)
  BY <1>1 DEF Headers
<1>3. Headers[h + 1] = IF h < Len(Hunks) THEN Header(h + 1) ELSE Len(shown) + 1
  <2>1. h + 1 \in 1 .. Len(Hunks) + 1 /\ (h + 1 =< Len(Hunks) <=> h < Len(Hunks))
    BY <1>1
  <2> QED BY <2>1 DEF Headers
<1> QED BY <1>2, <1>3 DEF InsertPoint

\* How many of the lines asked for there are: all of them above a hunk.
LEMMA ArrivedCount ==
  ASSUME NEW f, NEW e \in Expansions, NEW count,
         f \in [hunk : DOMAIN Hunks, above : BOOLEAN, old : Int, new : Int, count : Nat],
         count = Smaller(f.count, Larger(0, FileLines + 1 - f.old))
  PROVE  count \in Nat /\ (NextTo(f, e) /\ f.above => count = f.count)
<1> DEFINE h == f.hunk
           x == f.old
           n == f.count
<1>1. h \in DOMAIN Hunks /\ x \in Int /\ n \in Nat /\ FileLines \in Nat
  BY ViewportAssumption
<1>2. count = Smaller(n, Larger(0, FileLines + 1 - x))
  OBVIOUS
<1>3. NextTo(f, e) /\ f.above => x + n = Hunks[h].old - e[h].above
  BY DEF NextTo
<1>4. /\ Hunks[h].old \in Nat /\ EndOf(h).old \in Nat /\ Hunks[h].old =< EndOf(h).old
      /\ EndOf(h).old =< FileLines + 1 /\ e[h].above \in Nat
  BY <1>1, EndsOf DEF Expansions
<1> HIDE DEF h, x, n
<1>5. NextTo(f, e) /\ f.above => x + n =< FileLines + 1
  BY <1>1, <1>3, <1>4
<1>6. count \in Nat
  BY <1>1, <1>2 DEF Smaller, Larger
<1>7. x + n =< FileLines + 1 => count = n
  BY ONLY <1>1, <1>2 DEF Smaller, Larger
<1> QED BY <1>5, <1>6, <1>7 DEF n

\* Fetched lines join the rows of their hunk at the right end.
LEMMA ArrivesStep ==
  ASSUME ViewportInv, ContextArrives
  PROVE  ViewportInv'
<1> DEFINE f == fetch
           h == fetch.hunk
           count == Smaller(fetch.count, Larger(0, FileLines + 1 - fetch.old))
           at == InsertPoint(h, fetch.above)
           old == fetch.old
           new == fetch.new
           above == fetch.above
           lines == [i \in 1 .. count |->
                       Row(h, IF split THEN old + i - 1 ELSE 0, new + i - 1, old + i - 1)]
           first == HeadersOf(shown)
           out == SubSeq(shown, 1, at - 1) \o lines \o SubSeq(shown, at, Len(shown))
<1>1. /\ fetch # NoFetch /\ fetch' = NoFetch /\ stale' = FALSE /\ mixed' = (mixed \/ stale)
      /\ shown' = out /\ split' = split
      /\ expanded' = IF above THEN [expanded EXCEPT ![h].above = @ + count]
                              ELSE [expanded EXCEPT ![h].below = @ + count]
  BY DEF ContextArrives
<1>2. /\ fetch \in [hunk : DOMAIN Hunks, above : BOOLEAN, old : Int, new : Int, count : Nat]
      /\ ~stale => NextTo(fetch, expanded)
  BY <1>1, Zenon DEF ViewportInv, FetchInv, NextTo
<1>3. h \in DOMAIN Hunks /\ above \in BOOLEAN /\ old \in Int /\ new \in Int /\ fetch.count \in Nat
  BY <1>2
<1>4. expanded \in Expansions /\ LaidOut(shown, first) /\ split \in BOOLEAN /\ stale \in BOOLEAN /\ mixed \in BOOLEAN
  BY InvParts DEF ViewportInv, Expansions
<1>5. count \in Nat /\ (NextTo(fetch, expanded) /\ above => count = fetch.count)
  BY <1>2, <1>4, ArrivedCount
<1>6. /\ Body(lines, h, old, old + count, new, new + count, split)
      /\ \A i \in DOMAIN lines : ~lines[i].head
  <2> HIDE DEF count, h, old, new
  <2> QED BY <1>3, <1>4, <1>5, ContextBody
<1>7. at = IF above THEN first[h] + 1 ELSE first[h + 1]
  BY <1>3, InvParts, InsertPointIs
<1>8. ~stale => /\ above => old + count = Hunks[h].old - expanded[h].above
                            /\ new + count = Hunks[h].new - expanded[h].above
                /\ ~above => old = EndOf(h).old + expanded[h].below /\ new = EndOf(h).new + expanded[h].below
  BY <1>2, <1>5 DEF NextTo
<1>9. Expands(expanded', expanded, h, above, count)
  <2> HIDE DEF count, h, above
  <2>1. expanded \in [DOMAIN Hunks -> [above : Nat, below : Nat]]
    BY <1>4 DEF Expansions
  <2>2. CASE above
    <3>1. expanded' = [expanded EXCEPT ![h].above = @ + count]
      BY <1>1, <2>2
    <3>2. expanded' \in [DOMAIN Hunks -> [above : Nat, below : Nat]]
      BY ONLY <1>3, <1>5, <2>1, <3>1
    <3>3. \A k \in DOMAIN Hunks : k # h => expanded'[k] = expanded[k]
      BY ONLY <1>3, <2>1, <3>1
    <3>4. expanded'[h].above = expanded[h].above + count /\ expanded'[h].below = expanded[h].below
      BY ONLY <1>3, <2>1, <3>1
    <3> QED BY <2>1, <2>2, <3>2, <3>3, <3>4 DEF Expands, Expansions
  <2>3. CASE ~above
    <3>1. expanded' = [expanded EXCEPT ![h].below = @ + count]
      BY <1>1, <2>3
    <3>2. expanded' \in [DOMAIN Hunks -> [above : Nat, below : Nat]]
      BY ONLY <1>3, <1>5, <2>1, <3>1
    <3>3. \A k \in DOMAIN Hunks : k # h => expanded'[k] = expanded[k]
      BY ONLY <1>3, <2>1, <3>1
    <3>4. expanded'[h].above = expanded[h].above /\ expanded'[h].below = expanded[h].below + count
      BY ONLY <1>3, <2>1, <3>1
    <3> QED BY <2>1, <2>3, <3>2, <3>3, <3>4 DEF Expands, Expansions
  <2> QED BY <1>3, <2>2, <2>3
<1> HIDE DEF lines, count, at, first, h, old, new, above
<1>10. shown \in Seq(DisplayRow) /\ lines \in Seq(DisplayRow) /\ at \in 1 .. Len(shown) + 1
  <2>1. first[h] + 1 \in 1 .. Len(shown) + 1 /\ first[h + 1] \in 1 .. Len(shown) + 1
    BY <1>3, <1>4, NumberedRows
  <2> QED BY <1>4, <1>6, <1>7, <2>1 DEF LaidOut, Body
<1>11. Woven(out, shown, lines, at)
  BY <1>10, InsertedIsWoven
<1> HIDE DEF out
<1>12. /\ DOMAIN shown = 1 .. Len(shown) /\ DOMAIN lines = 1 .. Len(lines) /\ DOMAIN out = 1 .. Len(out)
       /\ \A j \in 1 .. Len(lines) : lines[j].hunk = h /\ ~lines[j].head
  BY <1>6, <1>10, <1>11 DEF Body, Woven
<1>13. LaidOut(shown', Headers')
  <2>1. at = first[h] + 1 \/ at = first[h + 1]
    BY <1>7
  <2>2. \E g : LaidOut(out, g)
    BY ONLY <1>3, <1>4, <1>10, <1>11, <1>12, <2>1, WovenIsLaidOut
  <2>3. LaidOut(out, HeadersOf(out))
    BY <2>2, LaidOutByHeaders
  <2>4. Headers' = HeadersOf(shown')
    BY DEF Headers, HeadersOf, Header
  <2> QED BY <1>1, <2>3, <2>4
<1>14. split => \A n \in DOMAIN out : out[n].left = out[n].old
  <2> SUFFICES ASSUME split, NEW n \in 1 .. Len(out) PROVE out[n].left = out[n].old
    BY <1>12
  <2>1. \/ \E i \in 1 .. Len(shown) : i < at /\ n = i /\ out[n] = shown[i]
        \/ \E i \in 1 .. Len(shown) : i >= at /\ n = i + Len(lines) /\ out[n] = shown[i]
        \/ \E j \in 1 .. Len(lines) : n = at - 1 + j /\ out[n] = lines[j]
    BY ONLY <1>10, <1>11, n \in 1 .. Len(out), WovenFrom
  <2>2. \A i \in DOMAIN shown : shown[i].left = shown[i].old
    BY DEF ViewportInv, NumbersInv
  <2>3. \A j \in DOMAIN lines : lines[j].left = lines[j].old
    BY <1>6 DEF Body
  <2> QED BY <1>12, <2>1, <2>2, <2>3
<1>15. ~mixed' => Counted(out, expanded')
  <2> SUFFICES ASSUME ~mixed, ~stale PROVE Counted(out, expanded')
    BY <1>1, <1>4
  <2>1. Counted(shown, expanded)
    BY InvParts DEF ViewportInv
  <2>2. Woven(out, shown, lines, IF above THEN first[h] + 1 ELSE first[h + 1])
    BY <1>7, <1>11
  <2>3. /\ above => old + count = Hunks[h].old - expanded[h].above
                    /\ new + count = Hunks[h].new - expanded[h].above
        /\ ~above => old = EndOf(h).old + expanded[h].below /\ new = EndOf(h).new + expanded[h].below
    BY <1>8
  <2> DEFINE e2 == expanded'
  <2>4. Expands(e2, expanded, h, above, count)
    BY <1>9
  <2> HIDE DEF e2
  <2>5. Counted(out, e2)
    BY ONLY <1>3, <1>4, <1>5, <1>6, <2>1, <2>2, <2>3, <2>4, ArrivalCounts
  <2> QED BY <2>5 DEF e2
<1>16. NumbersInv'
  <2>1. (NumbersInv <=> /\ split => \A i \in DOMAIN shown : shown[i].left = shown[i].old
                        /\ ~mixed => Counted(shown, expanded))'
    BY InvParts, PTL
  <2> QED BY <1>1, <1>14, <1>15, <2>1
<1>17. FetchInv'
  BY <1>1, NoFetchIsFine
<1>18. expanded' \in [DOMAIN Hunks -> [above : Nat, below : Nat]]
  BY <1>9 DEF Expands, Expansions
<1>19. split' \in BOOLEAN /\ stale' \in BOOLEAN /\ mixed' \in BOOLEAN
  BY <1>1, <1>4
<1> QED BY <1>13, <1>16, <1>17, <1>18, <1>19 DEF ViewportInv

\* Numbers that run through a hunk follow one another.
LEMMA RunsInTurn ==
  ASSUME NEW h \in DOMAIN Hunks, NEW number \in [DOMAIN shown -> Int], NEW from \in Int, NEW to \in Int,
         shown \in Seq(DisplayRow), Runs(shown, h, number, from, to),
         \A i \in DOMAIN shown : shown[i].head => ~(number[i] > 0)
  PROVE  InTurn(h, number)
<1> DEFINE L == {i \in DOMAIN shown : shown[i].hunk = h /\ ~shown[i].head /\ number[i] > 0}
<1>1. DOMAIN shown = 1 .. Len(shown) /\ Len(shown) \in Nat
  OBVIOUS
<1>2. ASSUME NEW i \in L, NEW j \in L, i < j, \A k \in L : k =< i \/ j =< k
      PROVE  number[j] = number[i] + 1
  <2> DEFINE x == number[i] + 1
  <2>1. /\ number[i] \in Int /\ number[j] \in Int /\ number[i] > 0 /\ number[j] > 0
        /\ i \in DOMAIN shown /\ j \in DOMAIN shown /\ shown[i].hunk = h /\ shown[j].hunk = h
    OBVIOUS
  <2>2. number[i] < number[j] /\ from =< number[i] /\ number[j] < to
    BY <1>2, <2>1 DEF Runs
  <2>3. x \in from .. to - 1 /\ x > 0
    BY <2>1, <2>2
  <2> HIDE DEF x
  <2>4. PICK k \in DOMAIN shown : shown[k].hunk = h /\ number[k] = x
    BY <2>3 DEF Runs
  <2>5. k \in L /\ number[k] > 0
    BY <2>3, <2>4
  <2>6. k =< i \/ j =< k
    BY <1>2, <2>5
  <2>7. ~(k < i) /\ k # i
    <3>1. k < i => number[k] < number[i]
      BY <2>1, <2>4, <2>5 DEF Runs
    <3> QED BY <2>1, <2>4, <3>1 DEF x
  <2>8. j = k \/ j < k
    BY <1>1, <2>1, <2>6, <2>7
  <2>9. j < k => number[j] < number[k]
    BY <2>1, <2>4, <2>5 DEF Runs
  <2> QED BY <2>1, <2>2, <2>4, <2>8, <2>9 DEF x
<1> QED BY <1>2 DEF InTurn

\* What the invariant says of the numbers is what the reader sees.
LEMMA ContiguousFollows == ViewportInv => ContextIsContiguous
<1> SUFFICES ASSUME ViewportInv, ~mixed, NEW h \in DOMAIN Hunks
             PROVE  /\ InTurn(h, [i \in DOMAIN shown |-> shown[i].right])
                    /\ InTurn(h, [i \in DOMAIN shown |-> IF split THEN shown[i].left ELSE shown[i].old])
  BY DEF ContextIsContiguous
<1> DEFINE a == Hunks[h].old - expanded[h].above
           b == EndOf(h).old + expanded[h].below
           c == Hunks[h].new - expanded[h].above
           d == EndOf(h).new + expanded[h].below
           R == Rights(shown)
           O == Olds(shown)
<1>1. a \in Int /\ b \in Int /\ c \in Int /\ d \in Int
  <2>1. expanded[h].above \in Nat /\ expanded[h].below \in Nat
    BY DEF ViewportInv
  <2> QED BY <2>1, EndsOf
<1>2. Runs(shown, h, R, c, d) /\ Runs(shown, h, O, a, b)
  BY InvParts DEF ViewportInv, Counted
<1>3. shown \in Seq(DisplayRow) /\ DOMAIN shown = 1 .. Len(shown)
  BY DEF ViewportInv, LaidOut
<1>4. \A i \in DOMAIN shown : shown[i].right \in Int /\ shown[i].old \in Int
  BY <1>3, RowParts
<1>5. R \in [DOMAIN shown -> Int] /\ O \in [DOMAIN shown -> Int]
  BY <1>4 DEF Rights, Olds
<1>6. \A i \in DOMAIN shown : shown[i].head => shown[i].right = 0 /\ shown[i].old = 0
  BY DEF ViewportInv, LaidOut
<1>7. /\ \A i \in DOMAIN shown : shown[i].head => ~(R[i] > 0)
      /\ \A i \in DOMAIN shown : shown[i].head => ~(O[i] > 0)
  BY <1>6 DEF Rights, Olds
<1>8. R = [i \in DOMAIN shown |-> shown[i].right]
  BY DEF Rights
<1>9. O = [i \in DOMAIN shown |-> IF split THEN shown[i].left ELSE shown[i].old]
  <2>1. split => \A i \in DOMAIN shown : shown[i].left = shown[i].old
    BY DEF ViewportInv, NumbersInv
  <2> QED BY <2>1 DEF Olds
<1> HIDE DEF a, b, c, d, R, O
<1>10. InTurn(h, R)
  BY ONLY <1>1, <1>2, <1>3, <1>5, <1>7, h \in DOMAIN Hunks, RunsInTurn
<1>11. InTurn(h, O)
  BY ONLY <1>1, <1>2, <1>3, <1>5, <1>7, h \in DOMAIN Hunks, RunsInTurn
<1> QED BY <1>8, <1>9, <1>10, <1>11

\* The first rows satisfy the invariant.
LEMMA ViewportStarts == ViewportInit => ViewportInv
<1> SUFFICES ASSUME ViewportInit PROVE ViewportInv
  OBVIOUS
<1>1. /\ expanded \in Expansions /\ LaidOut(shown, HeadersOf(shown)) /\ Counted(shown, expanded)
      /\ split => \A i \in DOMAIN shown : shown[i].left = shown[i].old
  BY FreshRows DEF ViewportInit
<1>2. split \in BOOLEAN /\ stale \in BOOLEAN /\ mixed \in BOOLEAN
  BY DEF ViewportInit
<1>3. FetchInv
  BY DEF ViewportInit, FetchInv, NoFetch
<1> QED BY <1>1, <1>2, <1>3, InvParts DEF ViewportInv, Expansions

\* Every step of the source view keeps the invariant.
LEMMA ViewportStep == ViewportInv /\ [ViewportNext]_viewportVars => ViewportInv'
<1> SUFFICES ASSUME ViewportInv, [ViewportNext]_viewportVars PROVE ViewportInv'
  OBVIOUS
<1>1. ASSUME UNCHANGED <<split, shown, expanded, mixed, stale, fetch>> PROVE ViewportInv'
  BY <1>1, FetchStays, RowsStay DEF ViewportInv
<1>2. CASE Frame
  BY <1>1, <1>2 DEF Frame
<1>3. ASSUME NEW sided \in BOOLEAN, NEW wrapped \in BOOLEAN, Configure(sided, wrapped) PROVE ViewportInv'
  BY <1>3, ConfigureStep
<1>4. ASSUME NEW dy, ScrollBy(dy) PROVE ViewportInv'
  BY <1>1, <1>4 DEF ScrollBy
<1>5. ASSUME NEW forward, NextHunk(forward) PROVE ViewportInv'
  BY <1>1, <1>5 DEF NextHunk
<1>6. ASSUME NEW end, JumpEdge(end) PROVE ViewportInv'
  BY <1>1, <1>6 DEF JumpEdge
<1>7. ASSUME NEW i, RevealLine(i) PROVE ViewportInv'
  BY <1>1, <1>7 DEF RevealLine
<1>8. ASSUME NEW request, ExpandContext(request) PROVE ViewportInv'
  <2> DEFINE row == IF hunkTarget > 0 THEN hunkTarget ELSE cursor.row
             plan == Plan(row, request)
  <2>1. plan # NoFetch /\ fetch' = plan /\ UNCHANGED <<split, shown, expanded, mixed, stale>>
    BY <1>8 DEF ExpandContext
  <2>2. expanded \in [DOMAIN Hunks -> [above : Nat, below : Nat]]
    BY DEF ViewportInv
  <2>3. NextTo(plan, expanded)
    <3> HIDE DEF row
    <3> QED BY <2>1, <2>2, PlanIsNext
  <2> HIDE DEF plan
  <2>4. NextTo(fetch', expanded')
    BY <2>1, <2>3
  <2>5. FetchInv'
    BY <2>4, Zenon DEF NextTo, FetchInv
  <2> QED BY <2>1, <2>5, RowsStay DEF ViewportInv
<1>9. CASE ContextRefused
  <2>1. fetch' = NoFetch /\ stale' = FALSE /\ UNCHANGED <<split, shown, expanded, mixed>>
    BY <1>9 DEF ContextRefused
  <2> QED BY <2>1, NoFetchIsFine, RowsStay
<1>10. CASE ContextArrives
  BY <1>10, ArrivesStep
<1>11. CASE UNCHANGED viewportVars
  BY <1>1, <1>11 DEF viewportVars
<1> QED BY <1>2, <1>3, <1>4, <1>5, <1>6, <1>7, <1>8, <1>9, <1>10, <1>11 DEF ViewportNext

\* Whatever hidden lines were asked for, in whichever order and however the
\* answers raced a change of the columns, the lines of a hunk follow one
\* another on both sides of the file, for any file and any hunks of it
\* (plan_for_row, insert_context).
THEOREM HiddenLinesAreContiguous == ViewportSpec => []ContextIsContiguous
<1>1. ViewportSpec => []ViewportInv
  BY ViewportStarts, ViewportStep, PTL DEF ViewportSpec
<1> QED BY <1>1, ContiguousFollows, PTL

-----------------------------------------------------------------------------
(* FileTree.                                                               *)
TreeInv == TreeIsCurrent /\ ReleaseInv

\* What rebuild lists is what is chosen, for a release of the list that is there.
LEMMA RebuildIsCurrent ==
  ASSUME NEW at, Rebuild(reviewed', releaseList', releaseFilter', fileFilter', collapsed', at), ReleaseInv'
  PROVE  TreeIsCurrent'
<1> DEFINE r == reviewed'
           list == releaseList'
           n == releaseFilter'
           query == fileFilter'
           fs == {f \in Entries(r, list, n) : Fits(r, f, query)}
<1>1. /\ visibleFiles' = RowFiles(RowsOf(r, fs, {}, query))
      /\ treeRows' = RowsOf(r, fs, collapsed', query)
  BY DEF Rebuild
<1>2. Chosen' = {f \in Changed(r) : Fits(r, f, query) /\ (n # 0 => TreePaths[r][f] \in wanted')}
  BY DEF Chosen, PathOf, Changed, Fits
<1>3. n # 0 => n \in DOMAIN list /\ wanted' = list[n]
  BY DEF ReleaseInv
<1>4. Entries(r, list, n) = IF n = 0 THEN Changed(r)
                            ELSE {f \in Changed(r) : n \in DOMAIN list /\ TreePaths[r][f] \in list[n]}
  BY DEF Entries
<1>5. fs = Chosen'
  <2> HIDE DEF r, list, n, query
  <2>1. CASE n = 0
    BY <1>2, <1>4, <2>1
  <2>2. CASE n # 0
    BY <1>2, <1>3, <1>4, <2>2
  <2> QED BY <2>1, <2>2
<1> QED BY <1>1, <1>5 DEF TreeIsCurrent

\* Nothing that the tree is made of changes.
LEMMA TreeStays ==
  ASSUME TreeIsCurrent, ReleaseInv, ReleaseInv',
         UNCHANGED <<reviewed, fileFilter, collapsed, treeRows, visibleFiles, releaseFilter>>,
         releaseFilter # 0 => wanted' = wanted
  PROVE  TreeIsCurrent'
<1>1. Chosen' = Chosen
  BY DEF Chosen, PathOf
<1> QED BY <1>1 DEF TreeIsCurrent

\* A step on the release list that leaves list, choice and what it touched.
LEMMA ReleaseStays ==
  ASSUME ReleaseInv, UNCHANGED <<releaseList, listing, releaseFilter, wanted>>
  PROVE  ReleaseInv'
BY DEF ReleaseInv

\* Closing or opening a folder, or showing a file.
LEMMA ActivateStep ==
  ASSUME TreeInv, NEW nth, Activate(nth)
  PROVE  TreeInv'
<1>1. ReleaseInv'
  BY ReleaseStays DEF TreeInv, Activate
<1>2. CASE treeRows[nth].file # 0
  BY <1>1, <1>2, TreeStays DEF TreeInv, Activate
<1>3. CASE treeRows[nth].file = 0
  <2>1. /\ Rebuild(reviewed, releaseList, releaseFilter, fileFilter, collapsed', nth)
        /\ UNCHANGED <<reviewed, releaseList, releaseFilter, fileFilter>>
    BY <1>3 DEF Activate
  <2>2. Rebuild(reviewed', releaseList', releaseFilter', fileFilter', collapsed', nth)
    BY <2>1
  <2> QED BY <1>1, <2>2, RebuildIsCurrent DEF TreeInv
<1> QED BY <1>2, <1>3

\* Every step of the tree keeps it current.
LEMMA TreeStep == TreeInv /\ [TreeNext]_treeVars => TreeInv'
<1> SUFFICES ASSUME TreeInv, [TreeNext]_treeVars PROVE TreeInv'
  OBVIOUS
<1>1. ASSUME UNCHANGED <<reviewed, releaseList, listing, fileFilter, releaseFilter, wanted, collapsed, treeRows,
                         visibleFiles>>
      PROVE  TreeInv'
  BY <1>1, ReleaseStays, TreeStays DEF TreeInv
<1>2. ASSUME NEW query, TypeFilter(query) PROVE TreeInv'
  <2>1. ReleaseInv'
    BY <1>2, ReleaseStays DEF TreeInv, TypeFilter
  <2>2. Rebuild(reviewed', releaseList', releaseFilter', fileFilter', collapsed', treeCursor)
    BY <1>2 DEF TypeFilter
  <2> QED BY <2>1, <2>2, RebuildIsCurrent DEF TreeInv
<1>3. ASSUME NEW nth, FilterRelease(nth) PROVE TreeInv'
  <2>1. ReleaseInv'
    BY <1>3 DEF TreeInv, FilterRelease, ReleaseInv
  <2>2. Rebuild(reviewed', releaseList', releaseFilter', fileFilter', collapsed', treeCursor)
    BY <1>3 DEF FilterRelease
  <2> QED BY <2>1, <2>2, RebuildIsCurrent DEF TreeInv
<1>4. ASSUME NEW nth, ActivateTree(nth) PROVE TreeInv'
  BY <1>4, ActivateStep DEF ActivateTree
<1>5. ASSUME NEW row, MoveCursor(row) PROVE TreeInv'
  BY <1>1, <1>5 DEF MoveCursor
<1>6. CASE TreeUp \/ TreeDown \/ TreeHome \/ TreeEnd
  BY <1>5, <1>6 DEF TreeUp, TreeDown, TreeHome, TreeEnd
<1>7. CASE TreeLeft \/ TreeRight
  BY <1>5, <1>7, ActivateStep DEF TreeLeft, TreeRight
<1>8. CASE TreeSpace
  BY <1>1, <1>8 DEF TreeSpace
<1>9. ASSUME NEW forward, StepToFile(forward) \/ NavigateHit(forward) PROVE TreeInv'
  BY <1>1, <1>9 DEF StepToFile, NavigateHit
<1>10. ASSUME NEW fs, TypeFind(fs) PROVE TreeInv'
  BY <1>1, <1>10 DEF TypeFind
<1>11. CASE ListingAnswers
  <2>1. ReleaseInv'
    BY <1>11 DEF TreeInv, ListingAnswers, ReleaseInv
  <2> QED BY <1>11, <2>1, TreeStays DEF TreeInv, ListingAnswers
<1>12. CASE RefreshInPlace
  <2>1. ReleaseInv'
    BY <1>12 DEF RefreshInPlace, ReleaseInv
  <2>2. Rebuild(reviewed', releaseList', releaseFilter', fileFilter', collapsed', treeCursor)
    BY <1>12 DEF RefreshInPlace
  <2> QED BY <2>1, <2>2, RebuildIsCurrent DEF TreeInv
<1>13. ASSUME NEW r, NEW list, InstallReview(r, list) PROVE TreeInv'
  <2>1. ReleaseInv'
    BY <1>13 DEF InstallReview, ReleaseInv
  <2>2. Rebuild(reviewed', releaseList', releaseFilter', fileFilter', collapsed', treeCursor)
    BY <1>13 DEF InstallReview
  <2> QED BY <2>1, <2>2, RebuildIsCurrent DEF TreeInv
<1>14. CASE UNCHANGED treeVars
  BY <1>1, <1>14 DEF treeVars
<1> QED
  BY <1>2, <1>3, <1>4, <1>6, <1>7, <1>8, <1>9, <1>10, <1>11, <1>12, <1>13, <1>14 DEF TreeNext

\* Whatever order filters, releases, folders, refreshes, late release lists and
\* other reviews come in, the rows on screen and the files that the next-file
\* commands go through are those of what is chosen now (TreeIsCurrent), for any
\* reviews, lists and texts. Half of TreeShowsChosen: the other half, what
\* flatten makes of a set of files, is checked by TLC.
THEOREM TheTreeIsCurrent == TreeSpec => []TreeIsCurrent
<1>1. TreeInit => TreeInv
  <2> SUFFICES ASSUME TreeInit PROVE TreeInv
    OBVIOUS
  <2>1. Chosen = Changed(1)
    BY DEF TreeInit, Chosen, Fits
  <2> QED BY <2>1 DEF TreeInit, TreeInv, TreeIsCurrent, ReleaseInv
<1>2. TreeInv => TreeIsCurrent
  BY DEF TreeInv
<1> QED BY <1>1, <1>2, TreeStep, PTL DEF TreeSpec
=============================================================================

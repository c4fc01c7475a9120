------------------------------ MODULE Viewport ------------------------------
(* The source view of one file (viewport.rs, viewport/layout.rs and        *)
(* viewport/navigation.rs): its display rows, the hidden lines that are    *)
(* fetched into them (expand_context of reader.rs), the cursor that says   *)
(* which row is on top, and the source anchor that keeps the reading place *)
(* when rows change their heights or numbers.                              *)
(*                                                                         *)
(* Heights are whole lines: one for a row, two for a long line that wraps. *)
EXTENDS Integers, Sequences, FiniteSets, SequencesExt

CONSTANTS
  Hunks,         \* the hunks: old and new start, and blocks of rows
  FileLines,   \* lines of the old version of the file
  Long,          \* old numbers of the lines that wrap
  Marked,        \* new numbers of the lines a find hit or a thread is on
  Height,        \* lines that fit the window
  Step,          \* CONTEXT_STEP
  Budget,        \* CONTEXT_BUDGET
  MaxActs        \* bound on what the user does

VARIABLES
  split,      \* side by side
  wrap,       \* long lines wrap
  shown,      \* the display rows
  expanded,   \* hidden lines inserted above and below each hunk
  hunkTarget, \* the row of the hunk navigated to, 0 for none
  cursor,     \* top row and the lines of it that are scrolled away
  anchor,     \* source line at a height of the window, NoAnchor when unknown
  reveal,     \* pending_anchor: the anchor is a place to go to
  dirty,      \* geometry has to be made anew
  pending,    \* pending_scroll
  frame,      \* rows on screen with their heights, empty before the first
  fetch,      \* context on its way, NoFetch when context_busy is unset
  stale,      \* the columns changed since that context was asked for
  mixed,      \* such context has been inserted into the present rows
  moved,      \* the user went elsewhere since the last frame
  acts

viewportVars ==
  <<split, wrap, shown, expanded, hunkTarget, cursor, anchor, reveal, dirty, pending, frame, fetch,
    stale, mixed, moved, acts>>

NoAnchor == [side |-> "none", line |-> 0, part |-> 0, y |-> 0]
NoFetch == [hunk |-> 0, above |-> FALSE, old |-> 0, new |-> 0, count |-> 0]

-----------------------------------------------------------------------------
(* Rows.                                                                   *)

\* The old and new line at which each block of a hunk begins, and the hunk ends.
Starts(h) ==
  LET blocks == Hunks[h].blocks
      start[n \in 0 .. Len(blocks)] ==
        IF n = 0 THEN [old |-> Hunks[h].old, new |-> Hunks[h].new]
        ELSE [old |-> start[n - 1].old + blocks[n].context + blocks[n].removed,
              new |-> start[n - 1].new + blocks[n].context + blocks[n].added]
  IN  start

EndOf(h) == Starts(h)[Len(Hunks[h].blocks)]
OldCount(h) == EndOf(h).old - Hunks[h].old
NewCount(h) == EndOf(h).new - Hunks[h].new

\* A file with text hunks, which lie within it.
ASSUME ViewportAssumption ==
  /\ Hunks \in Seq([old : Nat, new : Nat, blocks : Seq([context : Nat, removed : Nat, added : Nat])])
  /\ Hunks # <<>>
  /\ FileLines \in Nat /\ Step \in Nat /\ Budget \in Nat
  /\ \A h \in DOMAIN Hunks : Hunks[h].old + OldCount(h) - 1 =< FileLines

Row(h, left, right, old) == [hunk |-> h, left |-> left, right |-> right, old |-> old, head |-> FALSE]
HeaderRow(h) == [hunk |-> h, left |-> 0, right |-> 0, old |-> 0, head |-> TRUE]

Larger(a, b) == IF a > b THEN a ELSE b
Smaller(a, b) == IF a < b THEN a ELSE b

\* One block of a hunk from old and new line on: context, or removed lines
\* with the added lines after them. Side by side they are paired.
BlockRows(h, b, old, new, sided) ==
  LET context == [i \in 1 .. b.context |->
                    Row(h, IF sided THEN old + i - 1 ELSE 0, new + i - 1, old + i - 1)]
      from == old + b.context - 1
      to == new + b.context - 1
      removed == [i \in 1 .. b.removed |-> Row(h, from + i, 0, from + i)]
      added == [i \in 1 .. b.added |-> Row(h, 0, to + i, 0)]
      paired == [i \in 1 .. Larger(b.removed, b.added) |->
                   Row(h, IF i =< b.removed THEN from + i ELSE 0,
                          IF i =< b.added THEN to + i ELSE 0,
                          IF i =< b.removed THEN from + i ELSE 0)]
  IN  context \o (IF sided THEN paired ELSE removed \o added)

\* presentation::rows.
HunkRows(h, sided) ==
  LET blocks == Hunks[h].blocks
      rows[n \in 0 .. Len(blocks)] ==
        IF n = 0 THEN <<HeaderRow(h)>>
        ELSE rows[n - 1] \o BlockRows(h, blocks[n], Starts(h)[n - 1].old, Starts(h)[n - 1].new, sided)
  IN  rows[Len(blocks)]

Presentation(sided) ==
  LET rows[h \in 0 .. Len(Hunks)] == IF h = 0 THEN <<>> ELSE rows[h - 1] \o HunkRows(h, sided)
  IN  rows[Len(Hunks)]

\* hunk_rows: the header of a hunk.
Header(h) == CHOOSE i \in DOMAIN shown : shown[i].head /\ shown[i].hunk = h

\* The hunk whose header is at or above a row; the first one above them all.
HunkOf(row) == Larger(1, Cardinality({h \in DOMAIN Hunks : Header(h) =< row}))

RowHeight(i) ==
  IF wrap /\ ~shown[i].head /\ shown[i].old \in Long THEN 2 ELSE 1

-----------------------------------------------------------------------------
(* Hidden context.                                                         *)
Used == FoldLeft(LAMBDA n, e : n + e.above + e.below, 0, expanded)

\* plan_for_row and context_plan: hunk, first old and new line, and count of
\* the hidden lines a request would show; NoFetch for none.
Plan(row, request) ==
  LET h == HunkOf(row)
      before == expanded[h].above
      after == expanded[h].below
      oldTop == Hunks[h].old - before
      newTop == Hunks[h].new - before
      previousEnd == IF h = 1 THEN 1 ELSE Hunks[h - 1].old + OldCount(h - 1) + expanded[h - 1].below
      gap == Smaller(Larger(0, oldTop - previousEnd), newTop - 1)
      oldEnd == Hunks[h].old + OldCount(h) + after
      newEnd == Hunks[h].new + NewCount(h) + after
      room == IF h = Len(Hunks) THEN Step
              ELSE Smaller(Step, Larger(0, Hunks[h + 1].old - expanded[h + 1].above - oldEnd))
      plan(above, old, new, count) ==
        IF count > 0 THEN [hunk |-> h, above |-> above, old |-> old, new |-> new, count |-> count]
        ELSE NoFetch
      up(count) == plan(TRUE, oldTop - count, newTop - count, count)
  IN  CASE Used >= Budget \/ OldCount(h) = 0 \/ NewCount(h) = 0 -> NoFetch
        [] Used < Budget /\ OldCount(h) > 0 /\ NewCount(h) > 0 /\ request = "above"
             -> up(Smaller(gap, Step))
        [] Used < Budget /\ OldCount(h) > 0 /\ NewCount(h) > 0 /\ request = "all"
             -> IF gap =< Step \/ gap > Budget - Used THEN NoFetch ELSE up(gap)
        [] OTHER -> plan(FALSE, oldEnd, newEnd, room)

-----------------------------------------------------------------------------
(* The frame.                                                              *)

\* normalize: the top row is one of the rows, and what is scrolled away of it
\* is less than the row.
Normal(c) ==
  LET normal[d \in [row : Nat, offset : Int]] ==
        CASE Len(shown) = 0                     -> [row |-> 1, offset |-> 0]
          [] Len(shown) > 0 /\ d.row > Len(shown) -> normal[[row |-> Len(shown), offset |-> d.offset]]
          [] d.row =< Len(shown) /\ d.offset < 0 /\ d.row > 1
               -> normal[[row |-> d.row - 1, offset |-> d.offset + RowHeight(d.row - 1)]]
          [] d.row = 1 /\ d.offset < 0 /\ Len(shown) > 0 -> normal[[row |-> 1, offset |-> 0]]
          [] d.row < Len(shown) /\ d.offset >= RowHeight(d.row)
               -> normal[[row |-> d.row + 1, offset |-> d.offset - RowHeight(d.row)]]
          [] d.row = Len(shown) /\ d.offset >= RowHeight(d.row) /\ Len(shown) > 0
               -> [row |-> d.row, offset |-> RowHeight(d.row) - 1]
          [] OTHER -> d
  IN  normal[c]

\* The height at which row i is shown under a cursor.
Top(c, i) == FoldLeft(LAMBDA y, j : y + RowHeight(j), 0 - c.offset, [k \in 1 .. i - c.row |-> c.row + k - 1])

\* The second pass of Viewport::frame fills the lower edge.
Filled(c) ==
  LET end == Top(c, Len(shown) + 1)
  IN  IF end < Height /\ (c.row > 1 \/ c.offset > 0)
        THEN Normal([c EXCEPT !.offset = @ - (Height - end)])
        ELSE c

Positioned(c) ==
  LET visible == {i \in c.row .. Len(shown) : Top(c, i) < Height}
  IN  [k \in 1 .. Cardinality(visible) |-> [index |-> c.row + k - 1, y |-> Top(c, c.row + k - 1)]]

\* Cells are looked at left to right, and rows without one are passed over.
SideOf(r) == IF r.left > 0 THEN "left" ELSE "right"
Line(r, side) == IF side = "left" THEN r.left ELSE r.right

\* The anchor of a frame: the first line on screen, the first part of it that
\* is, and where that stands.
AnchorOf(rows) ==
  LET lines == {k \in DOMAIN rows : ~shown[rows[k].index].head}
      k == CHOOSE n \in lines : \A m \in lines : n =< m
      r == shown[rows[k].index]
      part == Larger(0, 0 - rows[k].y)
  IN  IF lines = {} THEN NoAnchor
      ELSE [side |-> SideOf(r), line |-> Line(r, SideOf(r)), part |-> part, y |-> rows[k].y + part]

\* find_source: in one column, a context line is painted on the right.
FindSource(a) ==
  LET direct == {i \in DOMAIN shown : ~shown[i].head /\ Line(shown[i], a.side) = a.line}
      context == {i \in DOMAIN shown : ~split /\ a.side = "left" /\ ~shown[i].head
                                       /\ shown[i].right > 0 /\ shown[i].old = a.line}
      all == IF a.line = 0 THEN {} ELSE IF direct # {} THEN direct ELSE context
  IN  IF all = {} THEN 0 ELSE CHOOSE i \in all : \A j \in all : i =< j

\* fragment_for_source: a line that no longer wraps has one part only.
Offset(i) == Smaller(anchor.part, RowHeight(i) - 1) - anchor.y

\* Mutant: the anchor is only restored when a place is to be revealed.
RestoredOnReveal ==
  IF reveal /\ FindSource(anchor) > 0
    THEN [row |-> FindSource(anchor), offset |-> Offset(FindSource(anchor))]
    ELSE cursor

\* restore_anchor after prepare_geometry: the anchor's line goes where it was.
Restored ==
  IF (dirty \/ reveal) /\ FindSource(anchor) > 0
    THEN [row |-> FindSource(anchor), offset |-> Offset(FindSource(anchor))]
    ELSE cursor

-----------------------------------------------------------------------------
(* Actions.                                                                *)
ViewportInit ==
  /\ split \in BOOLEAN /\ wrap \in BOOLEAN
  /\ shown = Presentation(split)
  /\ expanded = [h \in DOMAIN Hunks |-> [above |-> 0, below |-> 0]]
  /\ hunkTarget = 0 /\ cursor = [row |-> 1, offset |-> 0]
  /\ anchor = NoAnchor /\ reveal = FALSE /\ dirty = TRUE /\ pending = 0
  /\ frame = <<>> /\ fetch = NoFetch /\ stale = FALSE /\ mixed = FALSE
  /\ moved = FALSE /\ acts = 0

\* Viewport::frame, once per paint.
Frame ==
  /\ dirty \/ reveal \/ pending # 0 \/ moved
  /\ LET restored == Restored
         c == Filled(Normal([restored EXCEPT !.offset = @ + pending]))
     IN  /\ cursor' = c
         /\ frame' = Positioned(c)
         /\ anchor' = AnchorOf(Positioned(c))
  /\ dirty' = FALSE /\ reveal' = FALSE /\ pending' = 0 /\ moved' = FALSE
  /\ UNCHANGED <<split, wrap, shown, expanded, hunkTarget, fetch, stale, mixed, acts>>

Acts == acts < MaxActs /\ acts' = acts + 1

\* configure: other rows when the columns change, other heights otherwise. A
\* fetch that is on its way is neither stopped nor marked.
Configure(sided, wrapped) ==
  /\ Acts
  /\ <<sided, wrapped>> # <<split, wrap>>
  /\ split' = sided /\ wrap' = wrapped
  /\ shown' = IF sided # split THEN Presentation(sided) ELSE shown
  /\ expanded' = IF sided # split THEN [h \in DOMAIN Hunks |-> [above |-> 0, below |-> 0]] ELSE expanded
  /\ hunkTarget' = IF sided # split THEN 0 ELSE hunkTarget
  /\ moved' = (moved \/ sided # split)
  /\ stale' = (stale \/ (fetch # NoFetch /\ sided # split)) /\ mixed' = (mixed /\ sided = split)
  /\ dirty' = TRUE /\ frame' = <<>>
  /\ UNCHANGED <<cursor, anchor, reveal, pending, fetch>>

\* scroll, with the wheel or a coast.
ScrollBy(dy) ==
  /\ Acts
  /\ hunkTarget' = 0 /\ pending' = pending + dy /\ moved' = TRUE
  /\ UNCHANGED <<split, wrap, shown, expanded, cursor, anchor, reveal, dirty, frame, fetch, stale, mixed>>

\* next_hunk, jump_edge and jump_fraction put the cursor somewhere.
NextHunk(forward) ==
  LET current == IF hunkTarget > 0 THEN hunkTarget ELSE cursor.row
      beyond == {h \in DOMAIN Hunks : IF forward THEN Header(h) > current ELSE Header(h) < current}
      h == CHOOSE n \in beyond : \A m \in beyond : IF forward THEN n =< m ELSE n >= m
  IN  /\ Acts
      /\ beyond # {}
      /\ hunkTarget' = Header(h) /\ cursor' = [row |-> Header(h), offset |-> 0]
      /\ anchor' = NoAnchor /\ pending' = 0 /\ moved' = TRUE
      /\ UNCHANGED <<split, wrap, shown, expanded, reveal, dirty, frame, fetch, stale, mixed>>

JumpEdge(end) ==
  /\ Acts
  /\ hunkTarget' = 0 /\ anchor' = NoAnchor /\ pending' = 0 /\ moved' = TRUE
  /\ cursor' = [row |-> IF end THEN Len(shown) ELSE 1, offset |-> IF end THEN 100 ELSE 0]
  /\ UNCHANGED <<split, wrap, shown, expanded, reveal, dirty, frame, fetch, stale, mixed>>

\* reveal of a line: a find hit, a thread, or the end of a keyboard selection.
RevealLine(i) ==
  /\ Acts
  /\ shown[i].right \in Marked
  /\ hunkTarget' = 0 /\ pending' = 0 /\ moved' = TRUE
  /\ anchor' = [side |-> SideOf(shown[i]), line |-> Line(shown[i], SideOf(shown[i])), part |-> 0, y |-> 1]
  /\ reveal' = TRUE
  /\ UNCHANGED <<split, wrap, shown, expanded, cursor, dirty, frame, fetch, stale, mixed>>

\* expand_context: one request at a time, planned from what is shown now.
ExpandContext(request) ==
  LET plan == Plan(IF hunkTarget > 0 THEN hunkTarget ELSE cursor.row, request)
  IN  /\ Acts
      /\ fetch = NoFetch /\ plan # NoFetch
      /\ fetch' = plan
      /\ UNCHANGED <<split, wrap, shown, expanded, hunkTarget, cursor, anchor, reveal, dirty, pending,
                     frame, stale, mixed, moved>>

\* The read failed, both versions differ there, or the file is another one by
\* now: nothing is inserted.
ContextRefused ==
  /\ fetch # NoFetch
  /\ fetch' = NoFetch /\ stale' = FALSE
  /\ UNCHANGED <<split, wrap, shown, expanded, hunkTarget, cursor, anchor, reveal, dirty, pending,
                 frame, mixed, moved, acts>>

\* Mutant: lines above go right before the hunk's own, below earlier ones.
InsertPointAtLines(h, above) ==
  CASE above -> Header(h) + 1 + expanded[h].above
    [] ~above /\ h < Len(Hunks) -> Header(h + 1)
    [] OTHER -> Len(shown) + 1

\* insert_context: under the hunk's header, or before the next header.
InsertPoint(h, above) ==
  CASE above -> Header(h) + 1
    [] ~above /\ h < Len(Hunks) -> Header(h + 1)
    [] OTHER -> Len(shown) + 1

\* The answer of source_lines, shorter at the end of the file.
ContextArrives ==
  LET h == fetch.hunk
      count == Smaller(fetch.count, Larger(0, FileLines + 1 - fetch.old))
      at == InsertPoint(h, fetch.above)
      lines == [i \in 1 .. count |->
                  Row(h, IF split THEN fetch.old + i - 1 ELSE 0, fetch.new + i - 1, fetch.old + i - 1)]
  IN  /\ fetch # NoFetch
      /\ fetch' = NoFetch /\ stale' = FALSE /\ mixed' = (mixed \/ stale)
      /\ shown' = SubSeq(shown, 1, at - 1) \o lines \o SubSeq(shown, at, Len(shown))
      /\ expanded' = IF fetch.above THEN [expanded EXCEPT ![h].above = @ + count]
                                    ELSE [expanded EXCEPT ![h].below = @ + count]
      /\ dirty' = TRUE /\ hunkTarget' = 0
      /\ UNCHANGED <<split, wrap, cursor, anchor, reveal, pending, frame, moved, acts>>

ViewportNext ==
  \/ Frame
  \/ \E sided, wrapped \in BOOLEAN : Configure(sided, wrapped)
  \/ \E dy \in {-2, 1} : ScrollBy(dy)
  \/ \E forward \in BOOLEAN : NextHunk(forward) \/ JumpEdge(forward)
  \/ \E i \in DOMAIN shown : RevealLine(i)
  \/ \E request \in {"above", "all", "below"} : ExpandContext(request)
  \/ ContextRefused \/ ContextArrives

ViewportSpec == ViewportInit /\ [][ViewportNext]_viewportVars

-----------------------------------------------------------------------------
(* Properties.                                                             *)

\* The lines of a hunk, by their numbers on one side, each follow the one before.
InTurn(h, number) ==
  LET lines == {i \in DOMAIN shown : shown[i].hunk = h /\ ~shown[i].head /\ number[i] > 0}
  IN  \A i, j \in lines :
        (i < j /\ \A k \in lines : k =< i \/ j =< k) => number[j] = number[i] + 1

\* The hidden lines that are shown are the ones next to the hunk ("Request up
\* to ten hidden lines immediately above the hunk", ContextRequest): going
\* down the rows, neither side of the file skips, repeats or reorders a line
\* within a hunk, whatever was expanded in whichever order (plan_for_row,
\* insert_context). Excepted are rows into which context was inserted that
\* had been asked for before the columns changed: the answer is checked for
\* the file only, and repeats what was expanded since.
ContextIsContiguous ==
  ~mixed => \A h \in DOMAIN Hunks :
    /\ InTurn(h, [i \in DOMAIN shown |-> shown[i].right])
    /\ InTurn(h, [i \in DOMAIN shown |-> IF split THEN shown[i].left ELSE shown[i].old])

\* Where a line stands on screen: below the rows above it.
StandsAt(f, a) ==
  \E k \in DOMAIN f :
    /\ ~shown'[f[k].index].head
    /\ \/ Line(shown'[f[k].index], a.side) = a.line
       \/ a.side = "left" /\ shown'[f[k].index].old = a.line
    /\ a.y - f[k].y \in {a.part, 0}

\* The reading place survives whatever the user did not do ("a source point
\* and viewport offset survive remeasurement", viewport.rs): a frame after
\* context arrived or lines began to wrap shows the anchored line at the
\* height it had, unless the window already shows the start or the end.
PlaceIsKept ==
  [][(dirty /\ ~dirty' /\ ~moved /\ anchor # NoAnchor)
       => \/ StandsAt(frame', anchor)
          \/ cursor' = [row |-> 1, offset |-> 0]
          \/ \E k \in DOMAIN frame' : frame'[k].index = Len(shown')]_viewportVars

-----------------------------------------------------------------------------
(* The inductive invariant behind ContextIsContiguous.                     *)
DisplayRow == [hunk : DOMAIN Hunks, left : Int, right : Int, old : Int, head : BOOLEAN]

\* Each hunk begins with its header, at row first[h], and ends before the next.
LaidOut(rows, first) ==
  /\ rows \in Seq(DisplayRow)
  /\ first[Len(Hunks) + 1] = Len(rows) + 1
  /\ \A g, h \in 1 .. Len(Hunks) + 1 : g < h => first[g] < first[h]
  /\ \A h \in DOMAIN Hunks : first[h] \in DOMAIN rows /\ rows[first[h]].head /\ rows[first[h]].hunk = h
  /\ \A i \in DOMAIN rows :
       /\ first[rows[i].hunk] =< i /\ i < first[rows[i].hunk + 1]
       /\ rows[i].head => i = first[rows[i].hunk] /\ rows[i].right = 0 /\ rows[i].old = 0

Headers == [h \in 1 .. Len(Hunks) + 1 |-> IF h =< Len(Hunks) THEN Header(h) ELSE Len(shown) + 1]

\* The lines of a hunk are numbered from one number to before another.
Runs(rows, h, number, from, to) ==
  /\ \A i \in DOMAIN rows : rows[i].hunk = h /\ number[i] > 0 => from =< number[i] /\ number[i] < to
  /\ \A i, j \in DOMAIN rows :
       i < j /\ rows[i].hunk = h /\ rows[j].hunk = h /\ number[i] > 0 /\ number[j] > 0 => number[i] < number[j]
  /\ \A n \in from .. to - 1 : n > 0 => \E i \in DOMAIN rows : rows[i].hunk = h /\ number[i] = n

\* What was fetched is next to what is shown.
FetchInv ==
  fetch # NoFetch =>
    LET h == fetch.hunk
    IN  /\ fetch \in [hunk : DOMAIN Hunks, above : BOOLEAN, old : Int, new : Int, count : Nat]
        /\ ~stale /\ fetch.above => /\ fetch.old + fetch.count = Hunks[h].old - expanded[h].above
                                   /\ fetch.new + fetch.count = Hunks[h].new - expanded[h].above
        /\ ~stale /\ ~fetch.above => /\ fetch.old = EndOf(h).old + expanded[h].below
                                    /\ fetch.new = EndOf(h).new + expanded[h].below

NumbersInv ==
  /\ split => \A i \in DOMAIN shown : shown[i].left = shown[i].old
  /\ ~mixed => \A h \in DOMAIN Hunks :
       /\ Runs(shown, h, [i \in DOMAIN shown |-> shown[i].right],
               Hunks[h].new - expanded[h].above, EndOf(h).new + expanded[h].below)
       /\ Runs(shown, h, [i \in DOMAIN shown |-> shown[i].old],
               Hunks[h].old - expanded[h].above, EndOf(h).old + expanded[h].below)

ViewportInv ==
  /\ split \in BOOLEAN /\ stale \in BOOLEAN /\ mixed \in BOOLEAN
  /\ expanded \in [DOMAIN Hunks -> [above : Nat, below : Nat]]
  /\ LaidOut(shown, Headers) /\ FetchInv /\ NumbersInv
=============================================================================
